# Verification of aes-api

TLA+ models, model checking runs and proofs for the backend of aes-api: a
FastAPI service with a taskiq worker that grades essays of municipalities' schools with
language models. The paths below are relative to `src/` unless they are module names;
`backend/src/` is shortened to `b/`.

## 1. The system

| Component | State it keeps | Operations | Talks to |
|---|---|---|---|
| Submission API (`b/modules/aes/service.py`, `routes.py`) | rows of batches, submissions, jobs | submit a text or image batch, grade a batch again, read status and results | database, object storage, queue |
| Correction worker (`b/modules/aes/worker.py`) | `correction_jobs.status`, `correction_attempts`, `correction_results`, `submissions.raw_text` and `transcription_meta` | one task per message: transcribe, up to `max_attempts` calls to the provider, settle | database, object storage, providers |
| Task queue (`b/infrastructure/taskiq`) | messages, receipts and visibility timeouts (SQS), unacknowledged messages (RabbitMQ), a list (Redis) | put, receive, expire, acknowledge | API, worker |
| Object storage (`b/modules/aes/storage.py`) | originals of images, raw exchanges with the providers | put, get | API, worker |
| Sessions (`b/infrastructure/auth/session`) | Redis keys `session:{id}`, the index `session:user:{id}`, keys `csrf:{token}`, `last_cleanup` per process | login, visit, logout, refresh of the CSRF token, sweep of expired sessions, eviction over the limit | Redis, users |
| Login throttle (`track_login_attempt` and the limiter backend) | counters `login:ip:*`, `login:user:*` | count, answer, clear | Redis |
| Tenancy (`b/infrastructure/database/tenancy.py`, policies in `backend/migrations`) | the settings `app.municipio_id` and `app.is_superuser` of a transaction | set the context, every query | database pool |
| Budget (`check_budget`) | the month's cost, summed over attempts | test before a batch | database |
| API keys (`b/modules/api_keys`) | keys, permissions, usage rows | create, update, deactivate, validate, record | database |
| Users, tiers, limits per path (`b/modules/user`, `tier`, `rate_limit`) | rows with unique columns, `is_deleted` | create, update, delete softly, anonymise, delete | database |
| Request limiter (`b/infrastructure/rate_limit`) | a counter per user, path and window | count and answer | Redis or memcached |
| Response cache (`b/infrastructure/cache`) | cached responses | read through, invalidate by key or pattern | Redis or memcached |
| Prompts, rubrics, providers, guardrails (`b/modules/aes/catalog.py`, `providers/`) | versions of prompts and rubrics | choose a version, call a model, accept its grade | language models |
| OAuth (`b/infrastructure/auth/oauth`) | `oauth_state` keys | start, callback | Redis, identity providers, users, sessions |
| Configuration, application factory, admin views, logging, command line, charts | none that changes while requests run | | |

Three things make the system hard to test.

* Nothing is transactional across the database, the object storage and the
  queue. A worker can stop between any two of them, and the queue delivers a
  message again when it does, or when it is merely slow. What is asked of a provider
  costs money and cannot be undone.
* The web process is asynchronous: at every `await` another request runs, and
  almost every operation on Redis is a read, a decision and a write back of
  what was read. Sessions, limits, budgets and caches are all of this form.
* Errors are caught close to where they arise and the request goes on. A failing Redis
  leaves counters uncounted and sessions not ended.

What makes each component correct, in short: a job is graded once, its result is
never replaced and points to evidence that is really there, and each
job that reached the queue is settled; a session that was ended stays ended,
the number of sessions and of password guesses stays near its limit, and a
session in use is not lost; a tenant reads and writes its own rows only; a budget is
exceeded by no more than what was under way; a key that was deactivated is refused
from then on; a unique column stays unique; a window counts every request;
a cached response is not older than the last invalidation. `PROJECT.json`
lists, line by line, where the code makes each of these difficult, with the
properties that watch over it.

## 2. Modules

| Module | Models | Used by |
|---|---|---|
| `JobContract` | what a job promises: statuses go forward, done exactly when there is a result, one result | `CorrectionPipeline` (`KeepsContract`) |
| `CorrectionPipeline` | API, queue, storage, database and workers around a job | `MCPipeline`, `CorrectionPipelineProofs` |
| `CorrectionPipelineProofs` | theorems about types and results, the attempts of a delivery, the order of rows, messages and images, and jobs without overlaps: one holder, one history, the contract | |
| `SessionStorage` | the Redis keys of sessions and tokens, with their time to live | `AuthRequests` |
| `LoginThrottle` | the counters of login attempts | `AuthRequests` |
| `AuthRequests` | login, visit, logout and refresh as interleaved threads | `MCAuth`, `AuthRequestsProofs` |
| `AuthRequestsProofs` | theorems about keys, tokens, ended sessions, guesses and the limit of sessions | |
| `AccountTables` | the rows of users, keys and key permissions, an operator per transaction | `ApiRequests` |
| `TenantData` | rows of tenants, the policies, the settings of pooled connections, the cache in front | `ApiRequests` |
| `ApiRequests` | the requests that act for a principal, as interleaved threads | `MCAccess`, `ApiRequestsProofs` |
| `ApiRequestsProofs` | theorems about it | |
| `RateLimits` | the request limiter on both backends, with the rows of tiers and limits it looks up | `MCLimits`, `RateLimitsProofs` |
| `RateLimitsProofs` | theorems about it | |
| `ProductionSecurity` | the settings, and what the production validator makes of them, as operators | `WebProcess` |
| `ResponseCache` | the `@cache` decorator over both backends | `WebProcess` |
| `WebProcess` | start, service and stop of several web processes: validator, lifespan and cache together | `MCWeb`, `WebProcessProofs` |
| `WebProcessProofs` | theorems about the processes, their settings and the cache | |
| `OAuthAccounts` | sign-in with Google and the accounts it finds, links or creates, with the other writers of those rows | `MCOAuth`, `OAuthAccountsProofs` |
| `OAuthAccountsProofs` | theorems about the accounts of identities and the use of states | |
| `SessionContract` | what a session storage promises to its callers | `SessionBackends` (`KeepsContract`) |
| `SessionBackends` | the storages in memory, on Redis and on memcached | `MCSessions`, `SessionBackendsProofs` |
| `SessionBackendsProofs` | theorems about types, the contract and the lists of sessions | |
| `TokenBudget` | the budget of a municipality, the requests that look at it and the runs that spend it | `MCBudget`, `TokenBudgetProofs` |
| `TokenBudgetProofs` | theorems about what is spent and where it is recorded | |
| `MCPipeline`, `MCAuth`, `MCAccess`, `MCLimits`, `MCWeb`, `MCOAuth`, `MCSessions`, `MCBudget` | the scenarios and the symmetry for TLC | the runs |

Definitions marked `MUTANT` in a comment are deliberate errors, the way a bug in the code
named there might look. They are used by no specification; each property has one that it
refutes when the mutant takes the place of the definition.

### CorrectionPipeline

The unit of interleaving is a step between two effects on a shared system: a
commit, a read that is used later, a call of the storage, a message. A
*delivery* is one receipt of a message by one worker process. The steps of
`pc` follow `process_correction_job` in order:

| Step (`pc`) | Code in `worker.py` | Effects |
|---|---|---|
| `load` | 194-197 | reads the job; ends when it is `done` or `failed` |
| `submission` | 198-209 | reads the submission into `draft`, once |
| `start` | 211-219 | commits `processing` |
| `transcribe`, `keep_text`, `keep_trace` | 46-97 | the OCR, its exchange in the storage, the text and its trace in one commit, or the trace of a failure |
| `attempt` | 100-180 | the call, its exchange under the job and the attempt number, a row that is flushed only |
| `finish`, `exhausted` | 234-269 | attempts, result and status in one commit |
| `rescue`, `mark_failed` | 270-278 | rollback, a new read, `failed` unless done |
| `ack` | 281-302 | the task is over, with an exception or not; the queue is told |

Requests (`CommitBatch`, `Dispatch`, ...) commit all the rows of a batch first and then
send one message per job. What a delivery has read is in its own variables,
because another delivery may change the row; what it has flushed is in
`flushed` and vanishes with its transaction. Failures are actions of their
own (`StartFails`, `AttemptFails`, `SettleFails`, ...) and, where a
commit can raise after it took effect, leave both outcomes open. A grade is
the attempt row it comes from; the content of texts, prompts and answers is not
modelled, only whose they are.

### SessionStorage, LoginThrottle, AuthRequests

`SessionStorage` has an operator per Redis command: a key holds a record and an
end of life, `update` is an `EXISTS` followed by a `SET` of the whole record. `LoginThrottle` has
the counters. `AuthRequests` runs the handlers on them: every `await` on Redis
or on the database is a step of its own, and what the handler holds in local
variables in the meantime is in the record `task[t]`. A record read by one step
(`copy`) is written back by a later one, which is where the hard behaviours
come from. A command that raises has no effect and takes the handler where its
`except` takes it (`Fail`). Time advances at any moment, also inside a request.

Simplified on purpose: there is one process, hence one `last_cleanup`; `SCAN`
returns the keys present when it starts; a failure of the scan is one at its
start; a password is right or wrong by choice; the comparison of a CSRF token
with its session is a read and left out; a client presents a session only after
the login that made it was answered.

### AccountTables, TenantData, ApiRequests

Every statement that another request can come before is a step; `task[t]` holds
what the handler has in its variables, above all `who`, the copy of the user that
was loaded for the principal and is not read again.

| Step (`pc`) | Code | Effects |
|---|---|---|
| `match`, `permit` | `validate_api_key` in `b/modules/api_keys/service.py` | reads the key, then its permissions; a commit |
| `load` | `get_current_principal`, `get_current_user` | reads the owner of the key, or the user of the session, into `who` |
| `context` | `b/modules/aes/dependencies.py` | the settings of the transaction, on a connection of the pool |
| `look`, `read`, `fill`, `reply` | `b/infrastructure/cache/decorator.py` around `get_rubric` | reads the cache, the row under the policies, fills the cache; the transaction ends after the answer |
| `insert` | `create_rubric` | inserts under the policy and commits |
| `find`, `existing`, `taken`, `write` | `b/modules/user/routes.py` and `service.py` | the user by name, again by id, the new name, the update by id |
| `write` of keys | `b/modules/api_keys/service.py` | one transaction each |

Values that a request carries and uses once (a new grant, an expiry, a name in the path) are chosen at
the step that uses them. `seen` is a history: which requests came with a key that has been usable in
every respect at one moment of theirs, and whose user has been renamed since it was loaded.

Simplified on purpose: rubrics stand for the rows that are read through the cache and
the routes of essay prompts, which have the same form, are not repeated; a user has a name and no email,
which is treated alike; the tenant of a user is fixed, as no route changes it; a session is
valid (that is the matter of `AuthRequests`); statements with nothing to observe
between them are one step (the up to four queries for a permission, whose rows never change; the
check of a key's owner, who never changes).

### RateLimits

| Step (`pc`) | Code in `b/infrastructure/rate_limit` | Effects |
|---|---|---|
| `tier` | `middleware.py:55-57` | is the tier of the user still there |
| `by_key`, `by_path` | `middleware.py:60-71` | the limit of the tier for the sanitised path, then for the path as it is; any row that matches |
| `count` | `backends/redis.py:69-102`, `backends/memcached.py:62-82` | Redis: `INCR` and `EXPIRE` in one transaction, and the verdict; memcached: the read |
| `write` | `backends/memcached.py:83-88` | the set of what was read and incremented, and the verdict |

A counter is a client, a key and the start of a window; the length of the window is in no key, so that two
limits of different periods may use one counter. `use` is the history of each counter: who was counted, admitted
and refused, under which limits and periods, and whether two memcached counts of it were under way at once.
Administrators change limits, tiers and the tier of a user at any time (`b/modules/rate_limit`,
`b/modules/user`, the admin views). A backend that raises (`CountFails`) may have counted or not, and
`fail_open` decides the answer.

Simplified on purpose: the row of the user comes with the request (`get_optional_user`); names, lists and reads of
tiers and limits are left out. The dependency `check_rate_limit` is mounted on no route of the application, and
`RateLimitService.create` is called by none, so that the model says what holds where they are used as the
documentation describes. `reset` and `get_count` of the provider have no caller and address a key without its
window, which no counter has; they are not modelled.

### ProductionSecurity, ResponseCache, WebProcess

`ProductionSecurity` has the settings as records and one operator per check of
`b/infrastructure/security/production_validator.py`. `WebProcess` evaluates them at the start of every process, as
`create_application` does, and goes through the lifespan of `b/infrastructure/app_factory.py`:

| Step (`pc`) | Code | Effects |
|---|---|---|
| `start` | `lifespan_with_security` | validates; refused settings end the process before the lifespan |
| `check_tables`, `create_tables` | `b/infrastructure/database/session.py:127` | looks which tables exist, creates those that did not |
| `cache`, `limiter`, `broker` | `app_factory.py:56-62` | opens the clients in this order |
| `serving` | `app_factory.py:66` | requests are served |
| `close_broker`, `close_cache`, `close_limiter` | `app_factory.py:68-75` | the `finally`; what is raised here skips the rest |
| `ended` | | a supervisor starts a new process in its place |

`ResponseCache` has the decorator of `b/infrastructure/cache/decorator.py` for any endpoint: a GET looks up, runs and
stores; another method runs, deletes its own key, then the extra keys, then a pattern, of which the Redis backend
finds one page of `SCAN` and which memcached does not support. Versions count the writes of a resource; an
entry is stale when its version is behind. `missed` is the history of what a deletion failed on, was cut off
before, or did not see.

Simplified on purpose: an endpoint reads or commits in one step; the writer endpoints are those a developer may
declare (`Writers`), provided that they name every key they affect, because the two routes that use the
cache today only read; an entry has no fixed life and may go at any time (`Expire`).
`create_tables_on_startup` is always true, as `b/main.py:28` calls the factory without it.

### OAuthAccounts

| Step (`pc`) | Code | Effects |
|---|---|---|
| `state`, `exchange` | `b/infrastructure/auth/routes.py:320-362` | the state is read; Google says who it is, or refuses |
| `by_id`, `by_email`, `link` | `b/infrastructure/auth/oauth/services.py:37-55` | the account with the identity; else the one with the email, which gets the identity |
| `name`, `insert` | `services.py:57-120` | the search for a free name, the insert under the unique indexes |
| `session`, `forget` | `routes.py:364-385` | the session, then the deletion of the state |
| `read`, `email_free`, `name_free`, `write` (and `insert`) | `b/modules/user/service.py` | update and registration, which look names and emails up before they write, and write the `google_id` of the body unseen |

The bodies of registrations and updates are the constants `Registrations` and `Updates`: `google_id` is a field of both
(`b/modules/user/schemas.py:73` and `:123`), so that besides sign-in and anonymisation they are writers of that column, and only the
fields that are in a body are looked up and written. Deletion and anonymisation are one step each. The history `home` is the
account an identity was last given. The update of `link` asks for no columns in return, so that it may give no row, and the callback that needs its id
then ends with an error after the link was committed; both outcomes are in the model.
Simplified on purpose: otherwise `crud_users.get(filter_by=...)`, `exists(filter_by=...)` and `update(object_id=...)` are taken for what they say, as the
CRUD library is external; a name is a base and a number; of passwords, other fields of profiles and GitHub, which has
no route, nothing is modelled.

### SessionContract, SessionBackends

`SessionContract` is the abstract storage: each call acts at most once, on its own session, with the value it was given or
one the session had while the call was under way. `SessionBackends` has the three implementations, a step per command:

| Step (`pc`) | Redis | memcached |
|---|---|---|
| `look` | `GET` or `EXISTS` | `get` |
| `write` | a transaction on the session and the list of its user | the set or delete of the session |
| `read_list`, `write_list` | | the list, read and written back |

In memory a call has no `await` and is one step (`CallMemory`). Time is in units; `Grace` is the hour by which a list
outlives its sessions, `Day` the life that a `delete` on memcached gives to a list, `Month` the 30 days above which memcached takes
an expiry for a date, so that the key is gone at once. Simplified on purpose: `reset_expiration` is left at
its default, as by every caller; no call takes longer than `Grace`; the sweeps that call `_scan_iter` only read.
`extend` and `delete` are part of the interface although no session is ended by them (an update does it): `delete` is
called for CSRF tokens (`b/infrastructure/auth/session/manager.py:243`) and for OAuth states
(`b/infrastructure/auth/routes.py:385`), `extend` by nobody.

### TokenBudget

| Step (`pc`) of a request | Code in `b/modules/aes/service.py` | Effects |
|---|---|---|
| `new` | 81-98 | labels, images, the model against the catalog |
| `limit`, `sum` | 63-79 | reads the budget, then the sum of this month's attempts |
| `create`, `dispatch` | 100-156 | rows in one commit, then a message per job |

| Step (`pc`) of a run | Code in `b/modules/aes/worker.py` | Effects |
|---|---|---|
| `idle`, `submission`, `start` | 194-213 | reads the status (`seen`), then the text (`blank`), then commits `processing` over whatever the status is by then |
| `transcribe` | 72-97 | the OCR, with text and trace or the trace alone |
| `correct` | 131-180, 221-232 | a call and its flushed row |
| `finish`, `exhausted` | 234-269 | rows and status in one commit |
| `rescue`, `mark_failed` | 270-278 | a new read, `failed` unless settled by then |

The steps are those of `CorrectionPipeline`, except that the OCR, its exchange and its commit are one step, and that the acknowledgement is
left out: a delivery is an element of `Runs` that may begin at any time. Three awaits before the first call matter to the budget: a
delivery that read a job as pending may commit `processing` after another has settled the job, and from then on later deliveries spend on it again.
`Reopens` names the runs that can do this, `Live` the runs that may still record something on account of it. Commits
that raise may have taken effect, in the request (`FailRequest`) as in the worker (`StartFails`, `TranscriptionUnconfirmed`, `SettleUnconfirmed`). In addition a run has
the conversation of each call: answers that the guards send back (`b/modules/aes/providers/guardrails.py`) are
asked for again up to `MaxRetries` times, and each is a token. `Corrected` and `Transcribed` are the endings that the guards allow. A
token is in a committed row, in the trace of a transcription, in the hands of a run, or `lost`.

Simplified on purpose: an answer costs one token, whatever its length; one municipality; the deliveries of a job start in
any order, as in `pipeline_overlap`; the catalog is its verdict (that an older fetch may overwrite a newer one
in its cache, `b/modules/aes/catalog.py:60`, is left out).

## 3. Runs

| Run | Question | Bounds |
|---|---|---|
| `pipeline_recovery` | With crashes, redeliveries and failures but no overlap, is each job graded once, with its evidence, in keeping with `JobContract`? | two jobs (an image, a text), three deliveries, two attempts, one crash, one failure |
| `pipeline_overlap` | What still holds when two deliveries of one job, or of two jobs of one essay, run at once? | two jobs of one image, two deliveries, one overlap, one failure |
| `pipeline_settles` | Under fairness, is every job whose message was sent settled for good, with each call on record? | two jobs, three deliveries, one crash, no failure |
| `auth_logins` | What do the session limit and the login limiter guarantee under races and failures? | two threads, four logins, three sessions, limits of one, one failure, no time |
| `auth_expiry` | What do timeouts and sweeps preserve under races while time passes? | two threads, one login, one session, a timeout of two ticks, three ticks of time, one failing command |
| `access` | Is a principal let in, given a context, answered from the cache and held to its own row as it should, while keys and users change? | two threads, three requests, three users, two keys, three rubrics, two connections, one failure |
| `access_permissions` (violation) | Does a key permit what its row says? | as above, two requests |
| `limits` | How far can the admissions and refusals of a window be from its limit, on either backend? | one client, one key of two paths, one row, two limits of two periods, four requests, two at once, three ticks, two changes, one failure |
| `web` | What do validator, lifespan and cache guarantee together, and do all processes serve in the end? | two processes, five settings, two resources, two kinds of writers, two requests, one failure of the cache, one of a process, one stop |
| `oauth` | Does an identity keep its account, and a state its single use, whoever changes the accounts meanwhile? | two identities with the same email or none, two emails, two accounts, one name, one state, two bodies of registrations and three of updates, three requests, two at once, one failure |
| `sessions` | Do the three backends implement one storage, and when is a session missing from its user's list? | three backends, three timeouts, two sessions of one user, two callers, three calls, three ticks, one failure |
| `budget` | By how much can a budget be overrun, and where is each token recorded? | two requests, a typed essay of one attempt delivered three times, an image of two attempts delivered once, one retry, budgets of none and one, one rare event |

Why the bounds suffice. In the pipeline two attempts show a retry, a
success after it and exhaustion; with three deliveries a job can be
crashed, redelivered and completed while the other job needs one of its own;
two jobs show the order of messages and the atomic batch. Deliveries are used
once each, hence their symmetry. One failure at any step reaches every `except`
of the code, and a second would only repeat a rollback. For sessions two threads
give every pair of interleaved handlers; the fourth login finds three sessions
that earlier races left, so that the loop of the eviction runs more than once, and
it is the first that an ignored limiter would let through too often. With limits
of one, both sides of every comparison occur. In
`auth_expiry` the timeout is two ticks, so that a use falls strictly between the
creation of a session and its end, and time runs one tick beyond it: the timeout
tests of the code bite only when a request was slow, because the key of a
session dies by itself as long after its last write as the record may be idle.
Evictions are explored without time in `auth_logins`. In `auth_expiry` logins are not counted (`RATE_LIMITER_ENABLED`
off), as the counters have no part in it; in `auth_logins` they are.
The order of eviction by `last_activity` has no visible effect with a limit of
one; it is modelled and not yet distinguished by a property.

In `access` a superuser and an ordinary user share a tenant, a third person can register and has none, and
rubrics belong to this tenant and to another one. Three requests on two threads let one request be overtaken twice
(the owner of a name is renamed and the name is taken while a request that used it is under way), and let
a connection be used, given back and used by a principal without a tenant. One grant has a wildcard and a resource that
does not exist. A third thread would add no pair of steps.

In `limits` two paths share a key, the two limits have periods that share some starts of a window and not others, and
time runs long enough for a window to end and another to begin; the row can be created and then changed or dropped
while requests are under way; two requests at once are what an increment needs to get lost. In `web` the two
processes meet in `create_all`; the five settings are two that are accepted with warnings, in which different
services share a Redis database, one that is not validated, and two that are refused for different reasons; a stop, a crash and a failing command can
each fall on any step. In `oauth` two identities to which Google gives the same email, or none, meet on two accounts and one
name, so that they race for the name, for the email and for a link, while registrations and updates also take a second email; one registration
names an identity, one update claims an identity and one gives up identity and email together. The third request comes after the first two,
which is when an identity could find another account: it does after such an update, without any anonymisation. In `sessions` the lives of the lists (a timeout and `Grace`) lie below, at and above the limit
`Month`, above which memcached drops a list at once, and three ticks outlive every list that
can end; three calls are the two that race for a list and one that finds what they left. A list that a delete cut to a day and that
ends under an update takes a fourth call, which makes the run too long; such cases are left to the proof in section 4. In
`budget` two requests can pass the check on the same sum; a budget of one token is used up by the first answer, so
that everything after it is an overrun. Three deliveries of one job are what a reopened job needs: one reads it pending, one settles it, and
the third, idle when the second request is checked, spends after the first has set the status back; they do the same steps in any order, hence their symmetry. The job
with two attempts shows the retry, the image the transcription. Leaving `Reopens` out of `Live` makes TLC find an overrun beyond reach here.

Runs without deadlock checking end because the bounds are used up: requests are made and
deliveries happen finitely often.

Fairness appears in three runs. In `pipeline_settles` a request under way is served to its end by
the event loop; a live worker goes on with its task; the queue hands out a visible message; the
visibility timeout of a dead worker ends. In `web` a process that is starting or stopping goes on, and
one that ended is started again (`Proceed`), which is what the restart policy of the deployment does. In `oauth` a
request under way gets its next step, for each request by itself, as the event loop is fair to its tasks.
All of it is weak fairness. Nobody is obliged to make a request, and failures, crashes, stops and
overlaps are never forced.

### What was found

One disagreement is a run of its own:

* `access_permissions`: changing the permissions of a key (`b/modules/api_keys/service.py:277`) changes the
  column that is shown and not the rows of `key_permissions`, which alone are looked at.

Five more are stated as properties that the code violates; they are in no run, and putting one of them in
place of the properties of the configuration that is named shows the behaviour.

* `FailedHasNoResult` in `pipeline_overlap.cfg`: `worker.py:266` writes `failed` without looking at the
  row again, so that a delivery which exhausts its attempts turns a job that an
  overlapping delivery finished from `done` to `failed`; the result stays. The `except`
  branch does look (line 274), and a unit test is named after that promise.
* `EveryCallIsRecorded` in `pipeline_recovery.cfg`: attempt rows are flushed and not committed until the loop
  ends. A failure afterwards erases the rows of attempts that were paid for, although
  the documentation promises a row for every attempt. (Without failures it holds, and `pipeline_settles` checks it.)
* `TextIsWriteOnce` in `pipeline_overlap.cfg`: a recorrection sent before the first transcription
  is over runs the OCR again and replaces the text the first grade was given for.
* `EndedStaysEnded` in `auth_expiry.cfg`: a visit that read the session before its logout writes
  the active record back and gives it a new time to live.
* `DeletedUsersAreNotUpdated` in `access.cfg`: a profile update tests `is_deleted` and then updates by id alone, so
  that it writes name and profile back into the row of a user who was deleted or anonymised in between.

Others are kept as the exact form of a passing property: what may go wrong is named in it, and
nothing else can.

* The limit of sessions per account (`docs/user-guide/authentication/sessions.md:167`)
  is exceeded by concurrent logins, by one each (`OverrunIsBounded`). Visits
  can revive sessions one by one while a login evicts several, so that no
  bound holds for sessions revived in this way; a login that runs undisturbed restores the
  limit (`LoginRestoresTheCap`). A session counts as revived, too, when its key had expired between the `EXISTS` and the
  `SET` of an update, so that it was no longer active and then is: time alone can revive one. The first
  version of the model did not record this, the bounds of `auth_logins`, without time, could not show it, and
  the proof of `OverrunIsBounded` did not go through until it was added.
* A row of another tenant that a superuser read is cached under the superuser's own
  tenant and answered to its ordinary users until it expires (the word "member" in `AnswersStayWithTheTenant`;
  `docs/getting-started/running-aes.md:116` says of the superuser's key that it bypasses the policies).
* A user who is renamed while a request of theirs is under way may have it applied to whoever took the old name
  (`renamed` in `OrdinaryUsersChangeTheirOwnRow`).
* The memcached limiter loses increments of requests that count at once, although its interface
  promises atomic ones (`b/infrastructure/rate_limit/base.py:79-80`), and on both backends a change of the period lets two
  limits count in keys of different lives (`AdmittedWithinLimit`).
* Budgets are tested when a batch is submitted and reserved by nobody, so that
  what was accepted before is spent on top, and so is what redeliveries spend on a settled job after a late delivery has set it to `processing` again (`worker.py:195-212`); tokens of calls whose run was rolled back or killed are in no
  sum (`OverrunIsWithinReach`, `EveryTokenIsAccounted`).
* On memcached a list of sessions is lost or cut short when two calls write it at once, when a delete gives it
  the life of a day (and a session timeout and an hour exceed a day), or when the session timeout, which no validation bounds, is so long that the list would live for more than 30 days: memcached then
  takes the expiry for a date in the past (`ListedUnlessRaced`).
* The Redis cache deletes what one page of `SCAN` returns for a pattern; memcached cannot delete patterns, which is
  logged and answered as a success (`StaleEntriesExplained`).
* An identity of Google keeps its account except where `google_id` is overwritten: by another identity with the same email,
  by an administrator's anonymisation, or by an update of the profile, whose body may set it to anything that no other row has
  (`b/modules/user/schemas.py:123`); nothing asks Google about an identity that a registration or an update names. Anonymisation keeps the email, so that a later sign-in
  with it gets the erased row back (`AnIdentityKeepsItsAccount`). Two callbacks with one state both sign in
  when the second reads the state before the first has deleted it (`AStateSignsInOnce`).

And some were met while reading and are stated by no property:

* `check_rate_limit` is a dependency of no route, and `RateLimitService.create` has no caller.
* `CREATE_TABLES_ON_STARTUP=false` (`docs/user-guide/production.md:103`, `docs/user-guide/database/migrations.md:19`) has
  no effect: `b/main.py:28` does not pass it, and the factory's default is true.
* `docs/user-guide/configuration/environment-specific.md:200` says that production refuses to start with `DEBUG=true` or
  CORS for all origins; the validator only warns of both. `PRODUCTION_SECURITY_STRICT_MODE` is read nowhere.
* The OAuth callback sets the session cookies on one response and returns another, a redirect
  (`b/infrastructure/auth/routes.py:377` and `:401`), so that the session it created is one no client has. The state
  of OAuth is stored on Redis only, whatever backend the sessions use.

## 4. Proofs

`CorrectionPipelineProofs` proves, for all sets of jobs, submissions,
deliveries and requests, every attempt limit, and any number of crashes,
overlaps and failures:

* `TypeCorrect`: `Spec => []TypeOK`.
* `DoneJobsHaveResults` and `ResultsAreRecorded`: a done job has a result, and
  a result refers to a committed, successful attempt of the same job.
* `ResultsAreWriteOnce`: no step replaces a result.

The assumptions are those of the module: a positive attempt limit, natural
bounds, `SubmissionOf` and `JobsOf` being functions of the right kind, no job in two requests or twice in one,
and `None` being no value of a column.

The argument. `TypeOK` is not inductive: that a settled delivery writes a
correct row needs its job to be known, its flushed rows to be its own and, at
`finish`, a success among them. `Typed` adds `HasJob`, `OwnRows` and
`HasCorrection`. Its preservation is proved group by group (API, queue, progress,
trouble), and the lemma `Frame` disposes of the groups of variables
that an action leaves alone. `Recorded` (the conjunction of the two safety
invariants) is inductive relative to `Typed`; only the commit of
`SaveDone` can disturb it, and `CorrectionIsFlushed` says that the row it refers to is in
the same commit. `ResultIsWriteOnce` follows from the form of `SaveDone`, the
only writer of `result`.

Under the same assumptions the module goes on with the order of things:

* `HistoriesAreWhole`: `AttemptHistory`.
* `OriginalsComeFirst`: `OriginalBeforeRow`.

`LocalStep` says once what a step of a delivery leaves alone: the other deliveries, and the columns of other jobs and
submissions. For the histories, `Loop` describes the rows that are flushed and not yet committed: while attempts are
made they are retries numbered without a gap below the current attempt (`Prefix`), and at the end of the loop they are
a whole history (`InHistory`); `Settle` adds all of them in one commit, or none is added. A union of whole histories is
whole, which is why overlaps do no harm here. For the images, `OriginalBeforeRow` is not inductive:
that a delivery changes the status of a job never brings a submission into being needs `Created` (the row of a job is
committed before its message is sent and before a delivery holds it) and `Received`.

Its last part is about what overlaps and failures destroy. An overlap is a message made visible again while its delivery is
still running, and `NoOverlap` says that none has happened so far; crashes, failures, redeliveries after a crash
and recorrections stay unbounded.

* `JobsAreGradedOnce`: `Spec => [](NoOverlap => OneHistoryPerJob)`.
* `PipelineKeepsContract`: `Spec /\ []NoOverlap => KeepsContract`, the refinement of `JobContract`.
* `EvidenceStays`: `Spec => [](NoOverlap => EvidenceIsItsOwn)`.
* `CallsAreRecorded`: `Spec => [](NoFaults => EveryCallIsRecorded)`; no fault has happened so far, while crashes and overlaps may have.
* `GradesAreOfTheTextOnRecord` and `TracesBelongToTexts`: `GradedTextIsOnRecord` and `TraceDescribesText`, where
  besides no submission has two jobs (`OneJobEach`): two jobs of one image transcribe it independently.

The argument for the calls: what a delivery asked and stored has a row in its transaction, or in the database once it is
over (`Called`); without faults nothing but a crash takes a transaction away. For the others: `Exclusive`: at most one delivery holds the message of a job (its process works, or died and its
receipt has not expired), and a held message is not visible. `Unsent`: what a request has yet to send
nobody has, so that a dispatch never adds a second holder; here it matters that no job is in a batch twice. `Handover` says that a step
gains, loses, keeps or acknowledges a message. The holder is then the only one to change the status, which
makes `Stage` inductive: what a delivery read of the status before an await is what the status still is. Every change of
status, result or attempts is one of four moves (`StageStep`), three of which are the actions of the contract and
the fourth a stutter. `Stored` and `Reads` say the same of the exchanges and the text: what the holder wrote or read is still there.

`AuthRequestsProofs` proves, for any users, addresses, sessions and limits, any finite number of threads and any number
of logins and failures, every property of the runs `auth_logins` and `auth_expiry`:

* `RequestsAreTyped`: `Spec => []TypeOK`.
* `KeysOutliveUse`: `KeyOutlivesUse`.
* `TokensHaveSessions`: `TokenHasSession`.
* `OnlyOverlaps`: `Spec => OnlyOverlapRevives`.
* `Guesses`: `GuessesAreBounded`.
* `OverrunsAreBounded`: `OverrunIsBounded`.
* `LoginsRestoreTheCap`: `LoginRestoresTheCap`.

The assumptions: the timeout, the limit of sessions and the limit of attempts are positive, the interval of the sweep and the bounds are
natural numbers, `None` is no session, record or key, the threads are finitely many, and the counters are those of
all names and addresses or, without a limiter, none.

The argument. `Shape` says what a request has at each step: only an update has a record in hand, only a login a loop over the
sessions of its user. `Onward` sums up what any step makes of any request, through `Hand`: the
session it takes is one that is stored, its copy is the one it had or a new one that ends the session or
marks the use of one that is not ended, and the time it read was the present. `StorageSteps`
names the three actions that write to the storage. `Stored` then follows without a look at the other actions: a key ends `Timeout` or more after the
use that is recorded, no request holds a time or a record of the future, and a session once stored is never unknown again.
It also has every stored session in some index, which is why a login cannot create over a session that was ended.
`OnlyOverlaps` is read off `Hand`, `Stored` and the two writers of records. For the
guesses, `Guessed` counts with the passwords looked at the attempts that were let through and are still to look at
one: a count below the limit pays for one of them, a failure for one, and when a counter is cleared they are
at most the threads. `Attempts` (in `Hand`) is why nobody else joins them.

The limit of sessions needs an invariant of its own, `Limits`. It rests on `Owned` (a session is in the list of its user,
and keeps its user when it is written back) and on `Counted`, what the loop of a login has found and how many it has
still to evict. A login *looks* from the moment it lists the sessions until it stores its own, and what it knows of is what it
has found or has still to read (`SeenBy`). `Room` is the idea: the logins of one user that look can be ranked by the
order in which they listed, with a cut somewhere in the ranking, such that the sessions of the user
together with the logins before the cut are at most `MaxSessions + Slack`, and each login from the cut on misses at most `Slack`
sessions, less the logins before it. `Slack` is one per other thread and one per failed command. A login that lists
comes last and misses nothing (`RoomLists`); one whose list could not be read comes first, at the cost of the failure (`RoomBlind`); a
session that could not be read or ended costs one (`RoomMisses`); sessions that end, and logins that give up, only make room
(`RoomLess`). The one hard case is a login that stores its session (`RoomAdds`): before the cut it was already counted; from the
cut on it knew of fewer than `MaxSessions` sessions and missed few, which bounds all of them, and the cut moves to its
place. `StepKinds` sorts all actions into the five kinds these lemmas are about. A simpler invariant, without ranks, is not
inductive: the logins that listed before a session was stored miss it, each of them, and only their order keeps these
debts from adding up. For `LoginRestoresTheCap`, `Undisturbed` says that a login that is alone knows of every active session while
it looks.

`ApiRequestsProofs` proves, for any users, names, keys, rubrics, tenants and
connections, and any number of requests and failures at once, every invariant
of the run `access`:

* `RequestsAreTyped`: `Spec => []TypeOK`.
* `AdmissionIsSound`: `AdmittedKeysWereUsable`.
* `ContextIsOwn`: `StatementsRunUnderOwnContext`.
* `TenantsAreIsolated`: `AnswersStayWithTheTenant`.
* `RowsAreTheirOwners`: `OrdinaryUsersChangeTheirOwnRow`.

The assumptions: the tables at the start are consistent (`StartAssumption`),
`None` and `Nobody` are no values, `TenantOf` gives tenants, and the name that
anonymisation gives (`del_...`) is no name a user can choose
(`NamesAssumption`, from the pattern of the schemas).

The argument. `Ready` says what a request has in its variables at each step, so
that no statement meets an empty one; `OwnersExist` and `UsersExist` that the rows it relies on
are in the tables. With them types are inductive. `Grow` is what no step takes
back: a key keeps its owner and its permissions, a deleted user stays deleted.
Hence `KeysAreRead`: a request whose key has never been usable either lacks a
permission, which it cannot get any more, or has a deleted owner, who does not
come back; both are read after the key. (If routes could change permissions or
restore owners, as the finding on the permissions of keys in section 3 suggests, this
argument and the property would have to be looked at again.) `Contexts` adds to
the property that an idle connection has no settings, on which
`set_tenant_context` relies for principals without a tenant, and that no two
requests share a connection. `Isolated` follows a readable row from the policy
through the cache to the answer, with `RowsStay`: a row keeps its tenant.
`OwnRows` needs that chosen names are unique among all rows, the deleted ones
included. `StepShape`, `StepConnection`, `StepAnswer` and `StepTarget` say what
one step does to a request in these respects, so that each invariant is shown
from them and not action by action again.

`RateLimitsProofs` proves, for any clients, tiers, paths and rows, both backends and any number of requests,
windows, changes and failures, both invariants of the run `limits`:

* `LimitsAreTyped`: `Spec => []TypeOK`.
* `RefusalsAreDue`: `RefusedOnlyOverLimit`.
* `AdmissionsAreWithinLimit`: `AdmittedWithinLimit`.

The assumptions (`RateConstants`): limits and periods are positive, `KeyOf` gives keys, the backends are the two.

The argument. `Typed` adds to the types that a request about to write has read on memcached, in a window that had
begun. `Backed`: the count of a key, and the number a pending write holds less one, are at most the requests
that counted themselves and the failures; a refusal therefore stands for that many before it, and lost increments only
lower the numbers. `Accounted` is about the counters in which at most one period was applied: the key lives
at least as long as its window (`Covered`), and where nobody ever counted at the same time, its count covers the
requests it admitted, failures aside, as long as the window is open; so does the number of a pending write
(`PendingCovered`). The key of a window that is still open cannot expire, which is where a second period would break the
argument; a second pending write is seen by the first (`Overtaking`), which is where memcached does. `Steps` sorts all
actions into five kinds, and each invariant is shown for each kind.

`SessionBackendsProofs` proves, for any users, sessions and callers, each backend, timeouts
up to `Month` and any number of calls, failures and dropped keys, both properties of the run `sessions`:

* `SessionsAreTyped`: `Spec => []TypeOK`.
* `BackendsKeepContract`: `Spec => KeepsContract`, the refinement of `SessionContract`.
* `SessionsAreListed`: `ListedUnlessRaced`.

The assumptions (`BackendConstants`, `BackendNone`): lives are positive, a day is no longer than 30 days, no timeout is longer than
that, and `None` is no session, record or list.

The argument. `Ready` says what a call has at each step: what `extend` writes back on memcached is data that its `look` saw.
A session that is set can be read at once (`SetIsRead`; a timeout above `Month` would break it), and every command is one of three
things to the contract: it acts on its session with an allowed outcome (`ActStep`), it changes no answer (`ReturnStep`), or keys
disappear (`VanishStep`), which is what both a restart of the server and the passing of time are.
For the lists, `Kept` is about every session that can be read or that a call under way is about to write again. It says that the
list and the lists about to be written have it (`Listing`), and that the list expires at least `Grace` after the session and after
the time that those calls may take (`Outlasted`); so a list that is needed has never expired when it is read back (`ListIsRead`). On memcached
there is a moment at which a session has its new life and its list does not: the call that will renew it
has then begun early enough (`Ahead`). `Orderly` adds that a session being created is nobody else's, and that a second list about to be
written is noticed. An earlier form of the property excused deletes only when the session timeout alone exceeded a day; the proof failed
at the write of the list, and four calls show why: after a delete gave the list a day, an update that begins just before the
session ends finds the list gone.

`OAuthAccountsProofs` proves, for any accounts, identities, emails, names and states, and any number of requests and
failures, every safety property of the run `oauth`:

* `RequestsAreTyped`: `Spec => []TypeOK`.
* `IdentitiesKeepAccounts`: `Spec => AnIdentityKeepsItsAccount`.
* `StatesSignInOnce`: `AStateSignsInOnce`.

The assumptions (`OAuthConstants`, `NoRow`): the profiles that Google gives and the bodies of registrations and updates are made of the identities, emails and names there are,
`None` is none of these and no row, and no account is a name (the name that anonymisation gives is made of the account).

The argument. `Has` says what a request has in its variables at each step: the row it is about to update is one that was found, and stays, as deletion only marks a row and
anonymisation keeps it. `Homed` adds that `google_id`
is unique among the rows and that the account an identity was given last is still a row: a callback that finds its identity is
then at home, whoever wrote it there. `Writes` sums up all the writers of a row (link, insert of a callback or a registration, update,
deletion, anonymisation): each gives it an identity it had, one that the index finds in no other row, or none. For the states, `Once`: unless two callbacks have
read a state, or its deletion failed, at most one callback has it in hand; it has signed in exactly when it is about to delete the
state, and the state is gone after that.

`TokenBudgetProofs` proves, for any finite sets of requests, jobs and runs, any budgets, limits of attempts and of retries and any
number of rare events, the types and both properties of the run `budget`:

* `SpendingIsTyped`: `Spec => []TypeOK`.
* `TokensAreAccounted`: `EveryTokenIsAccounted`.
* `OverrunsAreWithinReach`: `OverrunIsWithinReach`.

The assumptions (`BudgetAssumption`): the numbers are natural, each job has at least one attempt and at most `MaxAttempts`, the sets are finite, a delivery is of a job, and no job is of two
requests.

The argument. `Sound` says what a request and a run have at each step: flushed rows are those of their run, one per number, and
numbered below the attempt under way (`RunFits`), so that a commit adds rows that are not there yet. A sum of tokens is the number
of elements of a set of numbered tokens, as a sum by recursion is beyond the prover: what a step does to a sum is what it does to the cardinality of a union
of disjoint sets. `Books` sorts what a run does into five kinds: it asks and flushes, commits, wastes, reads an image, or costs nothing; each keeps the
accounts. For the overrun, `Reached`: when a request was checked, every run that may still record anything for it or for those before it is in `open`, which
the check could see, and what the others recorded is below the budget. A run that is not `Live` never is again (`DeadForever`). This is not because a settled
job stays settled, which the code does not provide, but because of `Reopening`: only a run that read the job before can set it back, and
it could read it unsettled only while it was; as long as there is such a run, the deliveries still to come count as live. What one run records is at most
`Chances`, one for each of its attempts, times the answers of each, and it commits once: from a commit a run goes to the steps `Past`, and does not come back.

`WebProcessProofs` proves, for any processes, settings, resources and endpoints, and any number of requests, failures, stops and
crashes, every safety property of the run `web`:

* `ProcessesAreTyped`: `Spec => []TypeOK`.
* `ProcessesClose`: `EndedMeansClosed`.
* `StaleEntriesAreExplained`: `StaleEntriesExplained`.
* `SharingIsAlwaysReported`: `SharingIsReported`.
* `RefusedSettingsStayOut`: `Spec => RefusedSettingsTouchNothing`.

The assumptions (`WebConstants`, `CacheConstants`, `SecurityConstants`): settings are settings, a writer names every key it affects, `None` is no
resource and no backend.

The argument. `Sound` joins what `Ready` says of a process at each step (which clients it has opened or closed, in the order of
the lifespan, and that its settings were not refused) with three facts that tie the modules together: a request is served by a process in service (`InService`), the cache stays
cold when nothing uses it or when the settings are refused (`Unused`), and `Explained`, which strengthens
`StaleEntriesExplained`: an entry is stale for a reason that is on record, or because a request under way is yet to delete it,
by its own key, an extra key, or a pattern whose page it has already read. `Explains` says how a step of a request
passes this duty on. `SharingIsReported` follows from the settings, which never change, and from `Ready`: a process that serves was validated. The run's settings share a database between
cache and sessions and between cache and limiter; the third pair, sessions and limiter, is covered by the theorem.

Only model-checked: liveness (`SentJobsSettle`, `AllServeInTheEnd`, `EveryRequestIsAnswered`), which is out of the prover's
reach. `SentJobsSettle` and the others also carry the fairness that section 3 explains.

## 5. Plan

Done, in this order: the correction pipeline with its contract and first proofs; sessions and the login
throttle on Redis, with proofs of every safety property; keys, users, the context of a request and the cached reads, with the proofs of every invariant of
their run; the request limiter on both backends, with its proofs; configuration, lifespan and response cache together, with their proofs;
sign-in with Google, with its proofs; the three session storages against one contract, with its proofs; the budget with the
guardrails of a grade, with its proofs.

Left, in order of importance:

1. The worker's side of tenancy: it sets the context again after each commit, on tables whose rows always have a
   tenant.
2. `AuthRequests` on the memcached storage, whose lists can be incomplete: what then becomes of the session limit.
3. The cache of the catalog, in which an older fetch may overwrite a newer one, and the choice of prompt and rubric versions.

## 6. Not modelled

The content of texts, prompts, grades and metrics; HTTP, serialisation and validation of bodies;
the language models and the OCR beyond the outcome of a call; taskiq, Redis, memcached, PostgreSQL and S3 beyond
the promises the code relies on; the admin views (except that one deletes a tier), the command line and deployment
files; metrics and logs, which nothing reads back; the comparison of a CSRF token with its session, a pure read;
sign-in with GitHub, which has no route; creation and renaming of tiers, which nothing else reads; the cache of the
catalog. Reads of the API that return rows without changing them
enter the model only where a later step uses what was read.
