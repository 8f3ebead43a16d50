# TLA+ models of fastapi-hyperf

This directory verifies the FastAPI boilerplate in `src/`: its session
subsystem, the browser-facing sign-in routes, the login throttle, the rate
limiter with its rules and start-up, user accounts, API keys and the response
cache. It holds TLA+ modules, the TLC configurations that check them on small
instances, and proofs checked by TLAPS for every value of the constants.
`PROJECT.json` ties each definition to the source lines it models, and lists the
runs, mutants, hazards, findings and theorems.

    tlc -workers 2 -config SessionsConcurrent.cfg MCSessions.tla    # a run
    tlapm SessionsProofs.tla                                        # a proof

Contents: 1 the system, 2 how the models are built, 3 sessions, 4 sign-in routes
and CSRF tokens, 5 login throttle, 6 rate limiter, 7 start-up, rules and the rate
check, 8 accounts, 9 API keys, 10 response cache, 11 runs, 12 proofs, 13 where code
and documentation disagree, 14 what is not modelled, 15 what could come next.

## 1. The system

The application is one asyncio process per worker. Every request is a coroutine
that runs without interruption up to an `await`; each storage command and each
SQL statement is such an `await`. Redis or Memcached, and the SQL database, are
shared by the workers. All the hard behaviour comes from this: state read before
an `await` and written after it, commands that fail or whose reply is lost, keys
that expire in between.

| Component (`src/app/...`) | State | Operations | What is hard | What makes it correct | Modules |
|---|---|---|---|---|---|
| Session manager and Redis storage (`core/auth/session/manager.py`, `backends/redis.py`) | a record with TTL per session, an index set with TTL per user, `last_cleanup` | create, validate, terminate, clean up, enforce the session limit | read, wait, write back; eviction and cleanup loops; expiry; swallowed errors | the index names every live session, idle sessions end, ended ones stay ended, the limit is restored | `Sessions`, `SessionContract` |
| CSRF tokens, cookies, dependencies, sign-in routes (`manager.py`, `dependencies.py`, `api/v1/auth.py`) | a token with TTL bound to a session; the browser's cookies | login, refresh, logout, pages, changes | tokens outlive sessions, cookies are set together, records created one after the other | the browser holds the token of the session it holds | `AuthRoutes` |
| OAuth login (`core/auth/oauth`, `api/v1/auth.py`) | state records with TTL, users | redirect, callback, get_or_create_user | the state is deleted last; two callbacks at once | one use per answered sign-in, one account per identity | `AuthRoutes`, `Accounts` |
| Login throttle (`manager.py` track_login_attempt, `api/v1/auth.py` login) | two counters per attempt, by address and by user name | count, check, clear on success | two counters in separate awaits, errors, renewed TTLs | a bounded number of attempts reaches the password check; blocks end | `LoginThrottle` |
| Rate limiter (`core/rate_limit`) | a counter with TTL per key and window; the backend's `fail_open` | increment_and_check, increment, get_count, reset, delete | Memcached's read and write, a shared override across an `await`, window boundaries | no more than `limit` requests a window, nobody refused early | `RateLimiter` |
| Rate limit rules and the check (`middleware/rate_limit.py`, `services/rate_limit.py`, `dependencies`) | rows with a tier, a path, a limit and a name | check; create, update, delete by name | lookups in separate awaits while rules change | the limit charged was in force | `RateRules`, `Serving` |
| Users (`services/user.py`, `api/v1/users.py`, `models/user.py`) | SQL rows | register, update, deactivate, anonymise, change tier, view | check before insert, load before write | unique names, own account only, an anonymised account is not written to | `Accounts` |
| API keys (`services/api_key.py`, `api/v1/api_keys.py`, `models/api_key.py`) | keys, permission rows, usage records | create, update, delete, validate, record and report use | five awaits in a validation, expiry at a boundary, three definitions of success | a revoked key is refused, the most specific row decides, reports agree | `ApiKeys`, `KeyUsage` |
| Response cache (`core/cache`) | a value with TTL per key | the `cache` decorator: look up, compute, store; delete keys and patterns on writes | a slow GET stores an old answer after the invalidation; one SCAN page only; keys made of one argument | an acknowledged write is seen | `CacheAside` |
| Application factory and lifespan (`core/app_factory.py`, `initialize.py`) | `initialization_complete`, registered and open clients | start up, shut down | any step may fail; requests wait for start-up | every started service is stopped, requests meet a ready limiter | `Application`, `Serving` |
| Settings and production checks (`core/conf`, `core/security`) | constants | validate, warn | which Redis databases are shared is worked out apart from the code that connects | production serves only what was checked | `Application` |
| Response envelope (`utils/response.py`) | none | wrap an answer or an error | headers copied by assignment | cookies survive | `AuthRoutes` |
| Tiers, Memcached and in-memory session storage, database session, task workers, logging, migrations, scripts | rows, files, registries | | | | not modelled (section 14) |

The components depend on each other in one direction: routes use the session
dependencies, they use the session manager, which uses session storage and, for
logins, the backend of the rate limiter; the rate check uses the same rate
limiter and the tables of tiers and rules; the lifespan opens and registers the
backends all of them use.

    AuthRoutes ── its sessions, in detail ──> Sessions ── implements, sequentially ──> SessionContract
    LoginThrottle ── right password ──> Login of Sessions, create of AuthRoutes
    Serving = Application + RateRules (INSTANCE) ── Charge ──> Check of RateLimiter
    ApiKeys EXTENDS KeyUsage; Accounts stands alone, CacheAside too

`PROJECT.json` lists 40 hazards, each at its line, with the properties that
cover it or the reason none does.

## 2. How the models are built

* **One action is one round trip.** Redis executes a command, or one MULTI,
  atomically, the database executes a statement with its constraints, and a
  coroutine runs without interruption to its next `await`. An action is therefore the
  effect of one command together with the local code that follows its reply. A
  request is a record `req[p]`: a program counter and the locals that survive the
  `await`. `Proc` (or `Request`) is the number of requests in flight.
* **Merging the reply.** The effect in the store and the resumption of the
  coroutine are one step. A lost reply is a separate step (`Fault`, `Fail`,
  `FailCount`, `FailClear`, `Raises`, `BackendRaises`), in which the command may
  have taken effect or not.
* **Time** is an integer clock (`now`), in the login throttle a countdown per
  counter, and in the cache a step `Expire` that may come at any time.
* **Latency.** In `Sessions` and `RateLimiter`, `MaxLatency` bounds the ticks that
  pass while a request runs. In the sessions module `MaxLatency <= Grace` is an
  assumption, because `Grace` is the hour by which an index outlives its sessions and
  a request is kept far shorter by server and client timeouts. The other modules
  assume nothing of the kind.
* **History variables** (`granted`, `loggedOut`, `solo`, `served`, `admitted`,
  `passed`, `since`, `reply`, `spent`, `calm`, `excused`, `seen`, and the
  fields `floor`, `late`, `owed`, `dead`, `replay`, `moved`, `seen` of requests) record
  what clients have seen or are owed. No action reads them to decide what the program
  does, but a client can only present a cookie in `granted`, and counters of
  requests (`started`, `served`) bound what TLC explores.
* **Mutants** stand beside the definition they would replace, marked `mutant`.
  Each is a plausible bug, and each property has one that breaks it.

## 3. Sessions: `Sessions`, `SessionContract`, `MCSessions`, `SessionsProofs`

`store[s]` is the record under `session:<s>` (is_active, last_activity, expiry),
`index[u]` the set under `session:user:<u>`, `lastCleanup` the attribute of the
manager. The other fields of a session never change and decide nothing here.

| Action | Code |
|---|---|
| `Login`, `Page`, `Logout` | a request arrives: `create_session`, `get_session_from_cookie` (which may first clean up), `get_current_session_data` followed by the logout route |
| `Validate` | the `get` of `validate_session` with its three outcomes: refuse, time out, go on to write back |
| `Exists`, `Write` | the two round trips of the Redis `update`; `Write` stores the whole copy read before |
| `Terminate` | the `get` of `terminate_session` |
| `Scan`, `Sweep`, `SweepDone` | `cleanup_expired_sessions` |
| `UserSessions`, `ScanAll`, `Collect`, `Decide`, `Evict` | `_enforce_session_limit`: read the index (or scan, if that failed), get each session, sort, terminate the oldest |
| `Create` | `RedisSessionStorage.create` and the answer with the cookie |
| `Fault` | any storage call raises, before or after it took effect; `Raised` says who catches it |

Choices a reader should know:

* The clock a request reads just before or after a `get` is read in the step of
  that `get`. The times that live across further awaits (`current_time` of
  `create_session` and of the cleanup) are kept in `began`.
* `SCAN` is a snapshot of the live keys. The index keys match its pattern too;
  the code's `get` of one fails and is skipped, so they are left out.
* `lastCleanup` is per process; the model is one worker. Further workers would
  only clean up more often.
* Identifiers are drawn at login from `Sid` and never reused (`uuid4`).
  `Owner` fixes whose login draws which.
* A session dropped by Redis keeps its record in `store` with a past expiry:
  the expiry is what `Live` looks at.
* The CSRF token a login creates last, and the cookies of the browser, are in
  `AuthRoutes` (section 4). The storage's `delete` and `extend`, which nothing calls on
  a session, are left out, hence "partly" in `PROJECT.json`.

**The contract.** `SessionContract` is what the subsystem promises when nothing
interferes: a session starts once, only while its user has room, and ends once.
`Sessions` maps its state to it (`Status`: never stored is `new`, usable
is `active`, else `ended`) and states `KeepsContract`. Concurrent requests break
it in two ways (section 13), which is why the claim is checked with one request
slot and no latency, by TLC only: its value is that eviction, cleanup and termination, loops of
awaits each, come to what they promise when left alone (a wrong number of evictions breaks it), not that
requests do not interfere. Even alone, a request slower than a session's remaining
life would pass EXISTS and store an expired session again (`redis.py:170`).

**Properties.** `IndexCoversLive`: the index lives longer than every session it names, under all
interleavings. If it failed, the limit would silently miss sessions. `TtlTracksActivity`: although
cleanup, eviction and logout renew the TTL, a usable session never outlives its idle timeout by
more than the latency of one request. `EndedStaysEnded`: whatever interleaves and fails, a session
that was ended or has expired (`Over`) is revived by nothing but a validation that had accepted it
before and has yet to write its copy back: terminations write whole records over newer ones,
sweeps and evictions overlap, a login stores a record of its own. What `Over` leaves out are the
two races of section 13: a validation that writes back over a logout, and EXISTS then SET over an
expiry. `SoloLoginRestoresLimit`: concurrent logins may exceed the limit, and an error may skip
its enforcement, but the next undisturbed login repairs both. `EvictsOldestFirst`: relates the
terminating write to every other session of the user. `LogoutIsFinal`, without that exception, is
what the route promises and the code does not keep. `RequestAnswered`: every request ends, through
all loops.

## 4. Sign-in routes and CSRF tokens: `AuthRoutes`, `AuthRoutesProofs`

One browser and the routes of `api/v1/auth.py`. `session[s]` is a session with the
time it ends, `token[t]` a CSRF record (its session, the `expiry` in the record, the
TTL of the key), `state[x]` an OAuth state, `jar` the browser's two cookies with their
ages, `known` the tokens the page's script has been given in bodies or cookies.

| Action | Code |
|---|---|
| `Login`, `GoogleLogin`, `Callback`, `Page`, `Change`, `Refresh`, `Logout` | the browser sends the request with the cookies it holds |
| `Validate` | `validate_session`, and who goes on to what: token check, user, a new token, termination |
| `CheckToken` | `validate_csrf_token` of a changing request: header, record, session, expiry |
| `LoadUser` | `get_current_user` |
| `CreateSession`, `IssueToken` | the two records of `create_session`, stored one after the other; `IssueToken` is also the refresh |
| `EndSession` | `terminate_session` of the logout |
| `RememberState`, `ReadState`, `Exchange`, `ForgetState` | the OAuth state: stored by the redirect, read by the callback, deleted after the session was created |
| `Raises` | a storage call raises: the logout swallows it, every other request is answered with an error, and what was stored before stays |
| `Deliver` | the answer reaches the browser, through `_copy_headers` if `Enveloped` |
| `EndElsewhere`, `Tick` | eviction, another device, a timeout; time |

A session here is a session of `SessionContract` with a deadline: eviction and
cleanup, which `Sessions` models await by await, appear as `EndElsewhere`. A login
whose password is wrong is left out (it sets no cookie), the throttle is
`LoginThrottle`. Google's answer is any account. When a callback redirects, FastAPI
drops the cookies set on the injected `response`; that is external, and `ForgetState`
models it. A call that raises is taken not to have taken effect here: a lost reply would
leave an orphaned record like the one that an error of the next call leaves.

**Properties.** `CookiesBelongTogether`: as long as the browser waits for each answer
(`calm`), the CSRF cookie it holds is a token of the session it holds, through sign-ins
on top of each other, refreshes, logouts, failures and cookies that expire: otherwise
every changing request would be refused. It is claimed of calm browsers only since
a refresh overtaken by a new login leaves a mismatched pair. The run has
`Enveloped = FALSE`: every route of `src/` passes the envelope, behind which a browser never gets
the session cookie and the claim says little; the theorem covers both. `StateIsSpent`: the state is
deleted last, after session and token were stored, and a callback that was answered
with success must leave nothing for a later one with the same state. `replay` marks the
callbacks sent after that; one that is in flight meanwhile may have read the state and
signs in too. `SignInGivesSession` is violated with the envelope (section 13).

## 5. Login throttle: `LoginThrottle`, `MCLoginThrottle`, `LoginThrottleProofs`

The login route calls `track_login_attempt`, which increments the counter of the
address, then that of the user name, and refuses when the larger one exceeds
`login_max_attempts`. When the password was right, both are deleted, again one
after the other.

| Action | Code |
|---|---|
| `Attempt` | the route is called |
| `Count` (Redis), `Read`, `Store` (Memcached) | `increment` of the backend, and after the second counter the decision |
| `Verify` | `authenticate_user`: right or wrong |
| `Clear` | one `delete`, then the other, then `create_session` (the `Login` of `Sessions`) |
| `FailCount`, `FailClear` | a failing command: `increment` returns 0 or raises, a `delete` returns False |
| `Tick` | time passes and counters expire |

`backend` is chosen once, so that one run covers both. Counters stop at `Cap`, above the limit, so
that every count past it looks alike; TTLs count down, so time needs no bound. Errors of the
database inside `authenticate_user` are left out. `cleanup_rate_limits` changes nothing: the
backends of the application do not offer what it looks for.

**Properties.** `AttemptsBounded`: for each counter, from its first attempt to its
end (by expiry or clearing), at most `login_max_attempts` of the attempts it
counted reach the password check; attempts whose counting failed are exempt. It
is claimed of Redis: on Memcached concurrent increments are lost and it does not
hold (section 13). `SuccessClears`: when a success is answered on Redis
and nothing failed, neither counter
holds an attempt counted before the password was found right, whatever other
attempts did between the two deletes; it would break if one were left out.
`LockoutEnds`: refused attempts
renew the TTL too, so a block lasts as long as somebody keeps trying; the property
is that it ends once they stop, also when a slow Memcached write has brought a
cleared counter back.

## 6. Rate limiter: `RateLimiter`, `MCRateLimiter`, `RateLimiterProofs`

`store[k][w]` is the counter under `<key>:<window start>`, or under the bare key
for `Bare`. `failOpen` is the attribute of the one backend object, `backend` which of the two
it is, chosen once out of `Backends`.

| Action | Code |
|---|---|
| `Check` | `increment_and_check` up to its first `await`: apply the override, read the clock, build the key |
| `Call` | `increment`, `get_count`, `reset`, `delete` begin; they use the key as given |
| `Bump` | the Redis MULTI of INCR and EXPIRE, then compare and restore |
| `Get`, `Set` | the two awaits of the Memcached increment |
| `GetCount`, `Reset` | the other commands |
| `Fail` | a command raises, before or after it took effect |

Choices: `increment` is called with an amount of one and the period as expiry. The
boolean `delete` returns is not modelled. A Memcached `exptime` above thirty days
is read by the server as a date; `LongestTtl` is that limit, and the runs stay
below it. Requests a failing backend lets through by policy are not counted in
`admitted`: a backend that fails open promises no limit.

**Properties.** `WindowLimit` counts what was let through while the window
lasted, `LateLimit` what was let through by calls that read the clock in the
window and reached the backend after it: the TTL runs from the last increment, so
a counter can expire under them once, and not twice. `LimitedOnlyAfterLimit`
is the other direction, on both backends: increments that Memcached loses must not
make anybody be refused early. `OverridesAreTemporary` is
about the override of the policy kept in the shared object across an `await`, where
overlapping calls find and save each other's: once no call is in flight the configured policy is
back. It is checked with calls in flight at once that ask for the one policy that is not the
configured one, and proved when all who override ask for the same (`OneOverride`), as the
one caller in `src/` does: the check always passes `RATE_LIMITER_FAIL_OPEN`
(`middleware/rate_limit.py:92`). Of calls that ask for two different policies, which the
provider's interface admits (`provider.py:299-303`), it does not hold (section 13).

## 7. Start-up, rules and the rate check: `Application`, `RateRules`, `Serving`, `ServingProofs`

`Application` is one process: `settings` (one configuration, chosen in `Init`), the
`phase` of the lifespan, the backends `registered` with the providers, the clients
`open`, the event `ready`, the singleton session `manager`. `RateRules` is the table
`rules` and the requests that check or administer it. `Serving` composes them by
INSTANCE over the same variables: requests arrive while the process serves, and the
process stops when they are answered.

| Action | Code |
|---|---|
| `Validate` | `validate_production_security`: critical findings stop the process, others are warnings |
| `CreateTables`, `InitializeCache`, `InitializeRateLimiter`, `Serve` | the steps of the lifespan, each of which may fail; `Serve` sets `initialization_complete` |
| `BuildManager` | the first use of the session dependency, with or without a rate limiter backend |
| `Stop`, `CloseCache`, `CloseRateLimiter` | the `finally` clause, in its order; an error in the first skips the second |
| `AskCheck`, `Wait`, `Resolve`, `Charge` | `_check_rate_limit`: the wait, the tier, the rule or the default, `increment_and_check` |
| `AskCreate`, `AskUpdate`, `AskDelete`, `Find`, `Unique`, `Insert`, `Update`, `Delete` | `RateLimitService` and its routes: look up by name, test the new name, write by name |

The dependency `check_rate_limit` and `RateLimitService.create` are offered to applications
built on this code; no route of `src/` uses them. `request.state.user` is read, and set by
nobody in `src/`: the model lets a request have any tier or none. Redis database numbers
are model values and every weakness a flag, since the tests a single setting is put to have
unit tests; which combination is critical, a warning or nothing is what the code decides. The
database password appears twice, as it does in the code: `password` is `POSTGRES_PASSWORD`, which the
validator looks at, `url` the password in `DATABASE_URL`, which replaces it when the process
connects (`DatabasePassword`). Warnings about the admin's credentials need the interface
enabled and both given (`admin`). `CREATE_TABLES_ON_STARTUP` is not in the model:
`main.py` does not pass it on and the tables are created in any case.

**Properties.** `ProductionIsChecked` relates the validator, which works out from the settings
what is shared, to what the code that connects then opens, and what it finds critical to what the
process connects to its database with: a password of its own, claimed only without a
`DATABASE_URL` (section 13). `ClosesWhatItOpened`: wherever start-up failed. `LimiterReady`:
nothing is charged to, and no manager built without, a limiter that is not registered yet;
requests arrive once the lifespan has yielded, as ASGI servers have it, so what it would catch is
a lifespan that yields too early. `LimitInForce`: a check reads tier, rule and default in separate
awaits while rules are renamed, moved and deleted; the limit it charges was in force for its tier
and path at some time of its life. `StartsOrStops`: liveness of the lifespan.

## 8. Accounts: `Accounts`, `MCAccounts`, `AccountsProofs`

`users[u]` is a row of the user table: user name, e-mail, Google identity, tier, superuser,
deleted, whether there is a password. `session` holds the accounts with a live session.

| Action | Code |
|---|---|
| `AskCreate`, `CheckEmail`, `CheckName`, `InsertUser` | sign-up: two queries, then the insert, which the unique indexes may refuse |
| `AskUpdate`, `LoadUpdate`, `CheckEmail`, `CheckName`, `WriteUpdate` | the profile update: permission by name, load, check what changes, write by id |
| `AskDeactivate`, `LookupDeactivate`, `Deactivate` | `DELETE /{username}` |
| `AskErase`, `LookupErase`, `Erase` | the anonymisation, for superusers |
| `AskTier`, `LoadTier`, `CheckTier`, `WriteTier` | the change of tier |
| `AskView`, `LoadView`, `Show` | the routes that show an account's tier or rate limits |
| `AskLogin`, `Lookup`, `OpenSession` | sign-in by name or address and password |
| `AskGoogle`, `FindAddress`, `LinkGoogle`, `PickName`, `InsertGoogle` | `get_or_create_user`: by identity, by address, else a numbered name and an insert |
| `EndSession` | a session ends (module `Sessions`) |

The pseudonym an anonymised account is given (`None`) is a name no request may carry. An update
may set the Google identity to null (`unlink`); an explicit null name or address is refused by the
NOT NULL columns and left out, as are free-text fields and lists of users.

`get_or_create_user` gives FastCRUD the row it wants as `filter_by=` and `object_id=`
(`services.py:44`, `services.py:51`, `services.py:58`, `services.py:97`), which name no column of
the table. What the library makes of them is external, so the model leaves it open: each such
query refuses, finds nothing, or finds any row, the one that was meant or not; the update of the
link refuses or writes any row. It returns no row, which the code then uses as the user, so a
sign-in that links an account always fails after the write (section 13). What holds with these
queries holds with any that the library may make of them.

**Properties.** `NamesUnique`: names, addresses and identities stay unique however
check and insert interleave and whatever the Google queries find; the last word is the unique indexes'.
`OwnProfileOnly`: permission is given for the name in the path, the
work is done on the row a later query finds under it; they agree unless the name was given
up in between (`moved`; section 13). `NoUpdateAfterErasure`: an update writes to no anonymised account;
violated, since an update loads its row in one await and writes it, by id alone, in another.

## 9. API keys: `ApiKeys`, `KeyUsage`, `MCApiKeys`, `ApiKeysProofs`

`keys[k]` is a row of `api_keys` (owner, prefix, active, expiry, last use), `perms` the rows of
`key_permissions`, `usage` those of `key_usage` in order. `KeyUsage` holds the functions of
`models/api_key.py` that report usage, on the records read as a function from their places
in the table. The loops that count are cardinalities, and the sum of naturals is the number
of pairs `<<x, n>>` with `n` up to the value at `x` (`Added`), a form without recursion that
proofs can use; `MCApiKeys` has TLC compare it with a fold. The end points listed are those
with fewer than `limit` ahead of them; their order in the list is left out, and so is the
average response time.

| Action | Code |
|---|---|
| `Create` | `create_api_key`: one transaction |
| `AskManage`, `Load`, `Write` | update and delete: load, compare the owner, write by id |
| `AskValidate`, `Identify`, `Probe`, `Touch` | `validate_api_key`: find by prefix and hash, test active and expiry, up to four lookups from the specific row to the wildcard, the time of use |
| `RecordUsage`, `Forget` | `record_usage` after a validation, or none |
| `Grant` | the operator rewrites permission rows: nothing in `src/` does |
| `Tick` | time |

`record_usage` writes the ids its caller passes: a record may name any key there is.
The secret half of key `k` is `k`; two keys may share a prefix. Words of a request that are not
in the enumerations are `Unknown`. `validate_api_key` and `record_usage` have no caller in `src/`;
they are what an application calls.

**Properties.** `RevokedKeyIsRefused`: a validation that began when the key was inactive or
expired and that no update revived meanwhile is refused, whatever else happens between its awaits.
`MostSpecificRowDecides`: the loop over four lookups answers what the most specific permission row
says (`Allowed`, defined without the loop), if nothing changed under it. `AnalyticsAgree`: totals,
days, errors and end points of one report, computed by functions with ranges of their own, agree
over every page of records it may read.

## 10. Response cache: `CacheAside`, `MCCacheAside`, `CacheAsideProofs`

`row[x]` is the version of a row of the database, `cache[k]` the entry under a key: whose
answer, of which version. Routes are described by constants the way the decorator is used:
argument names, the braces of `key_prefix`, the named resource id, extra keys, patterns.
`KeyOf` is the key the decorator builds.

| Action | Code |
|---|---|
| `Begin`, `Lookup`, `Compute`, `Store` | a GET: get, the route itself, set |
| `Change`, `DeleteKey`, `Sweep` | a write: the route, then its key, the extra keys, and the patterns |
| `ScanPage`, `PatternNotSupported` | `delete_pattern`: one SCAN page on Redis, nothing on Memcached |
| `BackendRaises` | an await on the backend raises and the request fails |
| `Leave`, `Expire` | the client has its answer; a key expires |

No route of `src/` is decorated: the assumptions `KeyAssumption` and `WritesAssumption` say how
routes must be for the cache to be right (a key shows one row; a write names every key its
row is shown under), and the theorems hold for every set of routes that meets them.

**Properties.** `AnswersAreFresh`: an answer is at least as new as every change acknowledged
before it was asked for, except for entries that an invalidation could not reach: stored after it
though computed before, or missed by the single SCAN page. Those are marked `excused`, and the
property shows there is no other way to be served an old answer. It does not say whose answer is
served: calls that differ in an argument which is neither in the prefix nor the resource id share
a key and each other's answers (section 13). `KeyAssumption` only asks that such calls show the
same row.

## 11. Runs

| Run | Instance | Shows |
|---|---|---|
| `sessions_concurrent` | 2 requests, 3 sessions, limit 1, timeout 1, grace 1, clock to 2, latency 1, 1 error | `TypeOK`, `IndexCoversLive`, `TtlTracksActivity`, `SoloLoginRestoresLimit`, `EndedStaysEnded` under every interleaving of two requests with expiry, cleanup, eviction, errors and lost replies |
| `sessions_sequential` | 1 request, 3 sessions, limit 2, timeout 2, clock to 4, fair | `KeepsContract`, `EvictsOldestFirst`, `RequestAnswered` |
| `sessions_logout_race` | 2 requests, 1 session | `LogoutIsFinal` is violated: section 13 |
| `auth_routes` | 2 requests, 2 sessions, 2 tokens, 1 OAuth state, clock to 2, 1 error, without the envelope | `TypeOK`, `CookiesBelongTogether`, `StateIsSpent` |
| `auth_envelope` | 1 request, with the envelope | `SignInGivesSession` is violated: section 13 |
| `login` | 2 logins, 1 address, 1 name, limit 2, window 2, 1 error, Redis and Memcached, fair | `TypeOK`, `AttemptsBounded`, `SuccessClears`, `LockoutEnds` |
| `rate_limits` | Redis and Memcached, 2 calls of every operation, limit 1, period 2, clock to 3, latency 2, 2 checks a window, an override, 1 error | `TypeOK`, `WindowLimit`, `LateLimit`, `LimitedOnlyAfterLimit`, `OverridesAreTemporary` |
| `serving` | 22 configurations, 2 rules, names, tiers and paths, 3 requests, 2 at once, fair | `TypeOK`, `ProductionIsChecked`, `ClosesWhatItOpened`, `LimiterReady`, `LimitInForce`, `StartsOrStops` |
| `accounts` | 3 rows, 3 names, 3 addresses, 1 Google identity, 3 requests, 2 at once | `TypeOK`, `NamesUnique`, `OwnProfileOnly` |
| `accounts_erasure` | the same rows, 2 requests, no sign-up | `NoUpdateAfterErasure` is violated: section 13 |
| `api_keys` | 2 users, 2 keys, 1 resource and action with wildcards and an unknown word, 3 requests, 2 at once, 1 rewrite of permissions, 2 usage records, clock to 1 | `TypeOK`, `RevokedKeyIsRefused`, `MostSpecificRowDecides`, `AnalyticsAgree` |
| `cache` | 2 requests, 4 calls on 3 routes, an extra key and a pattern, a SCAN page of 1, 3 versions, Redis, Memcached or none | `TypeOK`, `AnswersAreFresh` |

**Why the bounds are enough.** Two requests are what it takes for one to write between another's
read and write, and for two late requests of one window to meet. Three sessions with a limit of
one let two concurrent logins overshoot and a third repair it; with a limit of two, eviction has
to choose. Three requests, two at once, let one request finish between two steps of another and a
third see the result: a name given up and taken again, a key revoked and revived, a rule renamed
while a check is between its lookups. Clocks run past every deadline that is in the model:
timeout, index grace, cleanup interval, and into a second window, when calls of the first are late
(`rate_limits`); with a timeout and ages of one (`auth_routes`) and an expiry of zero or one
(`api_keys`) the clock passes them too. One error is enough to lose a reply or skip an
enforcement. In `sessions_concurrent` the sweep meets no session that has timed out by its own
reading of the clock (a latency of one is too short for it); the theorems cover that branch.
Limits of one or two make every boundary (one below, at, one above) reachable. A SCAN page of one
with two keys under the pattern misses one. The configurations of `serving` are a safe production
one and the steps away from it that the validator or the start-up tells apart. What small
instances cannot show is what the proofs are for.

**Symmetry** is used over sets the modules treat alike (requests, sessions, keys, names)
in `Accounts`, `AccountsErasure`, `ApiKeys`, `AuthRoutes`, `CacheAside`, `RateLimits`,
`SessionsConcurrent` and `SessionsLogoutRace`; never in a run with a liveness property.
`SessionsConcurrent` has a VIEW that leaves out the history variable `loggedOut`, which
no action looks at and of its properties only `TypeOK`, proved in any case.
**Deadlock** is checked except in `RateLimits`, where the bounds on the
clock and on checks per window stop the model, not the program. The modules that
bound the number of requests have a step for the quiet end (`Quiet`, `Rest`, `Gone`), which
is enabled only when nothing is in flight, so a request that hangs is still reported.

**Fairness.** `WF_vars(Step(p))` for each request in `Sessions` and `LoginThrottle`, and
`WF_vars(Start)`, `WF_vars(Work)` in `Serving`: asyncio resumes a coroutine
whose reply has arrived, and every command is answered or fails. `WF_vars(Tick)` in the
login throttle: time passes. Nothing is assumed about arrivals or errors, and strong
fairness is nowhere needed.

## 12. Proofs

They hold for arbitrary sets of requests, sessions, users, keys, names, rules and so on,
and for arbitrary limits, timeouts and bounds that satisfy the named assumptions of the
modules; TLC evaluates those assumptions in each run. Every module but `SessionContract`
and `KeyUsage` has type correctness and at least one safety property proved.

**`SessionsProofs`.** `TypeCorrect`, `IndexCoverage` (`IndexCoversLive`),
`IdleTimeout` (`TtlTracksActivity`), under any interleaving and any errors.
None of these is inductive alone. The invariant is `IInv`, five parts:
`TypeOK`; `RequestsSound`, which says what a request's program counter implies
for its locals and how long it has been running; `ExpiriesBounded`, no expiry
is further away than a timeout from now; `Indexed`, which strengthens
`IndexCoversLive` to include sessions that a request is about to write, by using that the index
outlives a session by `Grace` and a request cannot last longer than that
(`LatencyAssumption`); and `TtlBounded`, `TtlTracksActivity` with the copies requests
are holding. There is a lemma for each effect on the store (`CreateEffect`,
`WriteEffect`) and one per action or group of actions.

On top of it come four more results, all without further assumptions: any number of requests,
errors and expiries.

* `LimitRestored` (`SoloLoginRestoresLimit`) and `OldestFirst` (`EvictsOldestFirst`). `SoloInv` says
  of a login in `solo` what its loops have established: every usable session of the user
  is one it has seen or will still get (`Collecting`; the index names them all, by
  `Indexed`), and those the eviction leaves (`Spared`) are few enough to make room for one
  more, none of them older than a victim (`Evicting`).
* `EndedStays` (`EndedStaysEnded`). The invariant it adds is `LoginsFresh`: the session a login is
  about to store has no record and no other login is about to store it, so `Create` cannot meet one
  that is over. `RecordChange` lists the ways a record changes in a step; of each,
  `OverNext` shows that it brings no usable copy to a session that is over.
* `StepsRunOut` and `FewSteps` are the safety half of `RequestAnswered`, for any finite set
  of sessions: `StepsLeft` is a natural number that each step of a request, and each
  error, lowers, that nobody else's step changes, and that is never above 5 |Sid| + 8.
  What TLC adds is that a request with steps left can take one, and does.

**`RateLimiterProofs`.** `TypeCorrect` and `NeverRefusedEarly` hold for both
backends; `WindowLimitHolds` and `LateLimitHolds` for Redis, the second when a
call takes no longer than a window (`MaxLatency <= Period`). `SInv` is `TypeOK` and
what the calls in flight satisfy (`CallsSound`). `CInv` adds that a stored counter, or one a
Memcached call is about to store, never exceeds the number of checks counted
(`StoredServed`, `PendingServed`). For the limits, `InsideCovered` says that while
a window lasts its counter is live and at least what was admitted, so an admission
finds the counter below the limit. `LateCovered` says the same for the time
after the window, with the case that no late request has been admitted yet.
`WindowStep` splits a step once for both: nothing happened to a window, or a
check was counted in it. `OverridesRestored` (`OverridesAreTemporary`) allows any
number of overlapping calls and failures, and assumes `OneOverride`: whoever overrides the
configured policy asks for the same one. Its invariant says that the configured policy is in force and
saved by nobody, or that exactly one call in flight has saved it and the one in
force is what every other call would ask for, so that none of them saves it.

**`LoginThrottleProofs`.** `TypeCorrect` for both backends; `Bounded`
(`AttemptsBounded`) and `Forgiven` (`SuccessClears`) of Redis. The invariant adds `OnRedis`:
for each counter (`Covered`), the attempts let through plus those that hold it in their
locals are no more than its count, a cardinality over the requests in flight; and what the
delete of the address has left behind for a request between its two deletes. `BlocksExpire`
and `BlocksRunDown` hold of both backends and are the safety half of `LockoutEnds`: a counter
that holds attempts has a time to live, which only the logins that use its address or
name prolong and which every tick lowers.

**`AuthRoutesProofs`.** `Together` (`CookiesBelongTogether`), with and without the envelope,
and `Spent` (`StateIsSpent`). `JarInv`: in a calm browser the request in flight is the only
one, a refresh is for the session in the jar, the jar's cookies are a pair whether they have
expired or not, and a session about to be stored has never been given out. `StateInv`: a
spent state is gone, nobody is about to store it again, and a callback that came back after
the success gets no further than the lookup.

**`AccountsProofs`.** `Uniqueness` (`NamesUnique`) and `OwnProfile` (`OwnProfileOnly`), whatever the
queries of the Google sign-in find. `RequestsGood` says what row a request has found and, of a
regular user's, that the row is the user's own or the name has moved.

**`ServingProofs`.** `ServesChecked`, `Closes`, `ReadyInTime`, `ChargedInForce`. `IInv` ties
each phase to what is registered and open, and each check to the limits it has seen, among
which is always the one in force now. `OnlyForward` is the safety half of `StartsOrStops`:
each step of the lifespan, failed or not, lowers `PhasesLeft`, which only the server's
stop lowers otherwise, so none is taken twice.

**`ApiKeysProofs`.** `Refused`, `MostSpecific`. `OnCourse` carries through a
validation that, while nothing changes, what is left of its lookups gives the answer owed
(`Verdict`); `ProbesDecide` shows that the verdict of all four lookups is the reference
`Allowed`, and `Stopped` that a validation begun with a dead key never passes identification.
`ReportsAgree` (`AnalyticsAgree`) holds of any number of records: `AddedParts`, by a bijection
between pairs and elements, says that the parts of a finite set add up to it, and the days,
the statuses and the end points are such parts of the records, the amounts of the days such
parts of the set of pairs counted by the total (`AmountsAdd`). `TopIsTop` compares who is
ahead of a listed and of an unlisted end point. It needs amounts to be natural numbers
(`AmountAssumption`, `ge=0` in `KeyUsageBase`).

**`CacheAsideProofs`.** `FreshAnswers` (`AnswersAreFresh`), from how routes are decorated
(`KeyAssumption`, `WritesAssumption`). `WritesHandled` is the heart: for each write that has
committed and is not answered, every entry under a key of its row that is older is on the write's
list still to be deleted, or excused; so when it is answered none is left.

**Only model-checked.** `KeepsContract`, which needs one request at a time, no errors and no latency: a
theorem under those assumptions would say little of the program. And the three liveness
properties, `RequestAnswered`, `LockoutEnds` and
`StartsOrStops`, since the prover does not deal with fairness and ENABLED; of each the safety
half is a theorem (`StepsRunOut` and `FewSteps`; `BlocksExpire` and `BlocksRunDown`;
`OnlyForward`). Every other property of a passing run is a theorem.

## 13. Where code and documentation disagree

Shown by a run:

1. **A logout can be undone** (`sessions_logout_race`). `validate_session` writes
   back the record it read before an `await` (`manager.py:181-200`). A request
   validated while its session is logged out stores `is_active=True` again. The
   route says that "Any existing session tokens will no longer be valid" (`auth.py:122`).
2. **A login through the envelope loses its session cookie** (`auth_envelope`).
   `_copy_headers` assigns each header by name (`response.py:88-90`), so of two
   `Set-Cookie` headers the last is left, the CSRF token; `response.py:87` says "(especially
   set-cookie)" and `auth.py:42` that the session id is set as a cookie. For the
   same reason a logout through the envelope deletes the CSRF cookie only.

3. **An anonymised account can be updated** (`accounts_erasure`). `UserService.update` loads the row
   with `is_deleted=False` (`user.py:249`), tests the changed fields in further awaits and writes by
   id alone (`user.py:257`): an account anonymised in between bears a name, an address or an
   identity again. "Only non-deleted users can be updated" (`user.py:236`).

Noticed while modelling, without a run of their own:

* Sessions: concurrent logins exceed `max_sessions` for a while (`manager.py:145`); a
  storage error during logout is swallowed and the client is told it is logged out
  (`manager.py:319`, `auth.py:134`); EXISTS and SET of `update` can bring an expired
  session back (`redis.py:170`).
* Sign-in: a redirecting callback sends no cookies (FastAPI drops those of the injected
  response); CSRF tokens survive logout and refresh until their TTL, worthless without their
  session; a session whose token could not be stored is left to nobody; a callback whose state
  could not be deleted is answered with an error though a session was made; a refresh
  overtaken by a login leaves mismatched cookies; `check_auth` does not look at `is_deleted`.
* Login throttle: `track_login_attempt` answers any exception with permission
  (`manager.py:558-560`), also when the backend fails closed, of which `base.py:45` says it
  "blocks requests when backend errors occur"; on Memcached, concurrent logins lose increments.
* Rate limiter: two Memcached checks may read the same counter (`memcached.py:83-87`);
  `base.py:63` promises "an atomic increment-and-check operation". Overlapping calls that ask for
  different policies restore each other's override (`provider.py:310-318`), so that one of them
  stays in force for good, which `provider.py:272` calls temporary and
  `test_fail_open_provider.py:107` tests one call at a time (with `Override = {"open", "closed"}`
  in `RateLimits.cfg`, TLC shows it); and one call's override can decide another's failed check.
  `reset` and `get_count` use the bare key and never touch a window's counter (`redis.py:116`,
  `redis.py:131`).
* Rules: a sanitized path never equals a stored one, so the first of the two lookups finds
  nothing; `/a/b` and `/a_b` share a counter; `rate_limits.py:167-170` promises a less specific
  rule after a deletion, but only the default follows; update and delete write where
  the name matches, after a lookup in another await.
* Settings: the validator looks at `POSTGRES_PASSWORD` (`production_validator.py:372`,
  `production_validator.py:384`) and the process connects with `DATABASE_URL`, if it is set
  (`settings.py:67-69`, `session.py:9`): a production process may serve on a default password
  given there, and is stopped for one it does not use. `CREATE_TABLES_ON_STARTUP` is ignored:
  `main.py:23` leaves `create_tables_on_startup` at True, and the value `create_application` works
  out of the setting (`app_factory.py:107-111`) goes only to the lifespan it builds when it is
  given none.
* Start-up: `CacheBackend.MEMORY` is documented (`enums.py:8-10`) and registers nothing; session
  backends other than Redis cannot be constructed; an error in `close_cache` skips
  `close_rate_limiter`; the storages of sessions and OAuth and the database engine are never
  closed; `clear()` of the cache would flush the sessions kept in its database;
  FastAPI's own `/docs` come before the guarded router; the check for an open admin
  interface is never called; `create_first_superuser` sets `is_superuser` on a dict of an
  existing user and never writes it.
* Accounts: the permission for the name in the path and the query for the row are separate
  (`users.py:220`): a name its owner gives up in between, and another account takes, is updated or
  deactivated on that account. The Google sign-in passes `filter_by=` and `object_id=`, which
  FastCRUD takes for columns (`services.py:44`, `services.py:58`), and uses the result of an
  update, None, as the user. Of two sign-ups with one name that pass the check, the second fails
  with 500, not 409; the documented default tier is not set; Google links an anonymised account by
  its retained address, and a deleted account can sign in through Google (`services.py:47`,
  `services.py:54`, against `user.py:339-340`); a Google name with a space, a dot or an upper-case
  letter fails the pattern for user names.
* API keys: validation ignores a deleted owner and never enforces `usage_limits`; an
  update may reactivate a deleted key; `is_active=null` fails with 500; analytics read at
  most 100 rows (`api_key.py:462`) and the summary at most 50 keys.
* Cache: calls that differ in an argument outside the prefix and the resource id share a key
  (`utils.py:23`) and are given each other's answers. `base.py:40-41` says `get` returns None on a
  connection error, `redis.py:69` raises; `delete_pattern` sees one SCAN page, `base.py:130` says
  all keys; strings and booleans come back as bytes or numbers; a falsy answer is computed again
  each time; `"id" in name` also matches `width`; a GET with arguments for invalidation always
  raises.

## 14. What is not modelled

* **Tiers.** A tier is an identifier in `Accounts` and `RateRules`; `TierService` writes rows by name
  as `RateLimitService` does, and no route calls what writes.
* **Session storage on Memcached and in memory.** No configuration reaches them:
  the dependency passes arguments their constructors refuse (`BuildManager`). Their
  index would lose updates, being read and written in two awaits.
* **Database session and models.** One SQLAlchemy session per request, external; the
  service modules take a statement for a step, with the unique indexes it meets.
* **Task workers.** Configuration of TaskIQ; delivery and retries are the library's.
* **Logging, migrations, scripts.** Output, or run by hand one at a time.
* **GitHub sign-in** has no route; the OAuth factory and requests to providers are external.

Within the modelled parts: user agent and address of a session, wording of errors,
lists and pages, free-text fields, the tests of single settings, and errors of the
database inside a request. Crashes of the process are not modelled apart from shut-down:
nothing but Redis, Memcached and the database survives it, and a coroutine that stops
between two awaits leaves what an error at that await leaves.

## 15. What could come next

The composition of `AuthRoutes` with `Sessions` by a refinement mapping, from the detailed
module's state to the session of the browser's cookie; step counts like `StepsLeft` for
the other modules' loops; then `Tiers` together with the routes that would administer them.
