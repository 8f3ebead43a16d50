---------------------------- MODULE Application ----------------------------
(***************************************************************************)
(* The life of the process: the validation of production settings          *)
(* (core/security/production_validator.py, main.py), the lifespan that     *)
(* opens and closes the backends (core/app_factory.py,                     *)
(* cache/initialize.py, rate_limit/initialize.py), and the session manager *)
(* the first request builds (auth/session/dependencies.py).                *)
(***************************************************************************)
EXTENDS Naturals, FiniteSets

CONSTANTS
    Settings,   \* the configurations a process may be started with
    Instance    \* Redis databases

Environment == {"local", "development", "staging", "production"}
Backend     == {"redis", "memcached", "memory"}
Service     == {"cache", "limiter", "sessions"}
\* Settings the validator looks at one by one; a member of "weak" is badly set.
Weakness    == {"secret", "redis password", "remote redis", "cors", "debug", "docs", "cookies",
                "timeout", "csrf", "admin name", "admin password"}
\* A database password is empty, the well-known default, or one of the deployment's own.
Password    == {"empty", "default", "own"}

\* password: POSTGRES_PASSWORD; url: the password in DATABASE_URL, when there is one;
\* admin: the admin interface is enabled and its user name and password are given;
\* cacheDb, limiterDb: the Redis database each would use; sessions use the cache's.
Configuration == [environment : Environment, validation : BOOLEAN, admin : BOOLEAN,
                  password : Password, url : Password \cup {"absent"},
                  cache : BOOLEAN, limiter : BOOLEAN,
                  cacheBackend : Backend, limiterBackend : Backend, sessionBackend : Backend,
                  cacheDb : Instance, limiterDb : Instance, weak : SUBSET Weakness]

VARIABLES
    settings,    \* the configuration; read once
    phase,       \* how far the lifespan is
    registered,  \* backends known to the two providers
    open,        \* services that hold a connection
    ready,       \* app.state.initialization_complete
    manager,     \* the session manager: not built yet, or with or without a login throttle
    warned,      \* warnings the validator logged
    leaked       \* whether closing a backend failed

vars == <<settings, phase, registered, open, ready, manager, warned, leaked>>

-----------------------------------------------------------------------------
(* The validator.                                                          *)

InsecureSecretKey  == "secret" \in settings.weak
DefaultCredentials == settings.password = "default"
EmptyPassword      == settings.password = "empty"

Critical == InsecureSecretKey \/ DefaultCredentials \/ EmptyPassword

\* Mutant: sessions are thought to have a database of their own.
RedisConfigurationsApart ==
    [x \in {y \in {"cache", "limiter"} : (IF y = "cache" THEN settings.cacheBackend
                                          ELSE settings.limiterBackend) = "redis"} |->
        IF x = "cache" THEN settings.cacheDb ELSE settings.limiterDb]

\* The Redis database of each service that is set to use Redis, enabled or not.
RedisConfigurations ==
    LET backend == [cache |-> settings.cacheBackend, limiter |-> settings.limiterBackend,
                    sessions |-> settings.sessionBackend]
        db      == [cache |-> settings.cacheDb, limiter |-> settings.limiterDb,
                    sessions |-> settings.cacheDb]
    IN  [x \in {y \in Service : backend[y] = "redis"} |-> db[x]]

InstanceShared == \E x, y \in DOMAIN RedisConfigurations :
    x # y /\ RedisConfigurations[x] = RedisConfigurations[y]

RedisWarnings ==
    (IF DOMAIN RedisConfigurations = {} THEN {} ELSE settings.weak \cap {"redis password", "remote redis"})
        \cup (IF InstanceShared THEN {"shared"} ELSE {})

CorsTooPermissive == settings.weak \cap {"cors"}
DebugEnabled      == settings.weak \cap {"debug"}
DocsWarnings      == settings.weak \cap {"docs"}
SessionWarnings   == settings.weak \cap {"cookies", "timeout", "csrf"}
AdminWarnings     == IF settings.admin THEN settings.weak \cap {"admin name", "admin password"} ELSE {}

Warnings == RedisWarnings \cup CorsTooPermissive \cup DebugEnabled \cup DocsWarnings
                \cup SessionWarnings \cup AdminWarnings

-----------------------------------------------------------------------------
(* Start-up and shut-down.                                                 *)

Init ==
    /\ settings \in Settings
    /\ phase = "validate"
    /\ registered = {} /\ open = {}
    /\ ready = FALSE
    /\ manager = "none"
    /\ warned = {}
    /\ leaked = FALSE

\* lifespan_with_security: a refusal comes before the lifespan proper, so nothing is closed.
Validate ==
    /\ phase = "validate"
    /\ LET checked == settings.validation /\ settings.environment = "production"
       IN  /\ phase' = IF checked /\ Critical THEN "stopped" ELSE "tables"
           /\ warned' = IF checked /\ ~Critical THEN Warnings ELSE {}
    /\ UNCHANGED <<settings, registered, open, ready, manager, leaked>>

\* Any failure while the lifespan starts goes on with its finally clause.
Fails == phase' = "close cache" /\ UNCHANGED <<settings, registered, open, ready, manager, warned, leaked>>

\* main.py does not pass CREATE_TABLES_ON_STARTUP on: the tables are created whatever it says.
CreateTables ==
    /\ phase = "tables"
    /\ \/ Fails
       \/ phase' = "cache" /\ UNCHANGED <<settings, registered, open, ready, manager, warned, leaked>>

\* initialize_cache and initialize_rate_limiter know two backends; any other name
\* registers nothing.
Register(x, on, backend, next) ==
    /\ LET new == IF on /\ backend \in {"redis", "memcached"} THEN {x} ELSE {}
       IN  /\ registered' = registered \cup new
           /\ open' = open \cup new
    /\ phase' = next
    /\ UNCHANGED <<settings, ready, manager, warned, leaked>>

InitializeCache ==
    /\ phase = "cache"
    /\ \/ Register("cache", settings.cache, settings.cacheBackend, "limiter")
       \/ settings.cache /\ Fails

InitializeRateLimiter ==
    /\ phase = "limiter"
    /\ \/ Register("limiter", settings.limiter, settings.limiterBackend, "ready")
       \/ settings.limiter /\ Fails

\* Mutant: requests are let in while the rate limiter is still to be initialised.
ServeEarly ==
    /\ phase \in {"limiter", "ready"}
    /\ ready' = TRUE
    /\ phase' = "serving"
    /\ UNCHANGED <<settings, registered, open, manager, warned, leaked>>

\* Mutant: a limiter that is not there is initialised once more.
ServeRetrying ==
    /\ phase = "ready"
    /\ ready' = ("limiter" \in registered)
    /\ phase' = IF "limiter" \in registered THEN "serving" ELSE "limiter"
    /\ UNCHANGED <<settings, registered, open, manager, warned, leaked>>

\* The event is set, and the server lets requests in.
Serve ==
    /\ phase = "ready"
    /\ ready' = TRUE
    /\ phase' = "serving"
    /\ UNCHANGED <<settings, registered, open, manager, warned, leaked>>

\* get_session_manager, at the first request that needs one.  Storages other than Redis
\* do not take the arguments the dependency passes: the request fails and nothing is built.
BuildManager ==
    /\ phase = "serving" /\ manager = "none"
    /\ settings.sessionBackend = "redis"
    /\ manager' = IF settings.limiter /\ "limiter" \in registered THEN "throttled" ELSE "unthrottled"
    /\ open' = open \cup {"sessions"}
    /\ UNCHANGED <<settings, phase, registered, ready, warned, leaked>>

\* The server stops: the lifespan goes on with its finally clause.
Stop ==
    /\ phase = "serving"
    /\ phase' = "close cache"
    /\ UNCHANGED <<settings, registered, open, ready, manager, warned, leaked>>

\* Mutant: only a backend of a start-up that completed is closed.
CloseCacheWhenReady ==
    /\ phase = "close cache"
    /\ open' = IF ready /\ "cache" \in registered THEN open \ {"cache"} ELSE open
    /\ phase' = "close limiter"
    /\ UNCHANGED <<settings, registered, ready, manager, warned, leaked>>

\* close_cache closes a registered backend; an error there ends the finally clause.
CloseCache ==
    /\ phase = "close cache"
    /\ \/ /\ open' = IF settings.cache THEN open \ {"cache"} ELSE open
          /\ phase' = "close limiter"
          /\ UNCHANGED leaked
       \/ /\ settings.cache /\ "cache" \in registered
          /\ leaked' = TRUE
          /\ phase' = "stopped"
          /\ UNCHANGED open
    /\ UNCHANGED <<settings, registered, ready, manager, warned>>

CloseRateLimiter ==
    /\ phase = "close limiter"
    /\ \/ /\ open' = IF settings.limiter THEN open \ {"limiter"} ELSE open
          /\ UNCHANGED leaked
       \/ /\ settings.limiter /\ "limiter" \in registered
          /\ leaked' = TRUE
          /\ UNCHANGED open
    /\ phase' = "stopped"
    /\ UNCHANGED <<settings, registered, ready, manager, warned>>

StartOrClose == \/ Validate \/ CreateTables \/ InitializeCache \/ InitializeRateLimiter \/ Serve
                \/ CloseCache \/ CloseRateLimiter

Next == StartOrClose \/ BuildManager \/ Stop

-----------------------------------------------------------------------------
(* Properties.                                                             *)

TypeOK ==
    /\ settings \in Settings
    /\ phase \in {"validate", "tables", "cache", "limiter", "ready", "serving",
                  "close cache", "close limiter", "stopped"}
    /\ registered \subseteq {"cache", "limiter"} /\ open \subseteq Service
    /\ ready \in BOOLEAN /\ leaked \in BOOLEAN
    /\ manager \in {"none", "throttled", "unthrottled"}
    /\ warned \subseteq Weakness \cup {"shared"}

\* The password the process connects to its database with.
DatabasePassword == IF settings.url = "absent" THEN settings.password ELSE settings.url

\* A production process that was started with validation on and serves has a strong
\* secret key; without a DATABASE_URL, whose password nobody looks at, it connects to
\* its database with a password that is neither empty nor the default one; and where
\* two of its services keep their keys in one Redis database, by what initialize.py
\* and the session dependency connect to, the validator has said so.
ProductionIsChecked ==
    (phase = "serving" /\ settings.environment = "production" /\ settings.validation) =>
        LET database == [cache |-> settings.cacheDb, limiter |-> settings.limiterDb,
                         sessions |-> settings.cacheDb]
            onRedis(x) == CASE x = "cache"   -> settings.cacheBackend = "redis"
                            [] x = "limiter" -> settings.limiterBackend = "redis"
                            [] OTHER         -> manager # "none"
        IN  /\ "secret" \notin settings.weak
            /\ settings.url = "absent" => DatabasePassword = "own"
            /\ (\E x, y \in open : x # y /\ onRedis(x) /\ onRedis(y) /\ database[x] = database[y])
                   => "shared" \in warned

\* However far start-up came before it failed, or the server before it stopped, the
\* cache and the rate limiter are closed in the end, unless closing one failed.
ClosesWhatItOpened == phase = "stopped" /\ ~leaked => open \cap {"cache", "limiter"} = {}

\* The session manager is built once and kept: built by a process with a rate limiter
\* backend that initialize.py knows, it always has its login throttle.
LoginsThrottled ==
    (manager # "none" /\ settings.limiter /\ settings.limiterBackend # "memory")
        => manager = "throttled"

\* A process that was started serves or stops, and one that is shutting down stops.
StartsOrStops == (phase # "serving") ~> (phase \in {"serving", "stopped"})
=============================================================================
