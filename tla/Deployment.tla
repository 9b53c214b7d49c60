---------------------------- MODULE Deployment -----------------------------
(***************************************************************************)
(* The API process around its requests: configuration, the start-up checks,*)
(* readiness, shutdown and kills, and the administrator's migrate and      *)
(* bootstrap commands on the same database.                                *)
(*                                                                         *)
(*   crates/otdel-core/src/config.rs      Config::load                     *)
(*   crates/otdel-core/src/secret.rs      looks_like_placeholder           *)
(*   crates/otdel-db/src/lib.rs           connect, verify_runtime_role,    *)
(*                                        run_migrations, bootstrap_bureau *)
(*   crates/otdel-api/src/lib.rs          build_state, serve               *)
(*   crates/otdel-api/src/routes/health.rs   ready                         *)
(*   apps/api/src/main.rs                 serve, migrate, bootstrap        *)
(*                                                                         *)
(* An environment is a record with one field per variable.  The value of a *)
(* field is Unset, Blank, Junk (it does not parse) or what it says; a      *)
(* database URL is the name of the role it connects as.                    *)
(***************************************************************************)
EXTENDS Tenancy, FiniteSets, FiniteSetsExt

CONSTANTS Environments,    \* the environments the commands are started with
          Attributes,      \* attributes of every database role
          Unset, Blank, Junk,
          U32Max,          \* the largest u32; TLC's own integers end before it
          Operators,       \* shells an administrator has open
          MaxCommands, MaxStarts   \* bounds on commands and server starts

\* A number in an environment is a decimal of an unsigned type, or it does not
\* parse (parse_u64_or and its kin).
ASSUME EnvironmentAssumption ==
    /\ U32Max \in Nat
    /\ \A e \in Environments :
          {e.ttl, e.idle, e.upload, e.failures, e.window, e.lockout, e.connections}
              \subseteq Nat \cup {Unset, Blank, Junk}

VARIABLES
    server,     \* down, serving or stopping
    settings,   \* the configuration the server runs with
    readiness,  \* its last answer to GET /ready
    schema,     \* migrations whose objects exist
    history,    \* versions in public._sqlx_migrations
    stray,      \* otdel._sqlx_migrations: absent, or present and empty
    bureaus,    \* slugs in otdel.bureaus
    command,    \* what an administrator's shell is running
    outcome,    \* how the last migrate of a shell ended
    commands, starts         \* counters for the bounds

database == <<schema, history, stray, bureaus>>
admin    == <<command, outcome, commands>>
process  == <<server, settings, readiness, starts>>
dvars    == <<tenancy, database, admin, process>>

Migrations == 1 .. 2      \* 0001_schema, 0002_bootstrap_local_bureau
NoSettings == [slug |-> Unset]

DeploymentInit ==
    /\ TenancyInit
    /\ server = "down" /\ settings = NoSettings /\ readiness = "unasked"
    /\ schema = {} /\ history = {} /\ stray = FALSE /\ bureaus = {}
    /\ command = [o \in Operators |-> "none"]
    /\ outcome = [o \in Operators |-> "none"]
    /\ commands = 0 /\ starts = 0

-----------------------------------------------------------------------------
(* Config::load.                                                           *)

\* string_or, parse_u64_or: a blank value is as good as none.
ValueOr(v, default) == IF v \in {Unset, Blank} THEN default ELSE v

\* required_secret: set, and no placeholder; blank counts as one.
RequiredSecret(v) == v \notin {Unset, Blank, "placeholder"}

\* RuntimeEnv::parse and its default.
RuntimeEnv(e) == IF e.env = Unset THEN "local" ELSE e.env

CookieSecure(e) ==
    IF e.secure = Unset THEN RuntimeEnv(e) = "production" ELSE e.secure = "on"

SecondsMin == 60
TtlMax     == 604800
UploadMax  == 536870912

\* What the configuration of an accepted environment says.
Settings(e) ==
    [slug        |-> ValueOr(e.slug, "local"),
     ttl         |-> ValueOr(e.ttl, 43200),
     idle        |-> ValueOr(e.idle, 7200),
     upload      |-> ValueOr(e.upload, 26214400),
     failures    |-> Max({ValueOr(e.failures, 10), 1}),
     window      |-> ValueOr(e.window, 900),
     lockout     |-> ValueOr(e.lockout, 900),
     connections |-> Max({1, Min({ValueOr(e.connections, 8), 64})})]

\* Every number parses.
NumbersParse(e) ==
    Junk \notin {e.ttl, e.idle, e.upload, e.failures, e.window, e.lockout, e.connections}

\* The limits that are kept as u32 fit (u32::try_from).
LimitsFit(e) == ValueOr(e.failures, 10) <= U32Max /\ ValueOr(e.connections, 8) <= U32Max

\* Mutant: the floor of the idle timeout is missing.
SessionTimesTtlOnly(s) ==
    /\ s.ttl >= SecondsMin /\ s.ttl <= TtlMax
    /\ s.idle <= s.ttl

SessionTimes(s) ==
    /\ s.ttl >= SecondsMin /\ s.ttl <= TtlMax
    /\ s.idle >= SecondsMin /\ s.idle <= s.ttl

Loads(e) ==
    /\ RuntimeEnv(e) \in {"local", "production"}
    /\ e.bind # Junk
    /\ RequiredSecret(e.url) /\ e.admin # "placeholder"
    /\ RequiredSecret(e.hash) /\ e.hash = "argon2"
    /\ e.slug # Junk
    /\ e.origins \notin {"star", Junk}
    /\ e.cookie # Junk
    /\ e.secure \in {Unset, "on", "off"}
    /\ RuntimeEnv(e) = "production" => CookieSecure(e)
    /\ NumbersParse(e) /\ LimitsFit(e)
    /\ LET s == Settings(e) IN
       SessionTimes(s) /\ s.upload \in 1 .. UploadMax

-----------------------------------------------------------------------------
(* otdel-api serve.                                                        *)

\* Mutant: only the owner of the tables is refused.
VerifyNotOwner(attributes) == 1 \in schema /\ "owns_tables" \notin attributes

\* verify_runtime_role; the query itself fails while the tables are missing.
VerifyRuntimeRole(attributes) ==
    /\ 1 \in schema
    /\ attributes \cap {"superuser", "bypassrls", "createrole", "createdb",
                        "owns_tables", "reads_sessions"} = {}
    /\ PolicyApplies(attributes)

\* build_state: connect, verify_runtime_role, open_at.
BuildState(e) ==
    /\ e.url \in DOMAIN Attributes
    /\ VerifyRuntimeRole(Attributes[e.url])
    /\ e.storage = "usable"

\* load_config, build_state, bind.  Anything else refuses to start and
\* changes nothing.
Serve(e) ==
    /\ server = "down" /\ starts < MaxStarts
    /\ Loads(e) /\ BuildState(e)
    /\ server' = "serving" /\ settings' = Settings(e) /\ readiness' = "unasked"
    /\ starts' = starts + 1
    /\ role' = Attributes[e.url]
    /\ \E pool \in SUBSET Connections :
          /\ Cardinality(pool) = Min({settings'.connections, Cardinality(Connections)})
          /\ conn' = [c \in Connections |-> IF c \in pool THEN "idle" ELSE "closed"]
    /\ UNCHANGED <<pc, bureau, target, on, pending, context, owner, row, database, admin>>

\* ready: the database answers, the store is healthy, the bureau exists.
Ready ==
    /\ server = "serving"
    /\ readiness' \in (IF settings.slug \in bureaus THEN {"ready", "unavailable"}
                                                    ELSE {"unavailable"})
    /\ readiness' # readiness
    /\ UNCHANGED <<tenancy, database, admin, server, settings, starts>>

\* with_graceful_shutdown: no new requests, the running ones are finished.
Stop ==
    /\ server = "serving"
    /\ server' = "stopping" /\ readiness' = "unasked"
    /\ UNCHANGED <<tenancy, database, admin, settings, starts>>

\* The process is gone and PostgreSQL ends its sessions.
Gone ==
    /\ server' = "down" /\ settings' = NoSettings /\ readiness' = "unasked"
    /\ conn' = [c \in Connections |-> "closed"]
    /\ context' = [c \in Connections |-> NoBureau]
    /\ on' = [q \in Requests |-> NoConnection]
    /\ bureau' = [q \in Requests |-> NoBureau]
    /\ target' = [q \in Requests |-> NoTarget]
    /\ pending' = [q \in Requests |-> NoWrite]
    /\ pc' = [q \in Requests |->
                 IF pc[q] \in {"idle", "done", "failed"} THEN pc[q] ELSE "failed"]
    /\ role' = {}
    /\ UNCHANGED <<owner, row, database, admin, starts>>

Exit ==
    /\ server = "stopping"
    /\ \A q \in Requests : pc[q] \in {"idle", "done", "failed"}
    /\ Gone

Kill == server # "down" /\ Gone

\* Requests arrive while the server serves.
Request(q) ==
    /\ server = "serving" /\ Arrive(q)
    /\ UNCHANGED <<database, admin, process>>

RequestStep(q) == Proceed(q) /\ UNCHANGED <<database, admin, process>>

Dropped(q) == Abandon(q) /\ UNCHANGED <<database, admin, process>>

PoolStep(c) == Rollback(c) /\ UNCHANGED <<database, admin, process>>

-----------------------------------------------------------------------------
(* otdel-api migrate and bootstrap, with OTDEL_DATABASE_ADMIN_URL.         *)

AdminUrl(e) == Loads(e) /\ ValueOr(e.admin, Unset) = "set"

MigrateStart(o, e) ==
    /\ command[o] = "none" /\ commands < MaxCommands
    /\ AdminUrl(e)
    /\ command' = [command EXCEPT ![o] = "strays"]
    /\ commands' = commands + 1
    /\ UNCHANGED <<tenancy, database, outcome, process>>

\* Mutant: the leftover table stays.
KeepStray(o) ==
    /\ command[o] = "strays"
    /\ command' = [command EXCEPT ![o] = "locking"]
    /\ UNCHANGED <<tenancy, database, outcome, commands, process>>

\* remove_stray_migration_table: only the empty one is dropped.
RemoveStray(o) ==
    /\ command[o] = "strays"
    /\ stray' = FALSE
    /\ command' = [command EXCEPT ![o] = "locking"]
    /\ UNCHANGED <<tenancy, schema, history, bureaus, outcome, commands, process>>

\* Mutant: the history is looked for where the role's default path leads.
HistoryByDefaultPath == IF 1 \in schema THEN {} ELSE history

\* The pinned search_path: public._sqlx_migrations.
RecordedVersions == history

\* MIGRATOR.run: the advisory lock, then one transaction per version that is
\* not recorded.
LockMigrations(o) ==
    /\ command[o] = "locking"
    /\ \A p \in Operators : command[p] # "applying"
    /\ command' = [command EXCEPT ![o] = "applying"]
    /\ UNCHANGED <<tenancy, database, outcome, commands, process>>

MigrateEnds(o, how) ==
    /\ command' = [command EXCEPT ![o] = "none"]
    /\ outcome' = [outcome EXCEPT ![o] = how]
    /\ UNCHANGED <<tenancy, database, commands, process>>

\* The script and its row in the history, in one transaction.
ApplyMigration(o) ==
    LET missing == Migrations \ RecordedVersions
        v       == Min(missing) IN
    /\ command[o] = "applying" /\ missing # {}
    /\ IF v \in schema
         THEN MigrateEnds(o, "already exists")
         ELSE /\ schema' = schema \cup {v}
              /\ history' = history \cup {v}
              /\ bureaus' = IF v = 2 THEN bureaus \cup {"local"} ELSE bureaus
              /\ UNCHANGED <<tenancy, stray, admin, process>>

MigrateEnd(o) ==
    /\ command[o] = "applying" /\ Migrations \subseteq RecordedVersions
    /\ MigrateEnds(o, "applied")

\* The shell is closed or the database goes away; the open transaction is lost.
CommandKilled(o) ==
    /\ command[o] # "none"
    /\ command' = [command EXCEPT ![o] = "none"]
    /\ UNCHANGED <<tenancy, database, outcome, commands, process>>

\* An earlier release without the pinned path, while no other migration runs:
\* on an empty database it leaves its history in public; once the otdel schema
\* exists it creates an empty history there, replays 0001 and fails.
EarlierRelease ==
    /\ commands < MaxCommands /\ commands' = commands + 1
    /\ \A o \in Operators : command[o] = "none"
    /\ IF schema = {}
         THEN /\ schema' = Migrations /\ history' = Migrations
              /\ bureaus' = bureaus \cup {"local"} /\ UNCHANGED stray
         ELSE stray' = TRUE /\ UNCHANGED <<schema, history, bureaus>>
    /\ UNCHANGED <<tenancy, command, outcome, process>>

\* bootstrap_bureau: INSERT ... ON CONFLICT DO NOTHING; the slug's CHECK allows
\* 64 characters.
Bootstrap(e) ==
    /\ commands < MaxCommands /\ commands' = commands + 1
    /\ AdminUrl(e) /\ 1 \in schema
    /\ Settings(e).slug # "overlong"
    /\ bureaus' = bureaus \cup {Settings(e).slug}
    /\ UNCHANGED <<tenancy, schema, history, stray, command, outcome, process>>

-----------------------------------------------------------------------------

Migrate(o) == \/ RemoveStray(o) \/ LockMigrations(o)
              \/ ApplyMigration(o) \/ MigrateEnd(o)

DeploymentNext ==
    \/ \E e \in Environments : Serve(e) \/ Bootstrap(e)
    \/ Ready \/ Stop \/ Exit \/ Kill
    \/ \E q \in Requests : Request(q) \/ RequestStep(q) \/ Dropped(q)
    \/ \E c \in Connections : PoolStep(c)
    \/ \E o \in Operators :
          (\E e \in Environments : MigrateStart(o, e)) \/ Migrate(o) \/ CommandKilled(o)
    \/ EarlierRelease

\* The runtime polls its tasks and PostgreSQL answers: handlers and the pool's
\* rollbacks go on, a running command goes on.  Nobody has to stop or kill.
DeploymentSpec ==
    /\ DeploymentInit /\ [][DeploymentNext]_dvars
    /\ \A q \in Requests : WF_dvars(RequestStep(q))
    /\ \A c \in Connections : WF_dvars(PoolStep(c))

-----------------------------------------------------------------------------

\* What the session functions of the schema raise on, and a throttle that
\* admits a first attempt.
LoginWorks ==
    /\ settings.slug \in bureaus
    /\ settings.ttl >= 60 /\ settings.ttl <= 604800 /\ settings.idle >= 60
    /\ settings.failures >= 1

\* A server that answers ready can open and touch sessions with the settings
\* it was started with: what Config::load accepts and ready checks is enough
\* for session_open, session_touch and the throttle (config.rs: "Without this
\* check the server would start happily and then fail on every single
\* request").
ReadyMeansLoginWorks == readiness = "ready" => LoginWorks

\* However runs, kills and an earlier release interleave, a migrate never
\* replays a migration that is there, and one that ends well leaves all of
\* them (db/src/lib.rs: "Re-running this must be a no-op").
MigrateIsIdempotent ==
    \A o \in Operators :
        /\ outcome[o] # "already exists"
        /\ outcome[o] = "applied" => schema = Migrations
=============================================================================
