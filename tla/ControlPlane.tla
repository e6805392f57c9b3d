---------------------------- MODULE ControlPlane ----------------------------
(***************************************************************************)
(* The schema control plane of the pods: the boot sequence, the advisory   *)
(* locks taken on pooled database sessions, schema convergence, the drift  *)
(* analysis with its cache, and the schema status the health checks read.  *)
(*                                                                         *)
(* An advisory lock belongs to the database session that took it and is    *)
(* re-entrant there.  The code takes and gives back a lock with queries on *)
(* whichever pooled session is free, so an unlock may reach a session that *)
(* does not hold it and then does nothing.                                 *)
(***************************************************************************)
EXTENDS Naturals, FiniteSets, Sequences, TLC

CONSTANTS
    Pods,          \* the application processes
    SessionsOf,    \* [Pods -> sets of sessions], the connection pools
    Strict,        \* the pods deployed with STRICT_SCHEMA = "true"
    Entities,      \* the schema the entities declare, see below
    Databases,     \* the schemas an operator or a migration may leave
    Conforming,    \* those of them the entities can work with
    Critical,      \* the tables validateCriticalSchema asks for
    Watched,       \* bound: the pods whose drift analysis is followed
    MaxFaults,     \* bound: sessions closed while idle, and pods killed
    MaxHolds,      \* bound: how often a session takes one lock over
    MaxAnalyses,   \* bound: drift analyses started
    MaxMigrations  \* bound: runs of the migration CLI

ASSUME WatchedAssumption == Watched \subseteq Pods

(* A schema maps table names to tables, and a table maps column names to   *)
(* [type, nullable, default, pk].                                          *)

Sessions == UNION {SessionsOf[p] : p \in Pods}
CliSession == "cli"
Locks == {"schema", "worker"}
ASSUME SessionsAssumption ==
    /\ CliSession \notin Sessions
    /\ \A p, q \in Pods : SessionsOf[p] \cap SessionsOf[q] # {} => p = q

PodOf(s) == CHOOSE p \in Pods : s \in SessionsOf[p]

VARIABLES
    focus,       \* which part of the runtime the behaviour exercises
    database,    \* the schema in the database
    pending,     \* showMigrations(): a migration is not recorded
    held,        \* [Locks -> [Sessions and the CLI's -> Nat]]
    reaped,      \* the locks whose session was closed under a user of the lock
    boot,        \* [Pods -> step of the boot sequence]
    failed,      \* [Pods -> BOOLEAN], the boot sequence threw
    readiness,   \* [Pods -> SystemReadinessService]
    cli,         \* the migration CLI: idle, waiting or migrating
    analyses,    \* [Pods -> set of drift analyses under way]
    cache,       \* [Pods -> DriftCacheService]
    newest,      \* history: the last started of the analyses that ended
    spent        \* [faults, operations, analyses, migrations], the bounds used

planeVars == <<focus, database, pending, held, reaped, boot, failed, readiness,
               cli, analyses, cache, newest, spent>>

-----------------------------------------------------------------------------
(* Advisory locks.                                                          *)

Holders(l) == {s \in DOMAIN held[l] : held[l][s] > 0}

(* pg_try_advisory_lock on session s; seeded fault: the row of the answer  *)
(* is taken for the answer                                                 *)
CanLock_AnyAnswer(l, s) == TRUE
CanLock(l, s) == Holders(l) \subseteq {s}

Acquired(l, s) == [held EXCEPT ![l][s] = @ + 1]

(* pg_advisory_unlock on session s: nothing happens if it is not held there *)
Released(l, s) == [held EXCEPT ![l][s] = IF @ = 0 THEN 0 ELSE @ - 1]

Dropped(closed) ==
    [l \in Locks |-> [s \in DOMAIN held[l] |-> IF s \in closed THEN 0 ELSE held[l][s]]]

-----------------------------------------------------------------------------
(* The difference between entities and database.                            *)

(* normalizeEntityType and normalizeDbType: the names one type goes by      *)
TypeMap ==
    [t \in {"character varying", "varchar", "String"} |-> "varchar"] @@
    [t \in {"timestamp without time zone", "timestamp", "Date"} |-> "timestamp"] @@
    [t \in {"integer", "int4", "Number"} |-> "int"] @@
    [t \in {"bigint", "int8"} |-> "bigint"] @@
    [t \in {"numeric", "decimal"} |-> "decimal"] @@
    [t \in {"boolean", "Boolean"} |-> "boolean"] @@
    ("USER-DEFINED" :> "enum")
NormalizeDbType(t) == IF t \in DOMAIN TypeMap THEN TypeMap[t] ELSE t

(* normalizeDefault: a falsy default counts as none                         *)
NormalizeDefault(d) == IF d \in {"", "false", "0", "none"} THEN "none" ELSE d

CompareColumns(e, d) ==
    (IF NormalizeDbType(e.type) # NormalizeDbType(d.type) THEN {"HIGH"} ELSE {}) \cup
    (IF e.nullable # d.nullable THEN {"MEDIUM"} ELSE {}) \cup
    (IF NormalizeDefault(e.default) \notin {"none", NormalizeDefault(d.default)}
     THEN {"MEDIUM"} ELSE {}) \cup
    (IF e.pk # d.pk THEN {"HIGH"} ELSE {})

NewTables(db) == DOMAIN Entities \ DOMAIN db
DroppedTables(db) == DOMAIN db \ DOMAIN Entities

CompareTable(t, db) ==
    LET e == Entities[t]
        d == db[t]
    IN  {[table |-> t, column |-> c, severity |-> "HIGH"] : c \in DOMAIN e \ DOMAIN d} \cup
        {[table |-> t, column |-> c, severity |-> "MEDIUM"] : c \in DOMAIN d \ DOMAIN e} \cup
        UNION {{[table |-> t, column |-> c, severity |-> v] : v \in CompareColumns(e[c], d[c])} :
                  c \in DOMAIN e \cap DOMAIN d}
CompareSchemas(db) ==
    {[table |-> t, column |-> "*", severity |-> "HIGH"] : t \in NewTables(db)} \cup
    {[table |-> t, column |-> "*", severity |-> "MEDIUM"] : t \in DroppedTables(db)} \cup
    UNION {CompareTable(t, db) : t \in DOMAIN Entities \cap DOMAIN db}

(* a database that shows no difference is one the entities can work with    *)
ASSUME ConformingAssumption == \A db \in Databases : CompareSchemas(db) = {} => db \in Conforming

(* a behaviour about boot tells databases apart by their tables only        *)
Possible(f) ==
    IF f = "drift" THEN Databases
    ELSE {db \in Databases : \A t \in DOMAIN Entities \cap DOMAIN db : CompareTable(t, db) = {}}

(* detectSchemaDiff: one comment per table that is missing or extra         *)
DetectSchemaDiff(db) ==
    {[verb |-> "CREATE TABLE", table |-> t] : t \in NewTables(db)} \cup
    {[verb |-> "DROP TABLE", table |-> t] : t \in DroppedTables(db)}

-----------------------------------------------------------------------------
(* Classification and validation of the statements of a diff.               *)

Classify(stmt) ==
    CASE stmt.verb \in {"DROP TABLE", "DROP COLUMN", "ALTER COLUMN TYPE"} -> "BREAKING"
      [] stmt.verb \in {"UPDATE", "INSERT", "DELETE", "COPY"} -> "DATA"
      [] OTHER -> "SAFE"

Severity(category) ==
    CASE category = "BREAKING" -> "CRITICAL"
      [] category \in {"DATA", "FIX"} -> "MEDIUM"
      [] category = "SAFE" -> "LOW"

BreakingChanges(diff) == {stmt \in diff : Classify(stmt) = "BREAKING"}

PlanIsValid(diff) ==
    /\ \A stmt \in diff : Severity(Classify(stmt)) # "CRITICAL"
    /\ BreakingChanges(diff) = {}

-----------------------------------------------------------------------------
(* SystemReadinessService and the phases of main.ts.                        *)

FreshReadiness == [phase |-> "INFRASTRUCTURE", completed |-> {}, ready |-> FALSE]

StartPhase(r, name) == [r EXCEPT !.phase = name, !.ready = FALSE]

CompletePhase(r, name) ==
    IF r.phase # name THEN r
    ELSE [r EXCEPT !.completed = @ \cup {name}, !.ready = @ \/ name = "READY"]

(* main.ts up to app.listen: nobody completes the SCHEMA phase              *)
BeforeListen(r) ==
    LET infrastructure == CompletePhase(StartPhase(r, "INFRASTRUCTURE"), "INFRASTRUCTURE")
        workers == StartPhase(StartPhase(infrastructure, "SCHEMA"), "WORKERS")
    IN  StartPhase(CompletePhase(workers, "WORKERS"), "API")

(* and once it has returned, the boot sequence included                     *)
AfterListen(r) == CompletePhase(StartPhase(CompletePhase(r, "API"), "READY"), "READY")

-----------------------------------------------------------------------------
(* Boot of one pod.                                                         *)

FreshCache == [report |-> "none", fresh |-> FALSE, error |-> "none"]

BootProcess(p) ==
    /\ boot[p] = "down"
    /\ boot' = [boot EXCEPT ![p] = "connecting"]
    /\ failed' = [failed EXCEPT ![p] = FALSE]
    /\ readiness' = [readiness EXCEPT ![p] = BeforeListen(FreshReadiness)]
    /\ UNCHANGED <<focus, database, pending, held, reaped, cli, analyses, cache, newest, spent>>

(* the process ends: its sessions close and everything in memory is gone    *)
Exit(p) ==
    /\ boot' = [boot EXCEPT ![p] = "down"]
    /\ readiness' = [readiness EXCEPT ![p] = FreshReadiness]
    /\ held' = Dropped(SessionsOf[p])
    /\ analyses' = [analyses EXCEPT ![p] = {}]
    /\ cache' = [cache EXCEPT ![p] = FreshCache]
    /\ newest' = [newest EXCEPT ![p] = [seq |-> 0, drift |-> FALSE]]

(* the boot sequence threw: a strict pod exits, another goes on             *)
BootFailed(p) ==
    /\ failed' = [failed EXCEPT ![p] = TRUE]
    /\ \/ p \in Strict /\ Exit(p)
       \/ /\ p \notin Strict
          /\ boot' = [boot EXCEPT ![p] = "listening"]
          /\ UNCHANGED <<readiness, held, analyses, cache, newest>>

BootStep(p, next) ==
    /\ boot' = [boot EXCEPT ![p] = next]
    /\ UNCHANGED <<failed, readiness, held, analyses, cache, newest>>

(* checkDataSourceConnection and checkSchemaVersion only read; a query may fail *)
CheckConnection(p) ==
    /\ boot[p] = "connecting"
    /\ BootStep(p, "locking") \/ BootFailed(p)
    /\ UNCHANGED <<focus, database, pending, reaped, cli, spent>>

(* converge takes the lock on any session and returns when it is refused    *)
ConvergeLock(p) ==
    /\ boot[p] = "locking"
    /\ \E s \in SessionsOf[p] :
         \/ /\ CanLock("schema", s) /\ held["schema"][s] < MaxHolds
            /\ held' = Acquired("schema", s)
            /\ boot' = [boot EXCEPT ![p] = "converging"]
         \/ /\ ~CanLock("schema", s)
            /\ boot' = [boot EXCEPT ![p] = "validating"]
            /\ UNCHANGED held
    /\ UNCHANGED <<focus, database, pending, reaped, failed, readiness, cli,
                   analyses, cache, newest, spent>>

(* The diff consists of comments, so the phases executed change nothing;    *)
(* an invalid plan, or a query that fails, makes converge throw.            *)
ConvergeDiff(p) ==
    /\ boot[p] = "converging"
    /\ boot' = [boot EXCEPT ![p] = "releasing"]
    /\ \E queryFails \in BOOLEAN :
         failed' = [failed EXCEPT ![p] =
                      queryFails \/ ~PlanIsValid(DetectSchemaDiff(database))]
    /\ UNCHANGED <<focus, database, pending, held, reaped, readiness, cli, analyses,
                   cache, newest, spent>>

(* "Always release the lock": the unlock goes to any session                *)
ConvergeRelease(p) ==
    /\ boot[p] = "releasing"
    /\ \E s \in SessionsOf[p] : held' = Released("schema", s)
    /\ boot' = [boot EXCEPT ![p] = IF failed[p] THEN "failing" ELSE "validating"]
    /\ UNCHANGED <<focus, database, pending, reaped, failed, readiness, cli, analyses,
                   cache, newest, spent>>

ConvergeThrew(p) ==
    /\ boot[p] = "failing"
    /\ BootFailed(p)
    /\ UNCHANGED <<focus, database, pending, reaped, cli, spent>>

ValidateCriticalSchema(p) ==
    /\ boot[p] = "validating"
    /\ \/ Critical \subseteq DOMAIN database /\ BootStep(p, "listening")
       \/ ~(Critical \subseteq DOMAIN database) /\ BootFailed(p)
    /\ UNCHANGED <<focus, database, pending, reaped, cli, spent>>

(* app.listen returns and main.ts completes the READY phase                 *)
Listen(p) ==
    /\ boot[p] = "listening"
    /\ boot' = [boot EXCEPT ![p] = "up"]
    /\ readiness' = [readiness EXCEPT ![p] = AfterListen(@)]
    /\ UNCHANGED <<focus, database, pending, held, reaped, failed, cli, analyses,
                   cache, newest, spent>>

-----------------------------------------------------------------------------
(* The migration CLI waits for the schema lock on a session of its own.     *)

CliStart ==
    /\ cli = "idle"
    /\ spent.migrations < MaxMigrations
    /\ cli' = "waiting"
    /\ spent' = [spent EXCEPT !.migrations = @ + 1]
    /\ UNCHANGED <<focus, database, pending, held, reaped, boot, failed, readiness,
                   analyses, cache, newest>>

CliLock ==
    /\ cli = "waiting"
    /\ CanLock("schema", CliSession)
    /\ held' = Acquired("schema", CliSession)
    /\ cli' = "migrating"
    /\ UNCHANGED <<focus, database, pending, reaped, boot, failed, readiness, analyses,
                   cache, newest, spent>>

CliMigrate ==
    /\ cli = "migrating"
    /\ \E db \in Possible(focus) : database' = db
    /\ pending' \in (IF focus = "drift" THEN BOOLEAN ELSE {FALSE})
    /\ held' = Released("schema", CliSession)
    /\ cli' = "idle"
    /\ UNCHANGED <<focus, reaped, boot, failed, readiness, analyses, cache, newest, spent>>

-----------------------------------------------------------------------------
(* Drift analysis and its cache.                                            *)

(* runBackgroundDriftAnalysis: skipped while another one runs               *)
MayAnalyse_Always(p) == TRUE
MayAnalyse(p) == analyses[p] = {}

StartAnalysis(p) ==
    /\ boot[p] # "down"
    /\ MayAnalyse(p)
    /\ spent.analyses < MaxAnalyses
    /\ spent' = [spent EXCEPT !.analyses = @ + 1]
    /\ analyses' = [analyses EXCEPT ![p] =
                      @ \cup {[seq |-> spent'.analyses, read |-> FALSE, drift |-> FALSE, deviates |-> FALSE]}]
    /\ UNCHANGED <<focus, database, pending, held, reaped, boot, failed, readiness, cli,
                   cache, newest>>

(* checkFullDrift: an error of the detailed diff is swallowed as no         *)
(* difference, one of showMigrations as nothing pending                     *)
CheckFullDrift(p) ==
    \E a \in analyses[p], diffFails, listFails \in BOOLEAN :
      /\ ~a.read
      /\ LET waits == pending /\ ~listFails
             drift == waits \/ (~diffFails /\ CompareSchemas(database) # {})
             deviates == waits \/ (~diffFails /\ database \notin Conforming)
         IN  analyses' = [analyses EXCEPT ![p] =
               (@ \ {a}) \cup {[a EXCEPT !.read = TRUE, !.drift = drift, !.deviates = deviates]}]
      /\ UNCHANGED <<focus, database, pending, held, reaped, boot, failed, readiness, cli,
                     cache, newest, spent>>

(* DriftCacheService.update                                                 *)
CacheUpdate(c, drift) == [report |-> drift, fresh |-> TRUE, error |-> "none"]

(* DriftCacheService.markFailed                                             *)
CacheMarkFailed(c) == [c EXCEPT !.error = "recent"]

EndAnalysis(p) ==
    \E a \in analyses[p] :
      /\ analyses' = [analyses EXCEPT ![p] = @ \ {a}]
      /\ \/ /\ a.read
            /\ cache' = [cache EXCEPT ![p] = CacheUpdate(@, IF a.drift THEN "drift" ELSE "clean")]
            /\ newest' = [newest EXCEPT ![p] =
                            IF a.seq > @.seq THEN [seq |-> a.seq, drift |-> a.deviates] ELSE @]
         \/ /\ ~a.read
            /\ cache' = [cache EXCEPT ![p] = CacheMarkFailed(@)]
            /\ UNCHANGED newest
      /\ UNCHANGED <<focus, database, pending, held, reaped, boot, failed, readiness, cli, spent>>

(* five minutes pass: an error is never older than the report it follows    *)
CacheExpires(p) ==
    /\ \/ cache[p].fresh /\ cache' = [cache EXCEPT ![p].fresh = FALSE]
       \/ ~cache[p].fresh /\ cache[p].error = "recent" /\ cache' = [cache EXCEPT ![p].error = "old"]
    /\ UNCHANGED <<focus, database, pending, held, reaped, boot, failed, readiness, cli,
                   analyses, newest, spent>>

(* DriftCacheService.get                                                    *)
CacheGet(c) ==
    CASE c.fresh -> IF c.report = "drift" THEN "DEGRADED" ELSE "HEALTHY"
      [] ~c.fresh /\ c.error = "recent" -> "DEGRADED"
      [] OTHER -> "UNKNOWN"

(* getSchemaStatus: an unknown drift status counts as healthy               *)
SchemaStatus(p, readinessFails) ==
    CASE readinessFails -> "FAILED"
      [] ~readinessFails /\ CacheGet(cache[p]) = "DEGRADED" -> "DEGRADED"
      [] OTHER -> "HEALTHY"

=============================================================================
