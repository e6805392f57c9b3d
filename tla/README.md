# Driver micro-service: verification project

TLA+ models of the driver micro-service: event delivery, dispatch, deliveries,
order ingress, accounts and driver sessions, and the schema tooling that
migrates its database. TLC checks them on small instances; TLAPS proves, for
every size, the safety properties of event delivery and archive, dispatch,
deliveries, worker processes, ingress, accounts, the control plane with its
backfill, and the lock of the migration runner. Paths are relative to the repository root (`src/...` is the
service's own source directory).

## 1. The system

The service is a NestJS application with a PostgreSQL database and Redis, run
as an API process (`src/main.ts`) and one or more worker processes
(`src/worker.ts`). An order that is ready in Vendure becomes a *delivery*; the
delivery is *offered* or *assigned* to a driver; the driver moves it through its
states; each state change is published to the *outbox* in the transaction that
makes it, and the workers hand the outbox rows to handlers (webhook to Vendure,
socket, push).

| Component | State | Operations | Talks to |
|---|---|---|---|
| Outbox and workers (`src/domain-events/outbox.*`) | table `outbox`: status, retry_count, locked_by/at, next_retry_at, idempotency_key | `publish`, `process` (stale-lock release, claim, handle, complete, fail) every 5 s | called inside other services' transactions; calls handlers through the circuit breaker |
| Dead letters (`dead-letter.service.ts`, `worker/dead-letter.worker.ts`) | FAILED rows of `outbox` | `retryEvent`, `retryAllFailedEvents`, `cleanupExpiredEvents` | writes rows the workers also claim |
| Archive and janitor (`outbox-archive.service.ts`, `outbox-janitor.service.ts`, `worker/cleanup.worker.ts`) | table `outbox_archive` | move completed or old rows, hard-delete old copies | reads and deletes hot rows under the workers |
| Circuit breaker, worker lifecycle (`circuit-breaker.service.ts`, `worker-lifecycle.service.ts`) | in-memory circuit per event type; set of events in progress | `execute`, `shutdown`, `add/removeProcessingEvent` | shared by all tasks of a process |
| Offers (`src/offers`) | table `driver_offers` | create, accept, reject, expire, next candidate | writes deliveries, drivers, assignments |
| Deliveries (`src/deliveries`) | table `deliveries`, `delivery_events` | create, assign, update status, OTP generate and verify, cancel | outbox, driver statistics |
| SLA monitor (`deliveries/sla-monitor.service.ts`) | Redis key `sla-checker:lock`, `deliveries.sla_breach_at` | one cron per process, every minute | saves delivery rows |
| Driver statistics and metrics (`src/delivery-intelligence`) | `driver_stats`, `delivery_metrics` | hooks after the delivery transactions | read by scoring |
| Drivers, presence (`src/drivers`, `src/redis`, `src/websocket`) | `drivers.status`, Redis geo and presence keys | status, location, heartbeat | read by offers and dispatch |
| Safe dispatch, scoring, ingress (`src/safe-dispatch`, `src/dispatch-scoring`, `src/events`) | `dispatch_decisions`, `dispatch_scores`, processed event keys | seller order ready, dispatch, fallback claim | deliveries, offers, drivers |
| Idempotency interceptor (`src/common/interceptors`) | Redis record per key | claim, re-claim, store the answer | around `POST /deliveries` |
| Accounts (`src/auth`, `src/authorization`, `src/shared/admin.service.ts`) | `drivers`, `admin_users`, tokens, `revoked_token:<id>`, a per-process answer cache | sign in and out, refresh, register, approve, change and disable accounts | drivers service |
| Schema control plane (`src/schema/services`, `src/schema/workers`) | advisory locks, `schema_status`, backfill jobs, drift report | boot, converge, drift analysis, backfill, readiness | every pod, and the migration CLI through one lock |
| Schema engine (`src/schema/engine`, `scripts/migration-engine`, `scripts/cli/intent*.ts`) | plans, migration records, generated files | classify, split, plan, simulate, replay, policy, intents | library called by the CLIs |
| Migrations (`src/migrations`, `scripts/cli/migrate.ts`, `scripts/db`, `scripts/migration-*.ts`) | the database schema, table `migrations`, an advisory lock | generate, governance checks, rehearsal, run, revert | DDL |
| Health, observability, push, configuration | metrics, logs | probes, I/O | – |

What is hard here, and decides what is modelled:

* **Overlap.** Cron ticks do not wait for the previous tick, every process runs
  every cron, and requests run in parallel. Some operations lock the row in a
  transaction (`acceptOffer`, `updateStatus`, `verifyOtp`, `assignDriver`,
  `claimBatch`); others load an entity and save it later
  (`createOfferForDriver`, `rejectOffer`, `generateDeliveryOtp`, `updateLocation`,
  `checkSlaBreaches`, `retryEvent`, the archive jobs).
* **Failure.** A worker dies between claiming, handling and marking; a job dies
  between copying rows and deleting them; a monitor dies holding a Redis lock.
* **Timeouts.** Locks on rows and keys run out while their owner still works,
  and nothing fences the late write.
* **Rollback.** A value saved before an exception is gone with the transaction.
* **Writes nobody waits for.** The idempotency record, the Redis presence keys
  and the revocation of old tokens are written after the answer, or may fail
  after the row is saved.
* **Half-done migrations.** Some migrations run outside a transaction, the
  process that holds the lock is not the one that applies the statements, and
  an advisory lock belongs to a pooled session rather than to its taker.

Correctness, per component: an event is delivered at least once, or kept as a
dead letter after its retries, and never lost on its way to the archive; a
breaker opens and closes again; a shutdown drains; a delivery has one driver
among those who were asked; a status shown is a status announced; a delivered
parcel has a pickup or an OTP behind it; a late delivery is marked; an order
gets one offer per claim and a replayed answer is that of a stored delivery; an
approved driver completed the profile, a revoked or outdated token stops working,
a fit driver is found; a migration plan, an intent or a run of the migrations
never loses data it was to keep, and what ran was rehearsed.

## 2. Modules

| Module | Models | Used by |
|---|---|---|
| `Outbox` | publish, workers, dead-letter retry | `OutboxArchive`, `MCOutbox`, `OutboxProofs` |
| `OutboxArchive` | extends `Outbox`: janitor, archiver, compression, dead-letter cleanup, hard deletes | `MCOutboxArchive`, `OutboxProofs` |
| `WorkerProcess` | inside one worker process: overlapping batches, circuit breaker, graceful shutdown | `MCWorkerProcess`, `WorkerProcessProofs` |
| `Dispatch` | offers, deliveries, drivers | `MCDispatch`, `DispatchProofs` |
| `Delivery` | one delivery row and all its writers: calls, OTP, hooks, SLA monitors | `MCDelivery`, `DeliveryProofs` |
| `EventHandlers` | which handler an event type has, what the handler needs in the payload and what it reports | `Delivery` |
| `OutboxPromise` | the abstract specification of the outbox: events wait, are done or dead | instantiated by `Outbox` |
| `DispatchScoring` | the arithmetic of the driver scores | `SafeDispatch` |
| `SafeDispatch` | the seller-order-ready webhook, its decisions and its fallback | `Ingress` |
| `Idempotency` | the interceptor around `POST /deliveries` | `Ingress` |
| `Ingress` | composes `SafeDispatch` and `Idempotency` on one delivery row | `MCIngress`, `IngressProofs` |
| `Authorization` | roles, permissions and the decision of `PolicyGuard` | `Accounts` |
| `DriverStore` | the `drivers` table, its Redis keys and the calls that save whole entities | `Accounts` |
| `Accounts` | sign-in, tokens, revocation, registration and approval, administrators | `DriverSessions` |
| `DriverSessions` | sockets, presence keys and the sweep of the gateway, on top of `Accounts`; both together | `MCDriverSessions`, `AccountsProofs` |
| `SqlStatements` | SQL statements as the engine's expressions see them, and what PostgreSQL does with them (external) | all schema modules |
| `MigrationEngine` | classification, risk, lifecycle split, graph, plan, validation | `MigrationRegistry` |
| `MigrationPolicy` | the policy engine's rules and decision | `MigrationRegistry` |
| `MigrationRegistry` | plans, the state machine of migrations, simulation and replay | `MigrationTools` |
| `SchemaIntents` | intents: parser, translator, generator, phases and rollbacks | `MigrationTools` |
| `MigrationGenerate` | `migrate --generate`: classification, rewrites, the files it leaves | `MigrationTools` |
| `MigrationTools` | composes registry, policy review, intents and generator | `MCMigrationTools`, `MigrationProofs` |
| `Migrations` | every migration of `src/migrations`, up and down | `Governance`, `MigrateCli` |
| `Governance` | the static checks of the migration files | `MigrateCli` |
| `MigrateCli` | `migrate --run` and `--revert`: checks, lock, rehearsal, child process, crashes | `MCMigrateCli`, `MigrationProofs` |
| `ControlPlane` | boot, advisory locks on pooled sessions, convergence, drift analysis, status | `Backfill` |
| `Backfill` | backfill ticks, jobs, retry and cancel, readiness | `MCBackfill`, `BackfillProofs` |

Names ending in `_Something` directly above a definition are seeded faults: the
same definition with a plausible bug, used to show that a property notices it.

### Outbox

A member of `Workers` is one running `process()` call, so two of them are two
processes or two overlapping ticks. `ReleaseStaleLocks` and `ClaimBatch` are the
two SQL statements; `HandleSucceeds`/`HandleFails` the handler;
`MarkCompleted`/`HandleFailure` the unfenced `UPDATE ... WHERE id`. `snap` is
the row as it was claimed: `handleFailure` computes the new count from it.
`Crash`, `MarkCompletedThrows` and `HandleFailureThrows` are failures between
any two writes. A retrier is one `retryEvent` call: find, set PENDING, handle,
write the result, each its own step because there is no transaction. Time is
three flags: a lock is stale, a backoff has elapsed, rows are ordered by id.
`toOutboxEvent` is what a claimed row carries into its handler.
Histories: `handled` (handler succeeded), `disturbed` (the claim was taken from
its owner).

### OutboxArchive

Jobs select entities, save copies batch by batch, and delete the hot rows by id,
three kinds of steps with any other step in between; `JobDies` stops one
anywhere. The archive's unique index makes a save fail for a key already there.
Row ages are 0 to 3 (fresh; past the janitor's hour; past the archiver's seven
days; past the thirty days of the dead-letter cleanup), copies age the same way.
Compression (`CompressSelects`, `CompressUpdates`) reads old copies and updates
them by an id that may be gone by then. `RetentionAge` is the age at which a
copy is purged, one age later when the retention setting is above the hard
delete's ninety days.

### WorkerProcess

One process with one circuit. A task is queued behind `pLimit`, asks the breaker
at its start (`TaskStarts`), ends its handler call in whatever state the circuit
is by then, and leaves `processingEvents` in the `finally` block. The failure
count is kept up to the threshold, the only value it is compared with.
`ShutdownCompletes` is the timer in `waitForEventsToComplete`; it runs after the
microtasks that start queued tasks, hence its last conjunct. Which rows a claim
returns belongs to `Outbox`; here it is any set, including events another batch
of the same process still handles.

### Dispatch

`acceptOffer` waits for row locks, so it is two steps (`AcceptLocks`,
`AcceptCommits`), with `AcceptRollsBack` for an exception or PostgreSQL's
deadlock abort. `createOfferForDriver`, `rejectOffer` and `triggerNextCandidate`
have a step per read and per save. `updateStatus`, `verifyOtp`, `assignDriver`
are one step each as far as the dispatch sees them; a location update saves a
driver entity loaded earlier. `CheckDeliveryAcceptanceCapability` is the guard
both offer handlers ask: of its checks the driver's status is the one that can
fail here, since an inactive or unapproved driver counts as OFFLINE and the
limit of concurrent deliveries reads a field nothing writes. Histories: `won`, `beaten` (an offer that was out
when a competing one was accepted).

### Delivery

Locked transactions are one step. What the code does after the commit
(`.then(...)`, the driver statistics) is `HookReads`, `HookSaves`. The OTP
request and the SLA monitor keep a copy of the row between load and save and
write all of it back. TypeORM does not write `undefined`, so a used OTP and an
old breach mark stay. A wrong code's save is undone by the exception
(`RolledBack`). An event is published with what its payload holds, and
`EventHandlers` says which handler receives it: a status counts as announced
when the outbox has an event whose handler reports it. The proof of a pickup or
delivery is published outside the transaction, so it stays when the transaction
fails afterwards (`ChangeFails`); the two commits of one success are one step,
since nobody waits for the pair. Each monitor takes the Redis key, runs two finds, saves, deletes
the key; the key expires on its own, and a monitor may die anywhere.

### OutboxPromise

The promise of the outbox without workers, locks or counts. `Outbox` maps a row
to it with `EventState` (absent, waiting, done, dead), `handled` to itself and
`disturbed` to `suspect`. The exception is written into the promise: once a
claim was taken from its owner, a late writer may put the event back.

### SafeDispatch, Idempotency, Ingress

A step is one statement, transaction or Redis command of the handler; a process
may die between two. `executeIdempotentFallback` is three steps: its locking
query sees only claims committed before it, the insert, and the callback that
makes the offer. Scores are exact fractions rounded where the code rounds. The
interceptor's last write is in `writes`, on its way, when the answer has left;
`WriteArrives` may come late and `WriteLost` is the alternative. Both ways in
share the delivery row in `Ingress`.

### Accounts, DriverStore, DriverSessions

A call loads an entity, changes it and saves all of it; `calls` keeps what it
loaded, so another call's save in between is overwritten. Redis writes after a
save may fail (`RevokeFails` and the like, under `MaxFaults`). A token carries
the claims of its issue and lives at most half the life of a revocation key, so
ages are two flags. `Authorization` is the table of permissions and the guard's
decision, used by the calls that need one. `FindAvailable` asks Redis first and
the table when Redis fails or answers nobody; Redis answers the `GeoLimit` nearest entries
of the geo set, whoever they are, and a driver whose keys are missing is skipped.
A search is a ranking of the drivers by distance. `SystemSpec`
is accounts and sessions with every request allowed at once, from an empty
drivers table and the seeded administrators; the stories of the run are
restrictions of it, and the rows they start from can be reached in it. A socket is open, gone, or lost
without the server knowing (`half`); the sweep reads the presence keys in one
step and acts on what it read in later ones. `jwt` is whether the token a socket was
opened with is still accepted: the guard looks at it on every message.

### SqlStatements, MigrationEngine, MigrationPolicy, MigrationRegistry, SchemaIntents, MigrationGenerate

The engine matches regular expressions on SQL text, so a statement is a verb,
the names the expressions capture and the words they would also find (a column
named `vehicle_type` contains TYPE). A database knows of every column whose data
it holds; executing a statement moves, copies or drops these marks, which is
what "loses no data" means. The planner is a set of operators from a diff to a
plan. `ExecuteFastPhases` runs a plan as the code does: EXPAND, then CONTRACT, up
to the first statement that fails or to a death after any; the DATA phase becomes
`BackfillJobs` when all went through. The registry's calls, the four guards
(`GuardMigration`) included, come in any order, as the library leaves them to its
callers. The intents' phases are run and rolled back on a database to which the
application writes rows all the while, into the columns it had before the intent
(`WriteRow`; nothing writes the columns a phase adds until the code is changed).
A cast to `narrow` cuts `LongText`, as an explicit cast to a shorter VARCHAR
does. A file is a phase and a time stamp: what the template makes of its
statements is in section 5.
`MigrationGenerate` is `migrate --generate`: TypeORM's file is its `up`
statements followed by their inverses, because the CLI's expressions search the
whole text; it is classified, rewritten, guarded and taken apart as the code
does, and `GeneratedDoesTheDiff` runs the resulting files on a database beside
the diff itself. Column names with NOT in them, which would stop an expression
early, are left out of the instance.

### Migrations, Governance, MigrateCli

Each migration is the statements of its `up` and `down` on the tables and
columns later migrations name. An operator's process checks the files, takes
the lock, rehearses in a transaction it rolls back and starts a child that
applies one migration after the other, each in a transaction or, where the file
says `transaction = false`, statement by statement. Killing the command frees
the lock; its child may go on. `CutOff` is the server's `statement_timeout` of
10 s, or its refusal of `CREATE EXTENSION`: it ends a statement of the child, the
wait for the lock or the rehearsal, and an index that was being made
`CONCURRENTLY` keeps its name. An order id is a UUID (`"order"`), a text the
backfill replaces by a random UUID (`FreeForm`), or one the expression
`[0-9a-fA-F-]{36}` takes for a UUID and `::uuid` refuses (`Malformed`). A revert
is one transaction, so the migrations whose `down` says `CONCURRENTLY` cannot be
reverted (`Undoes`). `Installations` are databases and the releases they pass
through.

### ControlPlane, Backfill

Locks are held by sessions and re-entrant there; the pool gives any free session
to the next query, so an unlock may miss. Boot, convergence and the drift
analysis are steps between such queries. A tick of the backfill worker claims
jobs, converts batches and saves progress with the counters it computed; ticks
overlap as the cron does not wait. The list of jobs a tick has read is the set
of positions not yet tried, the oldest first. `retryJob` and `cancelJob` find a
row, look at it and save all of it later: `calls` holds what they will save, and
`disturbed` the jobs such a save hit while a loop was on them.

## 3. Runs

| Run | Result | What it shows |
|---|---|---|
| `outbox_workers` | holds | Two workers, two rows, two keys, one fault. `CompletedWasHandled`, `SingleOwner`, `Recoverable`, `CompletedStays`, and `EventuallySettled`: each published row ends COMPLETED or FAILED. |
| `outbox_deadletter` | holds | Two retries and two workers on one row: `FailedExhausted` survives, and `KeepsPromise`: the outbox with retries still implements `OutboxPromise`. |
| `archive_jobs` | holds | Janitor, archiver, cleanup and a worker on two rows of one key: `NothingLost`, `ArchivedWasHandled`, `ArchivalHappens`. |
| `worker_process` | holds | Two overlapping batches of two events, one slot each, threshold 2: `OpensAtThreshold`, `HalfOpenAdmits`, `NothingLeaks`, `CircuitRecovers`, `ShutdownDrains`. |
| `dispatch_offers` | holds | Two drivers, two offers, one unprotected request, one manual assignment: `LosersStayLosers`, `DeadOffersStayDead`. |
| `dispatch_double` | **violated** | An offer saved after a competing one was accepted can be accepted too: the delivery changes hands. |
| `delivery_rows` | holds | Two calls, two monitors, one crash: `StatusAnnounced`, `DeliveredHasProof`, `BreachIsMarked`. |
| `ingress_orders` | holds | Two webhook requests and two posts for one order, any mix of two, with deaths, lost or late writes and settings changed any number of times: `OffersMatchClaims`, `ScoringNeedsZeroThreshold`, `ReplayIsReal`. |
| `driver_accounts` | holds | Two drivers or two administrators and two calls in progress, or a driver's sessions, with tokens that expire, nearer ghosts and a search that answers one entry: `ApprovedIsComplete`, `RevocationOutlivesTokens`, `AdminClaimsCurrent`, and `FitIsFound` (liveness). |
| `migration_tools` | holds | Every diff of up to two of fourteen entity changes, planned and executed up to any statement, seventeen intents (four of them refused or empty) with rows written between their phases, and every diff of up to three of thirteen changes through `--generate`: `DataSurvives`, `AcceptedKeepsData`, `ExecutedWasRehearsed`, `AcceptedIntentKeepsData`, `GeneratedDoesTheDiff`. |
| `migrate_cli` | holds | Two operators, two commands, one crash or cut, four installations, rows with and without ids that only look like UUIDs: `RerunResumes`, `OneRun`, `RehearsedApplies`, `OrderIdsSurvive`. |
| `schema_runtime` | holds | Two pods (two sessions, one session), a job of two batches or one that counts no row, overlapping ticks, one fault: `LocksExclude`, `OneLoopPerJob`, `ReadyWasConverted`, `DriftIsReported`. |

**Bounds.** Two of everything that overlaps: the races here are between two
writers of a row, and the proofs cover any number. Retries are 1 or 2 so that
both the retry and the dead letter happen; one fault (two where the story needs
two crashes) is enough for a crash at each point. `MaxEvents`, `MaxFaults`,
`MaxRevivals`, `MaxOffers`, `MaxManual`, `MaxAssignments`, `MaxCalls`,
`MaxArrivals`, `MaxOrders`, `MaxRequests`, `SessionRequests`, `MaxChanges`,
`MaxGenerated`, `MaxPlans`, `MaxClock`, `MaxCommands`, `MaxCrashes`, `MaxHolds`, `MaxAnalyses`,
`MaxMigrations` and `MaxOperations` are the bounds in guards (`MaxCrashes` is of
crashes and cuts together, `MaxFaults` in `Delivery` of crashes and failed
transactions); `Asked` (pods that
get an administrator's calls), `Watched`, `TicksOf` and the sets of databases,
intents and settings an instance offers bound the choices. `GeoLimit` is 1 for
the code's 50: one nearer ghost fills an answer. `MCConfigs` has two thresholds, 7 and 0, set
in any order and number. `MCDispatch_offers` permutes
drivers and requests, `MCIngress_orders` requests and posts; the runs with
liveness use no symmetry. `MCOutboxArchive_jobs` has one key so that the unique
index is met. `MCDriverSessions` picks one of three stories in its initial
state (`focus`: accounts of drivers, of administrators, or sessions), because
they share the calls and the tokens and hardly each other's rows.
`MCMigrateCli` starts from an empty database, from one made by an earlier
baseline (`auth_provider` without its enum, which the migration 1774762625055
expects), and from both at a later release; one release ahead is enough because
each run applies everything pending. `CHECK_DEADLOCK FALSE` where the system may
stop: a process that has shut down, requests that are all answered, operators
who have finished, pods that have used up the bounds.

**Fairness.** Weak fairness of what cron, timers, clocks and running code do by
themselves: ticks keep firing, a step already running goes on, locks and Redis
keys expire, backoffs elapse. Handlers return because their HTTP clients have
timeouts. Nothing is assumed of operators, of the downstream service (only
`CircuitRecovers` supposes it healthy, in the property) or of the 30 s shutdown
timer. `WorkerProcess` adds strong fairness for claims that are not empty:
failed events come back, so a circuit keeps being tried. `ArchivalHappens` asks
nothing of the workers: rows are archived by age, handled or not. `FitIsFound` assumes
that the phone keeps signing in again, reconnecting and reporting its position, that socket.io's
ping timeout finds a lost socket and that the minute of the connection counter
ends; calls in progress, Redis and the sweep have no fairness, and half days
pass only while `SessionRequests` lasts. What it says is that a fit driver is in
the answer of a search unless the answer is crowded or its messages are refused.

## 4. Proofs

All for arbitrary constants under the named assumptions of the modules: bounds
are naturals, limits are positive, null values are not members, drivers and
administrators have different ids, ticks are finitely many. These say more:

* `RetentionAssumption` limits the archive's retention to the two ages the model
  tells apart, and `UpdatesAssumption` lets an administrator be given only a role
  the request validation knows;
* `ConformingAssumption`: a database in which the comparison finds no difference
  conforms to the entities;
* `BaseAssumption` and `IntentBaseAssumption`: the database a command starts from
  has a table for every column it has;
* `ChangesAssumption`: a diff consists of statements TypeORM's schema builder
  writes;
* `InstallationsAssumption`: an installation that has recorded the baseline has the
  tables the baseline makes, and the columns later copied are there wherever their
  tables are; it has recorded the first migrations of the chain in their order, its
  rows know their orders, and so do the uuid copies if the last it recorded is the
  backfill.

* `OutboxProofs`: `TypeCorrect`, `CompletedImpliesHandled`,
  `DeadLettersExhausted`, `ClaimsAreExclusive`, `CompletedIsFinal` (an action
  property). The inductive invariant adds that ids beyond the sequence are
  absent, that a task or retry which remembers success is in the history, that a
  running retry holds a row with its retries used up, and that an undisturbed
  claim is the one in the row. `SingleOwner` needs the last, `FailedExhausted`
  the third.
* `WorkersLeaveRowsRecoverable` is `Recoverable` where no dead-letter retry runs
  (`Retriers = {}`); its invariant `LockInv` ties the lock columns to the status:
  PROCESSING rows have an owner, PENDING rows have none. A retry breaks it (section 5), hence
  the hypothesis.
* `PromiseKept` is the refinement `Spec => KeepsPromise`: every step of a worker
  or a retry is one step of `OutboxPromise` or a stutter. It needs that a task
  which is about to write a failure over a row that is no longer waiting has lost
  its claim (`disturbed`), and that tasks and retries only touch rows that exist
  (`TouchedHot`).
* Under the archive, also in `OutboxProofs`: `EventsAreKept` (`NothingLost`),
  `ArchivedCopiesHandled`, `CompletedHandledUnderArchival`. The archive's jobs
  take rows away under the workers, so the outbox invariant is proved again
  with rows that vanish, without the parts that fail then (an undisturbed
  claim need not be in the row). `ArchiveInvariant` adds that a job deletes only
  rows whose copy was saved, or that a retention rule has removed, and that a
  snapshot in a job which says COMPLETED was handled.
* `DispatchProofs`: `DispatchTypeCorrect`, `OneWinner`,
  `ClosedOffersStayClosed`. `LosersStayLosers` alone is not inductive: a locked
  offer is still PENDING, an ACCEPTED offer has been won, a won offer never looks
  unanswered again, a beaten one is closed.
* `DeliveryProofs`: `DeliveryTypeCorrect`, `StatusIsAnnounced`,
  `DeliveryHasProof`. Rows are written back from old copies, so the invariant
  says of every copy what the theorem says of the row, and that IN_TRANSIT has a
  pickup behind it; it survives because events only accumulate. `Out` is
  the event of a status being in the outbox, and `HandlerReports` the lemma that
  its registered handler then reports that status.
* `WorkerProcessProofs`: `ProcessTypeCorrect`, `BreakerOpensAtThreshold`,
  `HalfOpenNeverStuck`, `NoEventLeaks`. HALF_OPEN keeps the failures that opened
  the circuit, so the first failure there reopens it and the half-open count
  stays 0: the `halfOpenMaxCalls` check never refuses anything. Only running
  batches have tasks, which `NothingLeaks` needs when a new batch is claimed.
* `IngressProofs`: `OffersAreAccounted`, `ScoringIsClosed`, `RepliesAreReal`. The
  number of offers is bounded by two sets of claims: those whose offer is known
  to be made (`Made`) and those where it may be (`Free`). For this to be
  inductive, a claim in progress is unassigned and belongs to one request
  (`RequestInv`), and claims are LEGACY decisions (`DecisionInv`); each step then
  moves at most one claim, and the cardinalities follow.
* `BackfillProofs`: `LocksAreExclusive`, `LoopsAreAlone`, `ReleasedWasConverted`,
  `DriftReported`, from three invariants that need little of each other.
  `LockInv` counts the holds of each session against its users: a lock is
  re-entrant in its session, so exclusion between sessions is what PostgreSQL
  gives, and exclusion between pods follows while no pool closed a session under a
  user; an unlock that misses its session only leaves a hold too many. `LoopInv`
  is the conditional update of the claim, for every job no administrator's save
  hit under a running loop: such a save may put the row back to PENDING;
  `ConvertedInv` carries what a validation saw until the release. `DriftInv`
  orders the analyses of a pod.
* `AccountsProofs`: `ApprovalIsEarned`, `RevokedStaysRevoked`,
  `ClaimsAreCurrent`, about `SystemSpec`. A save writes a whole old entity, so
  `StoreInv` says of every row in the hands of a call what is said of the table.
  `CutInv` compares the age of a key with that of the tokens it cut. `ClaimsInv`
  is about administrators whose last change is settled (no revocation missed,
  none under way, no key younger than half a day): tokens that can still be
  used, and rows a call is about to save, say what the account says. Younger
  keys need nothing, since they outlive what is stale.
* `MigrationProofs`, about the command line and the tools:
  * `RunsAreAlone` (`OneRun`): a command past the lock still has it
    (`LockInvariant`), because only its own end, or its death, gives it back.
  * `ExecutedAfterRehearsal` (`ExecutedWasRehearsed`). A record's history is kept
    when it moves, and imports bring back records that were exported, so the
    invariant `RegistryInv` is about the registry and about the export alike.
  * `AcceptedPlansKeepData` (`AcceptedKeepsData`), for any number of changes on any
    database and any point at which executeFastPhases stops. What validation accepts
    is never BREAKING (`NotBreaking`), so every statement of the plan adds
    (`AcceptedIsAdditive`), whatever the split does with it (`SplitIntoPieces`), and
    none is left to a job; a script of such statements keeps the data of every
    column it meets.
  * `AcceptedIntentsKeepData` (`AcceptedIntentKeepsData`). Only five kinds of
    intent get through the checks (`AcceptedTypes`). A phase is safe because of the
    one before it: `Prepared` says what the database owes to the phases
    already applied (after EXPAND the new column is empty, after DATA it has
    what the old one had), and `IntentInv` carries it through the rows the
    application writes. Two things are lost and excepted by name (`Exempt`): rows
    written to the old column after DATA has copied it, and texts a cast to a
    narrower type cuts.
  * `OnlineMigrationsResume` (`RerunResumes`). A statement of a migration without a
    transaction can only fail for want of its table or of the column it copies, or
    at an id that looks like a UUID and is none; the last is the exception
    (`Excused`).
    `BaselineInv` says that both are there once the baseline is recorded and that
    nothing is applied before it. It is inductive because no statement of any of the
    thirty migrations drops such a table or column (`Gentle`,
    `ChainIsGentle`, one lemma for each script). A cut is a step of its own: it
    leaves the database or adds the name of an index (`CutOffIs`), which
    `CutOffKeepsBaseline` carries over.
  * `OrderIdsKept` (`OrderIdsSurvive`). With no revert and no race, `TraceInv` says
    that migrations are recorded in the order of the chain, by a single run whose
    todo list continues it, that every row's seller_order_id has its order
    (`Traced`), and that between the backfill and the contraction the uuid copy has
    it too (`Filled`). Only those two migrations touch the columns
    (`ChainIsMild`, for the others): the first fills the copy (`BackfillFills`), the
    second may then rename it into place (`ContractionKeeps`).
  * `RehearsedRunsApply` (`RehearsedApplies`). `CleanInv` says of an operator whose
    rehearsal nobody has spoilt that what is left of its run goes through
    (`Goes`); a successful rehearsal makes it true of everything pending
    (`RehearsalGoes`). The migrations the rehearsal left out change the database
    under it: it is then `Ahead` of the rehearsed one, with more indexes and with
    columns filled that were empty (`OnlineIsAhead`), and every script of the
    chain that runs on the one runs on the other (`AheadStep`, `AheadScript`),
    since no migration insists on making one of those indexes itself (`Gentle`).
    The backfill goes through where no id is malformed, and what it fills holds
    only UUIDs (`NoUuids`), which a later conversion to uuid needs. A cut before the
    rehearsal is over ends the command; after it, an index whose name is left is one
    more step `Ahead` (`CutOffKeepsClean`).

  Scripts of any length are reasoned about by induction written as a least
  counterexample (`Least`), since the induction theorems are out of reach;
  `ScriptIs`, `MigratedIs`, `FlattenIsSeq` and `FlattenFolds` unfold the recursive
  functions it is used on.

Only model-checked:

* every liveness property (`EventuallySettled`, `ArchivalHappens`,
  `BreachIsMarked`, `CircuitRecovers`, `ShutdownDrains`, `FitIsFound`), as
  fairness and ENABLED are outside the prover;
* `DataSurvives` and `GeneratedDoesTheDiff`: both depend on which changes a diff
  may hold (a diff that renames and retypes the same column is outside what the
  engine orders), so they are about the changes of the instance. `DataSurvives`
  speaks of plans that were not validated too: they lose a column's data only
  where a job was to copy it.

## 5. Divergences seen while modelling

`dispatch_double` is a run; PROJECT.json, "findings", quotes its lines. The
others below were seen while translating the code; those marked * are behaviours
of the models above, which TLC finds when asked for what the repository says.

Events and deliveries:

* * A dead-letter retry writes PENDING and keeps the row's lock columns when it
  stops half-way; the claim selects unlocked rows and the stale-lock release
  PROCESSING ones, so the row stays (`dead-letter.service.ts:94`, against
  `README.md:310`).
* * `archiveOldEvents` moves rows of any status by age, unhandled ones too
  (`outbox-archive.service.ts:40`, against `README.md:314`).
* * The counter of wrong OTPs is saved and then rolled back by the exception, so
  the lockout never happens (`deliveries.service.ts:393`, against
  `docs/WEEK_1_TEST_CHECKLIST.md:113`).
* * DELIVERED, FAILED and CANCELLED are not final: `assignDriver`, `verifyOtp`,
  `acceptOffer` and saves of stale copies leave them
  (`deliveries.service.ts:59`, `:199`, `offers.service.ts:224`).
* Two accepts of competing offers can deadlock in the database; one is aborted
  (`offers.service.ts:201`). `expireOffers` closes an unanswered offer and nobody
  looks for the next driver (`offers.service.ts:314`).
* The limit of concurrent deliveries reads a Redis field with no writer
  (`driver-capability.service.ts:73`). `driver_stats` is counted without a lock
  (`driver-stats.service.ts:89`), and a repeated status update runs the hooks
  again (`deliveries.service.ts:488`).
* `updateStatus(ASSIGNED)` publishes an event without a driver: its handler throws
  until the row is a dead letter, and the idempotency key it occupies keeps out
  the event of a later `assignDriver` (`deliveries.service.ts:550`). This is the
  exception in `StatusAnnounced`.
* * Two webhook requests for one delivery whose queries overlap both claim and both
  offer (`safe-dispatch.service.ts:364`); a claim whose process died after the offer
  stays PENDING for ever (`:446`).
* * A shutdown waits for event ids (`worker-lifecycle.service.ts:92`): of two batches
  with the same row the first to end takes the id away, and a batch claimed during
  the shutdown is not waited for. What is cut off is claimed again.
* * The proof of a pickup or delivery is published before its transaction commits
  (`delivery-events.notifier.ts:21`, `:36`): a transaction that fails leaves the
  proof of a change that did not happen.
* * An event is marked processed although no driver was dispatched
  (`events.controller.ts:256`, against its comment at `:227`).

Accounts and sessions:

* A driver's email is not unique in the schema; two first sign-ins make two
  drivers. `completeProfile` sends an APPROVED driver back to PENDING.
* `seed-dev-data.ts:200` makes APPROVED drivers nobody approved, and so does the
  update of existing rows in `1774800000000…ts:45`. The first is for development,
  the second for rows older than the registration flow: neither is part of
  `SystemInit`, so `ApprovedIsComplete` speaks of drivers registered since then.
* PATCH of an administrator's city changes nothing when there is a city already:
  `findById` loads it as a relation, which TypeORM prefers to the new `cityId`
  (`admin.service.ts:136`, `:259`); the tokens are revoked all the same. Google
  sign-up sets no phone, so such a driver completes its profile too
  (`driver-registration.service.ts:84`).
* Saves of whole entities undo a disable, an approval or a change of role made
  in between; `updateLocation` writes back an old status (`drivers.service.ts:400`).
* An OTP sign-in lifts the revocation an administrator set; Google and
  administrator sign-ins never clear one; removing an account or resetting a
  password revokes nothing. Concurrent wrong passwords lose counts.
* A new socket is refused while the old one is tracked (`websocket.gateway.ts:140`).
  The sweep sees no connected driver in its namespace, and drivers who
  disconnect are normally never marked OFFLINE; `handleLocation` lists BUSY
  drivers as AVAILABLE in Redis.
* * Drivers gone that way stay in `drivers:geo`, and GEOSEARCH counts them: with
  50 of them nearer to the pickup a driver that may work is never in an answer
  of Redis (`drivers.service.ts:250`, `redis.service.ts:195`), as another entry
  in the answer keeps the fallback to the database out. A message refused for
  an expired token leaves its socket open and tracked (`websocket.guard.ts:33`),
  so the driver is out until the phone itself reconnects. Both are exceptions in
  `FitIsFound`. The guard does not read the Authorization header that
  `handleConnection` accepts (`websocket.gateway.ts:105`, `websocket.guard.ts:40`).

Schema:

* * The chain does not apply to a database the current baseline has just made:
  1774762625055 converts to an enum it expects to be missing (its line 83,
  against the baseline's line 4). The rehearsal refuses; nothing is lost.
* At the newest release `migrate --run` refuses every time, because
  1777462769161 has no prefix the naming policy knows.
* * 1774093828155 converts what matches `[0-9a-fA-F-]{36}` with `::uuid` (its lines
  33-34, 67-68): thirty-six hyphens match. With one such id the migration fails on
  every run, after a rehearsal that went through: the exception in `RerunResumes`
  and `RehearsedApplies`.
* * `statement_timeout` is 10 s (`src/config/data-source.ts:60`) for the child's
  statements as for everything else: a long backfill or index is cut off each
  time it is tried, and an index made CONCURRENTLY stays, invalid, under its name, so that the
  `IF NOT EXISTS` of the next run skips it. It also ends the wait for the advisory
  lock, against the comment "(no timeout)" (`migrate.ts:872`).
* `migrate --revert` never undoes 1774093828157 or another migration whose `down`
  drops an index CONCURRENTLY, as TypeORM's undo is a transaction.
* The rehearsal leaves out migrations with `transaction = false`. 1774800000002
  throws in `down`. A revert takes no lock, and a child outlives its killed
  command, so `OneRun` speaks of living commands. Rows written between the
  backfill of the order ids and the contraction, and reverts, lose order ids:
  the two exceptions in `OrderIdsSurvive`.
* The migration-order check sorts the files before it looks at their order.
* A plan the planner accepts may fail when it is executed in its order; a
  refused intent may leave files behind. The properties are about what is accepted and applied.
* * `executeFastPhases` (`execution-planner.ts:539`) runs CONTRACT right after
  EXPAND, and `createBackfillJobs` (`:435`) leaves DATA to the worker: of a plan
  that renames or retypes a column the old column is gone before the job that was
  to copy it, which then cannot run. `DataSurvives` says what such a plan loses,
  `AcceptedKeepsData` that a plan `validateMigrationPlan` accepts loses nothing. The
  one caller today is a pod's convergence (`schema-orchestrator.service.ts:334-437`):
  its plan is unsplit, its own validation (`:291`) refuses whatever it calls BREAKING,
  and its diff consists of comments, so nothing is executed (`ConvergeDiff`).
* * What the split moves into DATA under another category (a table whose text has
  the word UPDATE, a rebuilt enum) is neither executed nor made a job: the phase
  is skipped and jobs are made of DATA operations only.
* * The guards and the transitions of a migration disagree: `canExecute` and
  `guardExecution` ask for APPROVED (`migration-state.ts:90`, `:119`), and
  `scripts/test-migration-engine.ts:180-188` asserts that APPROVED to EXECUTING
  is valid; the table (`:44-60`) goes from APPROVED to REPLAYED only and from there to
  EXECUTING. So that assertion of the script fails, and a migration the guard lets
  through cannot be started, one that can be started is refused by the guard:
  both are in `ExecutedWasRehearsed`.
* * CHANGE_COLUMN_TYPE copies with `CAST(column AS type)`
  (`intent-translator.ts:220`): an explicit cast to a shorter VARCHAR cuts texts
  silently, and CONTRACT drops the originals. Rows written to the old column
  between DATA and CONTRACT are lost with it, for a rename, a retype and a split
  alike. Both are `Exempt` in `AcceptedIntentKeepsData`.
* * The intent parser takes any type (`schema-intent.ts:135`, `:162-196`): one it
  does not know, like the `add-index` of
  `examples/add-driver-location-index.intent.json`, is accepted with no phases and
  no files. ADD_CONSTRAINT without columns passes the parser, and the translator
  throws (`intent-translator.ts:487-535`).
* The template of the generated files (`intent.ts:172-208`) pastes the SQL as the
  body of a method and makes a class name that starts with digits and has hyphens:
  the files do not compile. The phases the model runs are the statements in them,
  run by hand.
* `--generate` looks for NOT NULL from an ADD to the next NOT anywhere in the
  file (`migrate.ts:301`), `down` included: a nullable column added before a
  required one is given the constraint instead of it, a dropped required column
  gets companion files for a column that is gone, and a SET NOT NULL may be cut
  to a statement that does not parse. All companions alter the first altered
  table of the file (`migrate.ts:1245`). The prefix is taken from `down` as well,
  so a new table makes a BREAKING_ file. `GeneratedDoesTheDiff` therefore says
  that files which apply do the diff, and leaves constraints out.
* The adaptive batch size never leaves 50: PostgreSQL folds the unquoted aliases
  of its statistics query to lower case (`adaptive-batch.service.ts:68`).
* A backfill job of the "assignment" kind says COMPLETED after its first batch;
  an unlock that misses its session leaks the lock until the session closes; a
  failing diff is swallowed as "no differences" and a failing list of migrations
  as "none pending"; a crash leaves jobs PROCESSING
  until an operator cancels and retries them.
* * `retryJob` saves the row it found without looking again
  (`backfill.worker.ts:514-536`): of two retries the second may put PENDING back
  under the loop the first one's tick started, and when the worker lock is lost
  as well (its session closed) a second pod claims the job. `cancelJob` does the
  same with FAILED. These jobs are the exception in `OneLoopPerJob`.

## 6. Not modelled

PROJECT.json lists every component with its reason. In short: third-party I/O
(push, mail, Vendure, Google), read-only endpoints, probes and metrics, audit
rows and alerts, response shaping and settings, adaptive batch sizes (a claim
returns any number of rows), and code that nothing calls
(`createAndAssignDelivery`, `forceConvergence`, the partitioned backfill,
`resetCircuit`). Inside modelled components: delivery_events rows, log lines,
Redis lookup keys nobody reads back, averages of the statistics, the delivery
policy of the authorization, and the headers `migrate --generate` writes and the `down` its rewrites leave. `SetConfig`
(`SafeDispatch`) is modelled although nothing in the service calls
`DispatchConfigService.setConfig`: it stands for an operator's changes of the
stored settings, at any moment and as many as wanted; the model keeps the lowest
threshold of all stored versions, which `ScoringNeedsZeroThreshold` is about: a
threshold lowered to zero and raised again leaves the ASSIGNED rows it let in.

## 7. Order of the work

Outbox and dead letters, archive, dispatch, delivery, worker process and their
proofs came first; then ingress, the migration tools and the runner, the control
plane with the backfill, accounts and sessions; then the abstract outbox and its
refinement proof; then the proofs about archive, ingress, control plane, backfill
and accounts; last those about the migration tools and the runner. Open, for later:

1. An abstract specification of the idempotency key, refined by `Idempotency`.
2. `Delivery`'s hook counters.
3. The lifecycle split of a generated migration file (`lifecycle-split.ts`) as a
   module of its own.
