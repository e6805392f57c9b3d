------------------------------ MODULE Backfill ------------------------------
(***************************************************************************)
(* The backfill worker of every pod (a cron tick under a distributed lock  *)
(* that claims jobs and converts a table batch by batch), the operator's   *)
(* retry and cancel, and the readiness check that releases a schema        *)
(* difference for migration.  Nothing in the code creates jobs or          *)
(* differences at run time (the diff of converge holds no DATA statement): *)
(* they are rows of the database the pods find.                            *)
(***************************************************************************)
EXTENDS ControlPlane

CONSTANTS
    JobIds,         \* in the order of createdAt: a sequence
    Kind,           \* [job -> [sql : {"assignment", "update"}, ids : {"integer", "uuid"}]]
    Workloads,      \* what the pods find: records of the pending jobs, their totalRows
                    \* (from estimateTableRowCount) and the rows of their tables
    BatchSizes,     \* what AdaptiveBatchService may answer
    TicksOf,        \* bound: [Pods -> the ticks of a pod that overlap]
    Asked,          \* bound: pods that get administrators' calls
    MaxConcurrent,  \* MAX_CONCURRENT_JOBS, 3 in the code
    MaxRetries,     \* maxRetries of a job, 5 in the code
    SaveEvery,      \* batches between two progress saves, 5 in the code
    MaxOperations   \* bound: retries, cancellations and inserts

Jobs == {JobIds[k] : k \in DOMAIN JobIds}
Ticks == UNION {TicksOf[p] : p \in Pods}
NoJob == "none"

ASSUME JobsAssumption == NoJob \notin Jobs
ASSUME AskedAssumption == Asked \subseteq Pods
ASSUME TicksAssumption == IsFiniteSet(Ticks)
ASSUME SaveEveryAssumption == SaveEvery \in Nat \ {0}
ASSUME WorkloadsAssumption ==
    \A w \in Workloads : /\ w.pending \subseteq Jobs
                         /\ \A j \in Jobs : w.total[j] \in Nat
                         /\ DOMAIN w.rows = Jobs

VARIABLES
    job,        \* [Jobs -> row of backfill_jobs]
    rows,       \* [Jobs -> [row id -> "absent", "old", "new" or "late"]]
    diff,       \* [Jobs -> row of schema_differences]
    checking,   \* [Jobs -> a readiness check has validated and not yet marked]
    isRunning,  \* [Pods -> BOOLEAN]
    activeJobs, \* [Pods -> SUBSET Jobs]
    tick,       \* [Pods -> [Ticks -> tick of the cron]]
    calls,      \* the calls of retryJob and cancelJob in progress, with the row they will save
    disturbed   \* history: jobs such a call saved while a loop was on them

jobVars == <<job, rows, diff, checking, isRunning, activeJobs, tick, calls, disturbed>>
vars == <<planeVars, jobVars>>

NULL == 0 - 1
IdleTick == [pc |-> "idle", queue |-> {}, job |-> NoJob, entity |-> <<>>,
             processed |-> 0, last |-> 0, retries |-> 0, batches |-> 0]

-----------------------------------------------------------------------------
(* BackfillJob, the entity.                                                 *)

NewJob(total) == [status |-> "PENDING", total |-> total, processed |-> 0, last |-> 0,
                  retry |-> 0, error |-> FALSE]

MarkAsStarted(e) == [e EXCEPT !.status = "PROCESSING", !.retry = 0, !.error = FALSE]
UpdateProgress(e, processed, last) == [e EXCEPT !.processed = processed, !.last = last]
MarkAsCompleted(e) == [e EXCEPT !.status = "COMPLETED"]
MarkAsFailed(e) == [e EXCEPT !.status = "FAILED", !.error = TRUE, !.retry = @ + 1]
CanRetry(e) == e.status = "FAILED" /\ e.retry < MaxRetries

-----------------------------------------------------------------------------
(* A tick of processPendingJobs.                                            *)

TickStart(p, t) ==
    /\ tick[p][t].pc = "idle"
    /\ boot[p] # "down"
    /\ readiness[p].ready
    /\ ~isRunning[p]
    /\ tick' = [tick EXCEPT ![p][t].pc = "locking"]
    /\ UNCHANGED <<planeVars, job, rows, diff, checking, isRunning, activeJobs, calls, disturbed>>

(* acquireWorkerLock on any session; isRunning is set after the answer      *)
TickLock(p, t) ==
    /\ tick[p][t].pc = "locking"
    /\ \E s \in SessionsOf[p] :
         \/ /\ CanLock("worker", s) /\ held["worker"][s] < MaxHolds
            /\ held' = Acquired("worker", s)
            /\ isRunning' = [isRunning EXCEPT ![p] = TRUE]
            /\ tick' = [tick EXCEPT ![p][t].pc = "listing"]
         \/ /\ ~CanLock("worker", s)
            /\ tick' = [tick EXCEPT ![p][t].pc = "idle"]
            /\ UNCHANGED <<held, isRunning>>
    /\ UNCHANGED <<focus, database, pending, reaped, boot, failed, readiness, cli, analyses,
                   cache, newest, spent, job, rows, diff, checking, activeJobs, calls, disturbed>>

(* getGlobalRunningJobsCount, and the oldest pending jobs that fit, by their *)
(* positions in JobIds                                                      *)
GetPendingJobs ==
    LET running == Cardinality({j \in Jobs : job[j].status = "PROCESSING"})
        slots == IF running >= MaxConcurrent THEN 0 ELSE MaxConcurrent - running
        waiting == {k \in DOMAIN JobIds : job[JobIds[k]].status = "PENDING"}
    IN  {k \in waiting : Cardinality({i \in waiting : i < k}) < slots}

Listed(k, queue) == [k EXCEPT !.pc = "next", !.queue = queue]
TickList(p, t) ==
    /\ tick[p][t].pc = "listing"
    /\ tick' = [tick EXCEPT ![p][t] = Listed(@, GetPendingJobs)]
    /\ UNCHANGED <<planeVars, job, rows, diff, checking, isRunning, activeJobs, calls, disturbed>>

(* claimJob: one UPDATE ... WHERE status = 'PENDING'                        *)
ClaimJob_Unchecked(j) == TRUE
ClaimJob(j) == job[j].status = "PENDING"

(* the job the loop over the list comes to                                  *)
Oldest(k, queue) == k \in queue /\ \A i \in queue : k <= i

Skip(p, t) ==
    /\ tick[p][t].pc = "next"
    /\ \E k \in tick[p][t].queue :
         /\ Oldest(k, tick[p][t].queue)
         /\ JobIds[k] \in activeJobs[p] \/ ~ClaimJob(JobIds[k])
         /\ tick' = [tick EXCEPT ![p][t].queue = @ \ {k}]
    /\ UNCHANGED <<planeVars, job, rows, diff, checking, isRunning, activeJobs, calls, disturbed>>

(* the tick goes on with the entity it listed *)
Claimed(k, i) ==
    [k EXCEPT !.pc = "starting", !.queue = @ \ {i}, !.job = JobIds[i], !.entity = job[JobIds[i]]]

Claim(p, t) ==
    /\ tick[p][t].pc = "next"
    /\ \E k \in tick[p][t].queue :
         LET j == JobIds[k]
         IN  /\ Oldest(k, tick[p][t].queue)
             /\ j \notin activeJobs[p] /\ ClaimJob(j)
             /\ job' = [job EXCEPT ![j] = MarkAsStarted(@)]
             /\ activeJobs' = [activeJobs EXCEPT ![p] = @ \cup {j}]
             /\ tick' = [tick EXCEPT ![p][t] = Claimed(@, k)]
    /\ UNCHANGED <<planeVars, rows, diff, checking, isRunning, calls, disturbed>>

(* processJobInBatches: markAsStarted saves the entity the tick listed      *)
StartJob(p, t) ==
    /\ tick[p][t].pc = "starting"
    /\ LET e == MarkAsStarted(tick[p][t].entity)
       IN  /\ job' = [job EXCEPT ![tick[p][t].job] = e]
           /\ tick' = [tick EXCEPT ![p][t] = [@ EXCEPT !.pc = "batches", !.entity = e,
                         !.processed = e.processed, !.last = e.last, !.retries = 0, !.batches = 0]]
    /\ UNCHANGED <<planeVars, rows, diff, checking, isRunning, activeJobs, calls, disturbed>>

(* the loop ends with a save of the entity; the job leaves activeJobs       *)
Finish(p, t, e) ==
    /\ job' = [job EXCEPT ![tick[p][t].job] = e]
    /\ activeJobs' = [activeJobs EXCEPT ![p] = @ \ {tick[p][t].job}]
    /\ tick' = [tick EXCEPT ![p][t] = [IdleTick EXCEPT !.pc = "next", !.queue = tick[p][t].queue]]

Unfinished(p, t) ==
    /\ tick[p][t].pc = "batches"
    /\ tick[p][t].processed < tick[p][t].entity.total

JobTimeout(p, t) ==
    /\ Unfinished(p, t)
    /\ Finish(p, t, MarkAsFailed(tick[p][t].entity))
    /\ UNCHANGED <<planeVars, rows, diff, checking, isRunning, calls, disturbed>>

(* the ids one batch converts; a cursor that is NULL compares with no id    *)
BatchIds(j, last, size) ==
    LET after == {i \in DOMAIN rows[j] : rows[j][i] # "absent" /\ last # NULL /\ i > last}
    IN  {i \in after : Cardinality({k \in after : k < i}) < size}

(* `SET ${sqlStatement}` is SQL only for a bare assignment, and the cursor  *)
(* starts at 0, which is not a uuid                                         *)
BatchRuns(j, last) == Kind[j].sql = "assignment" /\ (Kind[j].ids = "integer" \/ last = NULL)

(* the query of an UPDATE answers the pair of its rows and their number, of *)
(* which the code takes the length and the id of the last element           *)
BatchLength == 2
BatchLastId == NULL

Batch(p, t) ==
    /\ Unfinished(p, t)
    /\ LET k == tick[p][t]
           j == k.job
           processed == k.processed + BatchLength
           e == UpdateProgress(k.entity, processed, BatchLastId)
           save == (k.batches + 1) % SaveEvery = 0
       IN  /\ BatchRuns(j, k.last)
           /\ \E size \in BatchSizes :
                rows' = [rows EXCEPT ![j] = [i \in DOMAIN @ |->
                           IF i \in BatchIds(j, k.last, size) THEN "new" ELSE @[i]]]
           /\ job' = [job EXCEPT ![j] = IF save THEN e ELSE @]
           /\ tick' = [tick EXCEPT ![p][t] = [k EXCEPT !.processed = processed,
                         !.last = BatchLastId, !.retries = 0,
                         !.batches = (k.batches + 1) % SaveEvery,
                         !.entity = IF save THEN e ELSE k.entity]]
    /\ UNCHANGED <<planeVars, diff, checking, isRunning, activeJobs, calls, disturbed>>

(* a batch the database refuses, or any that fails                          *)
BatchFails(p, t) ==
    /\ Unfinished(p, t)
    /\ IF tick[p][t].retries + 1 > MaxRetries
       THEN Finish(p, t, MarkAsFailed(tick[p][t].entity))
       ELSE /\ tick' = [tick EXCEPT ![p][t].retries = @ + 1,
                                    ![p][t].batches = (@ + 1) % SaveEvery]
            /\ UNCHANGED <<job, activeJobs>>
    /\ UNCHANGED <<planeVars, rows, diff, checking, isRunning, calls, disturbed>>

CompleteJob(p, t) ==
    /\ tick[p][t].pc = "batches" /\ ~Unfinished(p, t)
    /\ Finish(p, t, MarkAsCompleted(
                 UpdateProgress(tick[p][t].entity, tick[p][t].processed, tick[p][t].last)))
    /\ UNCHANGED <<planeVars, rows, diff, checking, isRunning, calls, disturbed>>

TickEnd(p, t) ==
    /\ tick[p][t].pc = "next" /\ tick[p][t].queue = {}
    /\ isRunning' = [isRunning EXCEPT ![p] = FALSE]
    /\ tick' = [tick EXCEPT ![p][t].pc = "unlocking"]
    /\ UNCHANGED <<planeVars, job, rows, diff, checking, activeJobs, calls, disturbed>>

(* releaseWorkerLock: the unlock goes to any session                        *)
TickUnlock(p, t) ==
    /\ tick[p][t].pc = "unlocking"
    /\ \E s \in SessionsOf[p] : held' = Released("worker", s)
    /\ tick' = [tick EXCEPT ![p][t].pc = "idle"]
    /\ UNCHANGED <<focus, database, pending, reaped, boot, failed, readiness, cli, analyses,
                   cache, newest, spent, job, rows, diff, checking, isRunning, activeJobs, calls, disturbed>>

-----------------------------------------------------------------------------
(* The operator, and the writers of the table.                              *)

OnIt(j) == {w \in Pods \X Ticks : tick[w[1]][w[2]].job = j}

Operate ==
    /\ spent.operations < MaxOperations
    /\ spent' = [spent EXCEPT !.operations = @ + 1]
    /\ UNCHANGED <<focus, database, pending, held, reaped, boot, failed, readiness, cli,
                   analyses, cache, newest, isRunning, tick>>

(* retryJob and cancelJob find the row and look at it ...                   *)
Called(p, j, op, row) ==
    calls' = calls \cup {[id |-> spent'.operations, pod |-> p, job |-> j, op |-> op, row |-> row]}
RetryJob(p, j) ==
    /\ boot[p] = "up" /\ CanRetry(job[j])
    /\ Operate
    /\ Called(p, j, "retry", NewJob(job[j].total))
    /\ UNCHANGED <<job, rows, diff, checking, activeJobs, disturbed>>
CancelJob(p, j) ==
    /\ boot[p] = "up" /\ job[j].status # "COMPLETED"
    /\ Operate
    /\ Called(p, j, "cancel", [job[j] EXCEPT !.status = "FAILED", !.error = TRUE])
    /\ UNCHANGED <<job, rows, diff, checking, activeJobs, disturbed>>

(* ... save all of it later, whatever the row says by then ...              *)
SaveCall(c) ==
    /\ c.op \in {"retry", "cancel"}
    /\ job' = [job EXCEPT ![c.job] = c.row]
    /\ disturbed' = IF OnIt(c.job) # {} THEN disturbed \cup {c.job} ELSE disturbed
    /\ calls' = (calls \ {c}) \cup (IF c.op = "cancel" THEN {[c EXCEPT !.op = "forget"]} ELSE {})
    /\ UNCHANGED <<planeVars, rows, diff, checking, isRunning, activeJobs, tick>>
(* ... and a cancelled job leaves activeJobs of the pod that was asked      *)
ForgetJob(c) ==
    /\ c.op = "forget"
    /\ activeJobs' = [activeJobs EXCEPT ![c.pod] = @ \ {c.job}]
    /\ calls' = calls \ {c}
    /\ UNCHANGED <<planeVars, job, rows, diff, checking, isRunning, tick, disturbed>>

(* an old release writes a row that still needs the conversion              *)
InsertRow(j) ==
    /\ Operate
    /\ \E i \in DOMAIN rows[j] :
         /\ rows[j][i] = "absent" /\ \A k \in DOMAIN rows[j] : k < i => rows[j][k] # "absent"
         /\ rows' = [rows EXCEPT ![j][i] =
                       IF checking[j] \/ diff[j].readiness # "PENDING" THEN "late" ELSE "old"]
    /\ UNCHANGED <<job, diff, checking, activeJobs, calls, disturbed>>

-----------------------------------------------------------------------------
(* Migration readiness.                                                     *)

(* validateColumnData: no row without a valid value; seeded fault: the      *)
(* counters of the job are trusted                                          *)
ValidateColumnData_Trusted(j) == TRUE
ValidateColumnData(j) == \A i \in DOMAIN rows[j] : rows[j][i] \in {"absent", "new"}

(* validateBackfillCompletion: the column is taken from an UPDATE statement *)
ValidateBackfillCompletion(j) ==
    /\ job[j].processed >= job[j].total
    /\ ~job[j].error
    /\ Kind[j].sql = "update"
    /\ ValidateColumnData(j)

(* checkReadiness, called by every schema status: it validates ...          *)
CheckReadiness(p, j) ==
    /\ boot[p] = "up" /\ ~checking[j]
    /\ diff[j].status # "MIGRATED"
    /\ ~(diff[j].readiness = "READY_FOR_MIGRATION" /\ diff[j].validation = "PASSED")
    /\ job[j].status = "COMPLETED"
    /\ ValidateBackfillCompletion(j)
    /\ checking' = [checking EXCEPT ![j] = TRUE]
    /\ UNCHANGED <<planeVars, job, rows, diff, isRunning, activeJobs, tick, calls, disturbed>>

(* ... and marks the difference with a later query                          *)
MarkReady(j) ==
    /\ checking[j]
    /\ checking' = [checking EXCEPT ![j] = FALSE]
    /\ diff' = [diff EXCEPT ![j].readiness = "READY_FOR_MIGRATION", ![j].validation = "PASSED"]
    /\ UNCHANGED <<planeVars, job, rows, isRunning, activeJobs, tick, calls, disturbed>>

MarkAsMigrated(j) ==
    /\ diff[j].readiness = "READY_FOR_MIGRATION"
    /\ diff' = [diff EXCEPT ![j] = [status |-> "MIGRATED", readiness |-> "MIGRATED",
                                    validation |-> "PASSED"]]
    /\ UNCHANGED <<planeVars, job, rows, checking, isRunning, activeJobs, tick, calls, disturbed>>

-----------------------------------------------------------------------------
(* Faults.                                                                  *)

Converging(p) == boot[p] \in {"converging", "releasing"}
Working(p, t) == tick[p][t].pc \notin {"idle", "locking"}

UsedBy(p) == (IF Converging(p) THEN {"schema"} ELSE {}) \cup
             (IF \E t \in Ticks : Working(p, t) THEN {"worker"} ELSE {})

(* the pool closes a session that was idle for 30 seconds                   *)
Reap(s) ==
    /\ spent.faults < MaxFaults
    /\ \E l \in Locks : held[l][s] > 0
    /\ spent' = [spent EXCEPT !.faults = @ + 1]
    /\ held' = Dropped({s})
    /\ reaped' = reaped \cup {l \in UsedBy(PodOf(s)) : held[l][s] > 0}
    /\ UNCHANGED <<focus, database, pending, boot, failed, readiness, cli, analyses, cache,
                   newest, jobVars>>

Crash(p) ==
    /\ boot[p] # "down"
    /\ spent.faults < MaxFaults
    /\ spent' = [spent EXCEPT !.faults = @ + 1]
    /\ Exit(p)
    /\ isRunning' = [isRunning EXCEPT ![p] = FALSE]
    /\ activeJobs' = [activeJobs EXCEPT ![p] = {}]
    /\ tick' = [tick EXCEPT ![p] = [t \in Ticks |-> IdleTick]]
    /\ calls' = {c \in calls : c.pod # p}
    /\ UNCHANGED <<focus, database, pending, reaped, failed, cli, job, rows, diff, checking,
                   disturbed>>

-----------------------------------------------------------------------------
(* Three kinds of behaviour: pods that boot beside a migration, pods that   *)
(* are up and work on jobs, and one pod whose schema is analysed.           *)

UpReadiness == AfterListen(BeforeListen(FreshReadiness))

Init ==
    /\ focus \in {"boot", "jobs", "drift"}
    /\ IF focus = "jobs" THEN database = Entities ELSE database \in Possible(focus)
    /\ pending = FALSE
    /\ held = [l \in Locks |-> [s \in Sessions \cup {CliSession} |-> 0]]
    /\ reaped = {}
    /\ boot = [p \in Pods |-> IF focus = "boot" THEN "down" ELSE "up"]
    /\ failed = [p \in Pods |-> FALSE]
    /\ readiness = [p \in Pods |-> IF focus = "boot" THEN FreshReadiness ELSE UpReadiness]
    /\ cli = "idle"
    /\ analyses = [p \in Pods |-> {}]
    /\ cache = [p \in Pods |-> FreshCache]
    /\ newest = [p \in Pods |-> [seq |-> 0, drift |-> FALSE]]
    /\ spent = [faults |-> 0, analyses |-> 0, migrations |-> 0, operations |-> 0]
    /\ IF focus = "jobs"
       THEN \E w \in Workloads : /\ job = [j \in Jobs |-> IF j \in w.pending THEN NewJob(w.total[j])
                                                       ELSE MarkAsCompleted(NewJob(0))]
                                 /\ rows = w.rows
       ELSE /\ job = [j \in Jobs |-> MarkAsCompleted(NewJob(0))]
            /\ rows = [j \in Jobs |-> <<>>]
    /\ diff = [j \in Jobs |-> [status |-> "BACKFILLING", readiness |-> "PENDING", validation |-> "PENDING"]]
    /\ checking = [j \in Jobs |-> FALSE]
    /\ isRunning = [p \in Pods |-> FALSE]
    /\ activeJobs = [p \in Pods |-> {}]
    /\ tick = [p \in Pods |-> [t \in Ticks |-> IdleTick]]
    /\ calls = {} /\ disturbed = {}

BootNext ==
    /\ UNCHANGED jobVars
    /\ \/ CliStart \/ CliLock \/ CliMigrate
       \/ \E p \in Pods : \/ BootProcess(p) \/ CheckConnection(p) \/ ConvergeLock(p)
                          \/ ConvergeDiff(p) \/ ConvergeRelease(p) \/ ConvergeThrew(p)
                          \/ ValidateCriticalSchema(p) \/ Listen(p)

DriftNext ==
    /\ UNCHANGED jobVars
    /\ \/ CliStart \/ CliLock \/ CliMigrate
       \/ \E p \in Watched : \/ StartAnalysis(p) \/ CheckFullDrift(p) \/ EndAnalysis(p)
                             \/ CacheExpires(p)

TickNext ==
    \E p \in Pods : \E t \in TicksOf[p] :
        \/ TickStart(p, t) \/ TickLock(p, t) \/ TickList(p, t) \/ TickEnd(p, t) \/ TickUnlock(p, t)

JobNext ==
    \/ \E p \in Pods : \E t \in TicksOf[p] :
         \/ Skip(p, t) \/ Claim(p, t) \/ StartJob(p, t) \/ JobTimeout(p, t)
         \/ Batch(p, t) \/ BatchFails(p, t) \/ CompleteJob(p, t)
    \/ \E j \in Jobs : \/ InsertRow(j) \/ MarkReady(j) \/ MarkAsMigrated(j)
                       \/ \E p \in Pods : CheckReadiness(p, j)
                       \/ \E p \in Asked : RetryJob(p, j) \/ CancelJob(p, j)
    \/ \E c \in calls : SaveCall(c) \/ ForgetJob(c)

Next ==
    \/ focus = "boot" /\ (BootNext \/ \E p \in Pods : \E t \in TicksOf[p] : TickStart(p, t))
    \/ focus = "drift" /\ DriftNext
    \/ focus = "jobs" /\ (TickNext \/ JobNext)
    \/ focus # "drift" /\ (\E s \in Sessions : Reap(s))
    \/ \E p \in Pods : Crash(p)

Spec == Init /\ [][Next]_vars

-----------------------------------------------------------------------------
(* Two pods are never in their backfill ticks together, nor two converging, *)
(* nor one converging beside the migration CLI, unless a pool closed the    *)
(* session of a lock in use: an unlock that misses its session leaks a lock *)
(* and never frees one that is in use.                                      *)
LocksExclude ==
    /\ "worker" \in reaped \/
         \A p, q \in Pods : (\E t, u \in Ticks : Working(p, t) /\ Working(q, u)) => p = q
    /\ "schema" \in reaped \/
         \A p \in Pods : Converging(p) =>
             cli # "migrating" /\ \A q \in Pods \ {p} : ~Converging(q)

(* At most one loop converts the rows of a job, over overlapping ticks of a *)
(* pod, two pods whose lock was lost, and retries: only a job whose row a   *)
(* cancel, or a late one of two retries, saved under a running loop can get *)
(* a second one (claimJob, cancelJob, retryJob).                            *)
OneLoopPerJob == \A j \in Jobs \ disturbed : Cardinality(OnIt(j)) <= 1

(* A difference is released for migration only when every row there was at  *)
(* its validation carries a converted value, whatever the job counted, and  *)
(* however rows and retries fell around it (checkReadiness).                *)
ReadyWasConverted ==
    \A j \in Jobs : diff[j].readiness # "PENDING" =>
        \A i \in DOMAIN rows[j] : rows[j][i] # "old"

(* While its report is fresh, a schema status is not HEALTHY if the newest  *)
(* of the analyses that ended found the database at odds with the entities  *)
(* or a migration missing: an older analysis cannot overwrite a newer one   *)
(* (runBackgroundDriftAnalysis, DriftCacheService.get, getSchemaStatus).    *)
DriftIsReported ==
    \A p \in Pods : cache[p].fresh /\ newest[p].drift => SchemaStatus(p, FALSE) # "HEALTHY"
=============================================================================
