------------------------------- MODULE Outbox -------------------------------
(***************************************************************************)
(* The transactional outbox: the outbox table, the cron-driven workers      *)
(* that claim and process its rows, and the dead-letter retriers.           *)
(*                                                                          *)
(* A worker here is one running invocation of OutboxWorker.process(): the   *)
(* cron fires every five seconds and does not wait for the previous run, so *)
(* two members of Workers are two processes or two overlapping ticks of     *)
(* one.  A retrier is one running call of DeadLetterService.retryEvent      *)
(* (the hourly cron or the admin endpoint).                                 *)
(*                                                                          *)
(* Time is abstracted to the three questions the SQL asks of it: has the    *)
(* lock outlived LOCK_TIMEOUT_SECONDS (stale), has next_retry_at passed     *)
(* (due), and in which order were the rows created (the order of ids).      *)
(***************************************************************************)
EXTENDS Naturals, FiniteSets

CONSTANTS
  Keys,        \* idempotency keys
  MaxEvents,   \* bound: rows ever inserted
  Workers,     \* concurrent invocations of OutboxWorker.process()
  Retriers,    \* concurrent calls of DeadLetterService.retryEvent()
  NoWorker,    \* locked_by IS NULL
  NoKey,       \* the key of a row that was never inserted
  MaxRetries,  \* OutboxWorker.MAX_RETRIES (10 in the code)
  BatchSize,   \* what AdaptiveBatchService answers
  MaxRevivals, \* bound: dead-letter retries of a row past MaxRetries
  MaxFaults    \* bound: crashes and failed database writes

ASSUME MaxEventsAssumption  == MaxEvents \in Nat
ASSUME MaxRetriesAssumption == MaxRetries \in Nat \ {0}
ASSUME BatchSizeAssumption  == BatchSize \in Nat \ {0}
ASSUME MaxRevivalsAssumption == MaxRevivals \in Nat
ASSUME MaxFaultsAssumption  == MaxFaults \in Nat
ASSUME NullAssumption       == NoWorker \notin Workers /\ NoKey \notin Keys

VARIABLES
  status,      \* outbox.status of each row, "ABSENT" before the INSERT
  key,         \* outbox.idempotency_key
  retryCount,  \* outbox.retry_count
  lockedBy,    \* outbox.locked_by (and locked_at: both are set and cleared together)
  stale,       \* rows whose locked_at is older than LOCK_TIMEOUT_SECONDS
  due,         \* rows whose next_retry_at is NULL or has passed
  nextId,      \* the primary key sequence
  pc,          \* where each worker's process() stands
  task,        \* task[w][i]: how far worker w is with row i
  snap,        \* snap[w][i]: the retry_count in the row as w claimed it
  retry,       \* the state of each dead-letter retry
  handled,     \* history: rows whose handler has succeeded at least once
  disturbed,   \* history: rows whose claim was taken from its owner
  faults       \* faults so far

rowVars    == <<status, key, retryCount, lockedBy, stale, due, nextId>>
workerVars == <<pc, task, snap>>
vars       == <<rowVars, workerVars, retry, handled, disturbed, faults>>

Ids      == 1..MaxEvents
Statuses == {"ABSENT", "PENDING", "PROCESSING", "COMPLETED", "FAILED"}
Phases   == {"none", "handling", "handled", "erred", "structural"}

RetryStates == [phase : {"idle", "found", "handling", "handled", "erred"},
                id : Ids \cup {0}, snap : Nat]
IdleRetry   == [phase |-> "idle", id |-> 0, snap |-> 0]

TypeOK ==
  /\ status \in [Ids -> Statuses]
  /\ key \in [Ids -> Keys \cup {NoKey}]
  /\ retryCount \in [Ids -> Nat]
  /\ lockedBy \in [Ids -> Workers \cup {NoWorker}]
  /\ stale \in SUBSET Ids
  /\ due \in SUBSET Ids
  /\ nextId \in 1..(MaxEvents + 1)
  /\ pc \in [Workers -> {"idle", "released", "running"}]
  /\ task \in [Workers -> [Ids -> Phases]]
  /\ snap \in [Workers -> [Ids -> Nat]]
  /\ retry \in [Retriers -> RetryStates]
  /\ handled \in SUBSET Ids
  /\ disturbed \in SUBSET Ids
  /\ faults \in 0..MaxFaults

Init ==
  /\ status = [i \in Ids |-> "ABSENT"]
  /\ key = [i \in Ids |-> NoKey]
  /\ retryCount = [i \in Ids |-> 0]
  /\ lockedBy = [i \in Ids |-> NoWorker]
  /\ stale = {}
  /\ due = {}
  /\ nextId = 1
  /\ pc = [w \in Workers |-> "idle"]
  /\ task = [w \in Workers |-> [i \in Ids |-> "none"]]
  /\ snap = [w \in Workers |-> [i \in Ids |-> 0]]
  /\ retry = [r \in Retriers |-> IdleRetry]
  /\ handled = {}
  /\ disturbed = {}
  /\ faults = 0

-----------------------------------------------------------------------------
(* Publishing, and the passage of time.                                     *)

Hot(i) == status[i] # "ABSENT"

(* OutboxService.publish: skipped when a hot row already has the key (the   *)
(* unique index makes check and insert one step).                           *)
Publish(k) ==
  /\ nextId \in Ids
  /\ ~ \E i \in Ids : Hot(i) /\ key[i] = k
  /\ status' = [status EXCEPT ![nextId] = "PENDING"]
  /\ key' = [key EXCEPT ![nextId] = k]
  /\ due' = due \cup {nextId}
  /\ nextId' = nextId + 1
  /\ UNCHANGED <<retryCount, lockedBy, stale, workerVars, retry, handled,
                 disturbed, faults>>

(* LOCK_TIMEOUT_SECONDS pass while row i is locked.                         *)
LockTimesOut(i) ==
  /\ status[i] = "PROCESSING"
  /\ i \notin stale
  /\ stale' = stale \cup {i}
  /\ UNCHANGED <<status, key, retryCount, lockedBy, due, nextId, workerVars,
                 retry, handled, disturbed, faults>>

(* next_retry_at of row i passes.                                           *)
BackoffElapses(i) ==
  /\ Hot(i)
  /\ i \notin due
  /\ due' = due \cup {i}
  /\ UNCHANGED <<status, key, retryCount, lockedBy, stale, nextId, workerVars,
                 retry, handled, disturbed, faults>>

-----------------------------------------------------------------------------
(* The worker: process() = releaseStaleLocks, claimBatch, then each claimed *)
(* row on its own.                                                          *)

(* The rows the UPDATE of releaseStaleLocks matches.                        *)
StaleLocks == {i \in Ids : status[i] = "PROCESSING" /\ i \in stale}

ReleaseStaleLocks(w) ==
  /\ pc[w] = "idle"
  /\ status' = [i \in Ids |-> IF i \in StaleLocks THEN "PENDING" ELSE status[i]]
  /\ lockedBy' = [i \in Ids |-> IF i \in StaleLocks THEN NoWorker ELSE lockedBy[i]]
  /\ stale' = stale \ StaleLocks
  /\ disturbed' = disturbed \cup StaleLocks
  /\ pc' = [pc EXCEPT ![w] = "released"]
  /\ UNCHANGED <<key, retryCount, due, nextId, task, snap, retry, handled, faults>>

\* seeded fault: the SELECT forgets status = 'PENDING'
Claimable_AnyStatus == {i \in Ids : Hot(i) /\ i \in due /\ lockedBy[i] = NoWorker}

\* seeded fault: the SELECT forgets that locked rows are taken
Claimable_Locked == {i \in Ids : status[i] \in {"PENDING", "PROCESSING"} /\ i \in due}

Claimable == {i \in Ids : status[i] = "PENDING" /\ i \in due /\ lockedBy[i] = NoWorker}

(* ORDER BY created_at LIMIT BatchSize: publish never sets the priority.    *)
IsBatch(S) ==
  /\ S \subseteq Claimable
  /\ Cardinality(S) <= BatchSize
  /\ S # Claimable => Cardinality(S) = BatchSize
  /\ \A i \in S, j \in Claimable \ S : i < j

(* What the batch keeps of a claimed row; no row lacks an id or a type.     *)
toOutboxEvent(i) == retryCount[i]

ClaimBatch(w) ==
  /\ pc[w] = "released"
  /\ \E S \in SUBSET Ids :
       /\ IsBatch(S)
       /\ status' = [i \in Ids |-> IF i \in S THEN "PROCESSING" ELSE status[i]]
       /\ lockedBy' = [i \in Ids |-> IF i \in S THEN w ELSE lockedBy[i]]
       /\ stale' = stale \ S
       /\ task' = [task EXCEPT ![w] = [i \in Ids |-> IF i \in S THEN "handling" ELSE "none"]]
       /\ snap' = [snap EXCEPT ![w] = [i \in Ids |-> IF i \in S THEN toOutboxEvent(i) ELSE 0]]
       /\ pc' = [pc EXCEPT ![w] = IF S = {} THEN "idle" ELSE "running"]
  /\ UNCHANGED <<key, retryCount, due, nextId, retry, handled, disturbed, faults>>

(* SET locked_at = NULL, locked_by = NULL WHERE id = i.                     *)
ClearLock_Forgotten(i) == UNCHANGED <<lockedBy, stale>>   \* seeded fault

ClearLock(i) ==
  /\ lockedBy' = [lockedBy EXCEPT ![i] = NoWorker]
  /\ stale' = stale \ {i}

(* The end of worker w's work on row i; the last one lets process() return. *)
TaskEnds(w, i) ==
  /\ task' = [task EXCEPT ![w][i] = "none"]
  /\ snap' = [snap EXCEPT ![w][i] = 0]
  /\ pc' = [pc EXCEPT ![w] =
              IF \A j \in Ids \ {i} : task[w][j] = "none" THEN "idle" ELSE "running"]

(* outboxService.handle(event) resolves.                                    *)
HandleSucceeds(w, i) ==
  /\ task[w][i] = "handling"
  /\ task' = [task EXCEPT ![w][i] = "handled"]
  /\ handled' = handled \cup {i}
  /\ UNCHANGED <<rowVars, pc, snap, retry, disturbed, faults>>

(* handle rejects: an error worth a retry, or a structural one.             *)
HandleFails_Swallowed(w, i) ==   \* seeded fault: the rejection is not noticed
  /\ task[w][i] = "handling"
  /\ task' = [task EXCEPT ![w][i] = "handled"]
  /\ UNCHANGED <<rowVars, pc, snap, retry, handled, disturbed, faults>>

HandleFails(w, i) ==
  /\ task[w][i] = "handling"
  /\ \E p \in {"erred", "structural"} : task' = [task EXCEPT ![w][i] = p]
  /\ UNCHANGED <<rowVars, pc, snap, retry, handled, disturbed, faults>>

(* UPDATE ... WHERE id = i: no effect once the row is gone.                 *)
MarkCompleted(w, i) ==
  /\ task[w][i] = "handled"
  /\ status' = [status EXCEPT ![i] = IF Hot(i) THEN "COMPLETED" ELSE @]
  /\ ClearLock(i)
  /\ TaskEnds(w, i)
  /\ UNCHANGED <<key, retryCount, due, nextId, retry, handled, disturbed, faults>>

(* The UPDATE of markCompleted throws, inside the try of processSingle.     *)
MarkCompletedThrows(w, i) ==
  /\ task[w][i] = "handled"
  /\ faults < MaxFaults
  /\ faults' = faults + 1
  /\ task' = [task EXCEPT ![w][i] = "erred"]
  /\ UNCHANGED <<rowVars, pc, snap, retry, handled, disturbed>>

(* handleFailure: the count comes from the row as it was claimed.           *)
FailedCount_NotCounted(w, i) ==   \* seeded fault: retry_count is not incremented
  IF task[w][i] = "structural" THEN MaxRetries ELSE snap[w][i]

FailedCount(w, i) ==
  IF task[w][i] = "structural" THEN MaxRetries ELSE snap[w][i] + 1

Exhausted(n) == n >= MaxRetries

HandleFailure(w, i) ==
  /\ task[w][i] \in {"erred", "structural"}
  /\ LET n == FailedCount(w, i)
     IN /\ status' = [status EXCEPT ![i] =
                        IF ~ Hot(i) THEN @
                        ELSE IF Exhausted(n) THEN "FAILED" ELSE "PENDING"]
        /\ retryCount' = [retryCount EXCEPT ![i] = IF Hot(i) THEN n ELSE @]
        /\ due' = IF Exhausted(n) THEN due ELSE due \ {i}
  /\ ClearLock(i)
  /\ TaskEnds(w, i)
  /\ UNCHANGED <<key, nextId, retry, handled, disturbed, faults>>

(* The UPDATE of handleFailure throws: the row keeps its lock.              *)
HandleFailureThrows(w, i) ==
  /\ task[w][i] \in {"erred", "structural"}
  /\ faults < MaxFaults
  /\ faults' = faults + 1
  /\ TaskEnds(w, i)
  /\ UNCHANGED <<rowVars, retry, handled, disturbed>>

(* The process dies, or forceShutdown gives up waiting for it.              *)
Crash(w) ==
  /\ pc[w] # "idle"
  /\ faults < MaxFaults
  /\ faults' = faults + 1
  /\ pc' = [pc EXCEPT ![w] = "idle"]
  /\ task' = [task EXCEPT ![w] = [i \in Ids |-> "none"]]
  /\ snap' = [snap EXCEPT ![w] = [i \in Ids |-> 0]]
  /\ UNCHANGED <<rowVars, retry, handled, disturbed>>

-----------------------------------------------------------------------------
(* DeadLetterService.retryEvent: no transaction around its steps.           *)

RetryFind(r, i) ==
  /\ retry[r].phase = "idle"
  /\ status[i] = "FAILED"
  /\ retryCount[i] < MaxRetries + MaxRevivals
  /\ retry' = [retry EXCEPT ![r] = [phase |-> "found", id |-> i, snap |-> retryCount[i]]]
  /\ UNCHANGED <<rowVars, workerVars, handled, disturbed, faults>>

(* UPDATE to PENDING; next_retry_at, locked_at and locked_by stay.          *)
RetryReset(r) ==
  /\ retry[r].phase = "found"
  /\ LET i == retry[r].id
     IN /\ status' = [status EXCEPT ![i] = IF Hot(i) THEN "PENDING" ELSE @]
        /\ retryCount' = [retryCount EXCEPT ![i] =
                            IF Hot(i) THEN retry[r].snap + 1 ELSE @]
        /\ disturbed' = disturbed \cup {i}
  /\ retry' = [retry EXCEPT ![r].phase = "handling"]
  /\ UNCHANGED <<key, lockedBy, stale, due, nextId, workerVars, handled, faults>>

RetryHandled_Swallowed(r) ==   \* seeded fault: handle is not awaited
  /\ retry[r].phase = "handling"
  /\ retry' = [retry EXCEPT ![r].phase = "handled"]
  /\ UNCHANGED <<rowVars, workerVars, handled, disturbed, faults>>

RetryHandled(r) ==
  /\ retry[r].phase = "handling"
  /\ \/ /\ retry' = [retry EXCEPT ![r].phase = "handled"]
        /\ handled' = handled \cup {retry[r].id}
     \/ /\ retry' = [retry EXCEPT ![r].phase = "erred"]
        /\ UNCHANGED handled
  /\ UNCHANGED <<rowVars, workerVars, disturbed, faults>>

RetryCompletes(r) ==
  /\ retry[r].phase = "handled"
  /\ LET i == retry[r].id
     IN status' = [status EXCEPT ![i] = IF Hot(i) THEN "COMPLETED" ELSE @]
  /\ retry' = [retry EXCEPT ![r] = IdleRetry]
  /\ UNCHANGED <<key, retryCount, lockedBy, stale, due, nextId, workerVars,
                 handled, disturbed, faults>>

RetryFails_CountLost(r) ==   \* seeded fault: the retry starts counting afresh
  /\ retry[r].phase = "erred"
  /\ LET i == retry[r].id
     IN /\ status' = [status EXCEPT ![i] = IF Hot(i) THEN "FAILED" ELSE @]
        /\ retryCount' = [retryCount EXCEPT ![i] = 1]
  /\ retry' = [retry EXCEPT ![r] = IdleRetry]
  /\ UNCHANGED <<key, lockedBy, stale, due, nextId, workerVars, handled,
                 disturbed, faults>>

RetryFails(r) ==
  /\ retry[r].phase = "erred"
  /\ LET i == retry[r].id
     IN /\ status' = [status EXCEPT ![i] = IF Hot(i) THEN "FAILED" ELSE @]
        /\ retryCount' = [retryCount EXCEPT ![i] =
                            IF Hot(i) THEN retry[r].snap + 1 ELSE @]
  /\ retry' = [retry EXCEPT ![r] = IdleRetry]
  /\ UNCHANGED <<key, lockedBy, stale, due, nextId, workerVars, handled,
                 disturbed, faults>>

(* One of its UPDATEs throws: the catch branch goes on to record a failure. *)
RetryWriteThrows(r) ==
  /\ retry[r].phase \in {"found", "handled"}
  /\ faults < MaxFaults
  /\ faults' = faults + 1
  /\ retry' = [retry EXCEPT ![r].phase = "erred"]
  /\ UNCHANGED <<rowVars, workerVars, handled, disturbed>>

(* The process running the retry dies between two of its steps.             *)
RetryCrashes(r) ==
  /\ retry[r].phase # "idle"
  /\ faults < MaxFaults
  /\ faults' = faults + 1
  /\ retry' = [retry EXCEPT ![r] = IdleRetry]
  /\ UNCHANGED <<rowVars, workerVars, handled, disturbed>>

-----------------------------------------------------------------------------
TaskStep(w, i) ==
  \/ HandleSucceeds(w, i) \/ HandleFails(w, i)
  \/ MarkCompleted(w, i)  \/ HandleFailure(w, i)

WorkerStep(w) ==
  \/ ReleaseStaleLocks(w)
  \/ ClaimBatch(w)
  \/ Crash(w)
  \/ \E i \in Ids : TaskStep(w, i) \/ MarkCompletedThrows(w, i) \/ HandleFailureThrows(w, i)

RetrierStep(r) ==
  \/ \E i \in Ids : RetryFind(r, i)
  \/ RetryReset(r) \/ RetryHandled(r) \/ RetryCompletes(r) \/ RetryFails(r)
  \/ RetryWriteThrows(r) \/ RetryCrashes(r)

TimePasses == \E i \in Ids : LockTimesOut(i) \/ BackoffElapses(i)

Next ==
  \/ \E k \in Keys : Publish(k)
  \/ TimePasses
  \/ \E w \in Workers : WorkerStep(w)
  \/ \E r \in Retriers : RetrierStep(r)

Spec == Init /\ [][Next]_vars

(***************************************************************************)
(* The cron keeps firing, clocks advance, and every handler settles (its    *)
(* HTTP calls have timeouts).  Nothing obliges an operator to retry a dead  *)
(* letter, but a retry that has begun runs to its end unless it crashes.    *)
(***************************************************************************)
Fairness ==
  /\ \A w \in Workers :
       /\ WF_vars(ReleaseStaleLocks(w))
       /\ WF_vars(ClaimBatch(w))
       /\ \A i \in Ids : WF_vars(TaskStep(w, i))
  /\ \A i \in Ids : WF_vars(LockTimesOut(i)) /\ WF_vars(BackoffElapses(i))
  /\ \A r \in Retriers :
       WF_vars(RetryReset(r) \/ RetryHandled(r) \/ RetryCompletes(r) \/ RetryFails(r))

FairSpec == Spec /\ Fairness

-----------------------------------------------------------------------------
(* Properties.                                                              *)

(* A row says COMPLETED only if its handler really succeeded at least once, *)
(* whoever wrote it: a worker, a late worker, or a dead-letter retry        *)
(* (outbox.worker.ts markCompleted, dead-letter.service.ts retryEvent).     *)
CompletedWasHandled ==
  \A i \in Ids : status[i] = "COMPLETED" => i \in handled

(* Only rows that used up MAX_RETRIES are in the dead-letter state, also    *)
(* when a failure is written from a stale claim or by a dead-letter retry   *)
(* (outbox.worker.ts handleFailure, dead-letter.service.ts retryEvent).     *)
FailedExhausted ==
  \A i \in Ids : status[i] = "FAILED" => retryCount[i] >= MaxRetries

(* As long as no claim on a row was taken from its owner (by the lock       *)
(* timeout or a dead-letter retry), at most one process() works on it, and  *)
(* the row is locked by that one (outbox.worker.ts claimBatch).             *)
SingleOwner ==
  \A i \in Ids \ disturbed : \A w \in Workers :
    task[w][i] # "none" =>
      /\ status[i] = "PROCESSING"
      /\ lockedBy[i] = w
      /\ \A v \in Workers \ {w} : task[v][i] = "none"

(* A row that is not finished can still be picked up: PROCESSING rows carry *)
(* the lock releaseStaleLocks looks for, PENDING rows carry none, as the    *)
(* SELECT of claimBatch demands.  Workers alone keep it.                    *)
Recoverable ==
  \A i \in Ids :
    /\ status[i] = "PROCESSING" => lockedBy[i] # NoWorker
    /\ status[i] = "PENDING" => lockedBy[i] = NoWorker

(* A completed row is never sent back to work, unless its claim was taken   *)
(* from its owner: the UPDATEs of markCompleted and handleFailure carry no  *)
(* fencing on locked_by, so this is all the protocol gives.                 *)
CompletedStays ==
  [][\A i \in Ids \ disturbed :
       status[i] = "COMPLETED" => status'[i] \in {"COMPLETED", "ABSENT"}]_vars

(* At-least-once delivery: every published row reaches COMPLETED or FAILED, *)
(* whatever crashes, lost writes and lock timeouts happen on the way        *)
(* (outbox.worker.ts process).                                              *)
EventuallySettled ==
  \A i \in Ids : status[i] = "PENDING" ~> status[i] \in {"COMPLETED", "FAILED"}

(* The rows as events of OutboxPromise.                                     *)
EventState ==
  [i \in Ids |-> CASE status[i] = "ABSENT" -> "absent"
                   [] status[i] = "COMPLETED" -> "done"
                   [] status[i] = "FAILED" -> "dead"
                   [] OTHER -> "waiting"]
Promise == INSTANCE OutboxPromise WITH state <- EventState, suspect <- disturbed

(* Workers, late workers and dead-letter retries together keep the promise: *)
(* every write any of them makes to a row (markCompleted, handleFailure,    *)
(* releaseStaleLocks, the three UPDATEs of retryEvent) is one of its steps, *)
(* with a success recorded only after one and a done event undone only      *)
(* after its claim was taken from its owner.                                *)
KeepsPromise == Promise!Spec
=============================================================================
