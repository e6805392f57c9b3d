---------------------------- MODULE WorkerProcess ----------------------------
(***************************************************************************)
(* Inside one outbox worker process: the batches of overlapping process()   *)
(* calls, the circuit breaker of one event type that their handlers share,  *)
(* and the lifecycle service that tracks events for a graceful shutdown.    *)
(*                                                                          *)
(* Which rows a batch gets is the subject of Outbox; here any set of events *)
(* may come back, one that another batch still handles (its lock timed out) *)
(* included.  JavaScript runs one step at a time up to an await.            *)
(***************************************************************************)
EXTENDS Naturals, FiniteSets

CONSTANTS
  Batches,            \* process() invocations that may overlap
  Events,             \* outbox rows of one event type
  PLimit,             \* pLimit(10)
  FailureThreshold,   \* config.failureThreshold
  HalfOpenMaxCalls    \* config.halfOpenMaxCalls

ASSUME ConfigAssumption ==
  /\ PLimit \in Nat \ {0}
  /\ FailureThreshold \in Nat \ {0}
  /\ HalfOpenMaxCalls \in Nat \ {0}

VARIABLES
  state,              \* CircuitBreakerState.state
  failures,           \* CircuitBreakerState.failures, up to the threshold
  halfOpenCallCount,  \* CircuitBreakerState.halfOpenCallCount
  cooled,             \* recoveryTimeout has passed since lastFailureTime
  healthy,            \* the downstream service answers every call from now on
  batch,              \* where each process() invocation is
  task,               \* where the event is in the batch that claimed it
  processing,         \* WorkerLifecycleService.processingEvents
  shutdown            \* how far the shutdown is

breakerVars == <<state, failures, halfOpenCallCount, cooled>>
vars == <<breakerVars, healthy, batch, task, processing, shutdown>>

CircuitStates == {"CLOSED", "OPEN", "HALF_OPEN"}
BatchPhases   == {"idle", "claiming", "running"}
TaskPhases    == {"none", "queued", "handling", "finishing"}
Shutdowns     == {"no", "waiting", "ended", "forced", "failed"}

TypeOK ==
  /\ state \in CircuitStates
  /\ failures \in 0..FailureThreshold
  /\ halfOpenCallCount \in Nat
  /\ cooled \in BOOLEAN
  /\ healthy \in BOOLEAN
  /\ batch \in [Batches -> BatchPhases]
  /\ task \in [Batches -> [Events -> TaskPhases]]
  /\ processing \in SUBSET Events
  /\ shutdown \in Shutdowns

NoTasks == [e \in Events |-> "none"]

(* lastFailureTime starts at the epoch.                                     *)
Init ==
  /\ state = "CLOSED" /\ failures = 0 /\ halfOpenCallCount = 0 /\ cooled = TRUE
  /\ healthy = FALSE
  /\ batch = [b \in Batches |-> "idle"]
  /\ task = [b \in Batches |-> NoTasks]
  /\ processing = {}
  /\ shutdown = "no"

-----------------------------------------------------------------------------
(* OutboxWorker.process.                                                    *)

BatchStarts_Always(b) ==   \* seeded fault: isShutdownRequested is not asked
  /\ batch[b] = "idle"
  /\ batch' = [batch EXCEPT ![b] = "claiming"]
  /\ UNCHANGED <<breakerVars, healthy, task, processing, shutdown>>

BatchStarts(b) ==
  /\ batch[b] = "idle"
  /\ shutdown = "no"
  /\ batch' = [batch EXCEPT ![b] = "claiming"]
  /\ UNCHANGED <<breakerVars, healthy, task, processing, shutdown>>

(* claimBatch returns; no rows, or an exception, end the invocation.        *)
BatchClaims(b, claimed) ==
  /\ batch[b] = "claiming"
  /\ batch' = [batch EXCEPT ![b] = IF claimed = {} THEN "idle" ELSE "running"]
  /\ task' = [task EXCEPT ![b] = [e \in Events |-> IF e \in claimed THEN "queued" ELSE "none"]]
  /\ UNCHANGED <<breakerVars, healthy, processing, shutdown>>

Underway(b) == {e \in Events : task[b][e] \in {"handling", "finishing"}}

(* pLimit starts a queued task as soon as a slot is free.                   *)
CanStart(b, e) == task[b][e] = "queued" /\ Cardinality(Underway(b)) < PLimit

-----------------------------------------------------------------------------
(* CircuitBreakerService.                                                   *)

Wakes_Never == FALSE   \* seeded fault: an open circuit is never tried again

(* execute meets an OPEN circuit whose recoveryTimeout has passed.          *)
Wakes == state = "OPEN" /\ cooled

StateAtEntry == IF Wakes THEN "HALF_OPEN" ELSE state
CountAtEntry == IF Wakes THEN 0 ELSE halfOpenCallCount

FailuresAtEntry_Cleared == IF Wakes THEN 0 ELSE failures   \* seeded fault: a fresh start

(* Going HALF_OPEN leaves the failures counted so far.                      *)
FailuresAtEntry == failures

Refused ==
  \/ StateAtEntry = "OPEN"
  \/ StateAtEntry = "HALF_OPEN" /\ CountAtEntry >= HalfOpenMaxCalls

(* addProcessingEvent, then execute up to the call of the handler; a        *)
(* refusal goes straight to handleFailure.                                  *)
TaskStarts(b, e) ==
  /\ CanStart(b, e)
  /\ processing' = processing \cup {e}
  /\ state' = StateAtEntry
  /\ halfOpenCallCount' = CountAtEntry
  /\ failures' = FailuresAtEntry
  /\ task' = [task EXCEPT ![b][e] = IF Refused THEN "finishing" ELSE "handling"]
  /\ UNCHANGED <<cooled, healthy, batch, shutdown>>

FailuresAfterSuccess_Zero == 0   \* seeded fault: any success clears the count

FailuresAfterSuccess == IF state = "HALF_OPEN" THEN 0 ELSE failures

(* onSuccess, whatever the state the call was admitted in.                  *)
HandlerSucceeds(b, e) ==
  /\ task[b][e] = "handling"
  /\ halfOpenCallCount' = 0
  /\ failures' = FailuresAfterSuccess
  /\ state' = IF state = "HALF_OPEN" THEN "CLOSED" ELSE state
  /\ task' = [task EXCEPT ![b][e] = "finishing"]
  /\ UNCHANGED <<cooled, healthy, batch, processing, shutdown>>

(* onFailure.  The count matters up to the threshold only.                  *)
HandlerFails(b, e) ==
  /\ task[b][e] = "handling"
  /\ ~ healthy
  /\ failures' = IF failures < FailureThreshold THEN failures + 1 ELSE failures
  /\ halfOpenCallCount' = IF state = "HALF_OPEN" THEN halfOpenCallCount + 1
                                                 ELSE halfOpenCallCount
  /\ state' = IF failures' >= FailureThreshold THEN "OPEN" ELSE state
  /\ cooled' = FALSE
  /\ task' = [task EXCEPT ![b][e] = "finishing"]
  /\ UNCHANGED <<healthy, batch, processing, shutdown>>

RecoveryTimeoutPasses ==
  /\ ~ cooled
  /\ cooled' = TRUE
  /\ UNCHANGED <<state, failures, halfOpenCallCount, healthy, batch, task, processing, shutdown>>

DownstreamRecovers ==
  /\ ~ healthy
  /\ healthy' = TRUE
  /\ UNCHANGED <<breakerVars, batch, task, processing, shutdown>>

-----------------------------------------------------------------------------
(* markCompleted or handleFailure has been written, or threw: the finally   *)
(* block removes the event.                                                 *)
Untracked_Kept(e) == processing   \* seeded fault: the event is not removed

Untracked(e) == processing \ {e}

TaskEnds(b, e) ==
  /\ task[b][e] = "finishing"
  /\ task' = [task EXCEPT ![b][e] = "none"]
  /\ processing' = Untracked(e)
  /\ UNCHANGED <<breakerVars, healthy, batch, shutdown>>

BatchEnds(b) ==
  /\ batch[b] = "running"
  /\ \A e \in Events : task[b][e] = "none"
  /\ batch' = [batch EXCEPT ![b] = "idle"]
  /\ UNCHANGED <<breakerVars, healthy, task, processing, shutdown>>

-----------------------------------------------------------------------------
(* WorkerLifecycleService.shutdown; a second call returns at once.          *)

ShutdownRequested ==
  /\ shutdown = "no"
  /\ shutdown' = "waiting"
  /\ UNCHANGED <<breakerVars, healthy, batch, task, processing>>

(* waitForEventsToComplete looks at the set from a timer, so after every    *)
(* task that could start has been started.                                  *)
ShutdownCompletes ==
  /\ shutdown = "waiting"
  /\ processing = {}
  /\ \A b \in Batches, e \in Events : ~ CanStart(b, e)
  /\ shutdown' = "ended"
  /\ UNCHANGED <<breakerVars, healthy, batch, task, processing>>

(* After 30 seconds: OutboxWorker.onModuleDestroy forces the shutdown, the  *)
(* service's own onModuleDestroy, if it asked first, only throws.           *)
ShutdownTimesOut ==
  /\ shutdown = "waiting"
  /\ \/ shutdown' = "forced" /\ processing' = {}
     \/ shutdown' = "failed" /\ UNCHANGED processing
  /\ UNCHANGED <<breakerVars, healthy, batch, task>>

-----------------------------------------------------------------------------
TaskRuns(b, e) ==
  \/ TaskStarts(b, e) \/ HandlerSucceeds(b, e) \/ HandlerFails(b, e) \/ TaskEnds(b, e)

BatchRuns(b) ==
  \/ \E claimed \in SUBSET Events : BatchClaims(b, claimed)
  \/ BatchEnds(b)

Next ==
  \/ \E b \in Batches : BatchStarts(b) \/ BatchRuns(b)
  \/ \E b \in Batches, e \in Events : TaskRuns(b, e)
  \/ RecoveryTimeoutPasses \/ DownstreamRecovers
  \/ ShutdownRequested \/ ShutdownCompletes \/ ShutdownTimesOut

Spec == Init /\ [][Next]_vars

(* The cron fires, queries and handlers return, time passes, and events     *)
(* keep coming: infinitely many claims are not empty.  The 30 second timer  *)
(* and the recovery of the downstream service are not assumed.              *)
Fairness ==
  /\ \A b \in Batches :
       /\ WF_vars(BatchStarts(b))
       /\ WF_vars(BatchRuns(b))
       /\ SF_vars(\E claimed \in SUBSET Events \ {{}} : BatchClaims(b, claimed))
  /\ \A b \in Batches, e \in Events : WF_vars(TaskRuns(b, e))
  /\ WF_vars(RecoveryTimeoutPasses)
  /\ WF_vars(ShutdownCompletes)

FairSpec == Spec /\ Fairness

-----------------------------------------------------------------------------
(* Properties.                                                              *)

(* The circuit is closed exactly while fewer than failureThreshold failures *)
(* have been counted since it last recovered, although calls admitted in    *)
(* one state end in another (onSuccess, onFailure).                         *)
OpensAtThreshold == state = "CLOSED" <=> failures < FailureThreshold

(* A HALF_OPEN circuit always admits a call: were the limit of              *)
(* halfOpenMaxCalls reached there, every call would be refused for ever, as *)
(* no timer leaves HALF_OPEN (execute, onFailure).                          *)
HalfOpenAdmits == state = "HALF_OPEN" => halfOpenCallCount < HalfOpenMaxCalls

(* No event stays in processingEvents without a task that will take it out, *)
(* although two batches may hold the same event (addProcessingEvent,        *)
(* removeProcessingEvent, forceShutdown).                                   *)
NothingLeaks == processing \subseteq UNION {Underway(b) : b \in Batches}

(* Once the downstream service is healthy the circuit closes, unless the    *)
(* process is asked to stop: late failures, refusals and concurrent probes  *)
(* do not keep it open (execute).                                           *)
CircuitRecovers == (healthy /\ state # "CLOSED") ~> (state = "CLOSED" \/ shutdown # "no")

(* A requested shutdown gets past waiting without the 30 second timer: no   *)
(* batch starts any more and every tracked event leaves the set (process,   *)
(* waitForEventsToComplete).                                                *)
ShutdownDrains == shutdown = "waiting" ~> shutdown # "waiting"
=============================================================================
