------------------------- MODULE WorkerProcessProofs -------------------------
(***************************************************************************)
(* Proofs about WorkerProcess, for any number of overlapping batches and    *)
(* events and any breaker configuration.                                    *)
(***************************************************************************)
EXTENDS WorkerProcess, TLAPS

(* HALF_OPEN is entered with the failures that opened the circuit still     *)
(* counted, so the first failure reopens it and the half-open count stays   *)
(* zero there.                                                              *)
HalfOpenUncounted == state = "HALF_OPEN" => halfOpenCallCount = 0

BreakerInv ==
  /\ state \in CircuitStates
  /\ failures \in 0..FailureThreshold
  /\ halfOpenCallCount \in Nat
  /\ OpensAtThreshold
  /\ HalfOpenUncounted

(* Only a running batch has tasks.                                          *)
TasksInBatches == \A b \in Batches, e \in Events : batch[b] # "running" => task[b][e] = "none"

(* NothingLeaks, event by event.                                            *)
Tracked == \A e \in processing : \E b \in Batches : task[b][e] \in {"handling", "finishing"}

IInv == TypeOK /\ BreakerInv /\ TasksInBatches /\ Tracked

-----------------------------------------------------------------------------
LEMMA InitIInv == Init => IInv
  <1> SUFFICES ASSUME Init PROVE IInv OBVIOUS
  <1>1. BreakerInv
    BY ConfigAssumption
    DEF Init, BreakerInv, OpensAtThreshold, HalfOpenUncounted, CircuitStates
  <1>2. cooled \in BOOLEAN /\ healthy \in BOOLEAN BY DEF Init
  <1>3. batch \in [Batches -> BatchPhases] /\ task \in [Batches -> [Events -> TaskPhases]]
    BY DEF Init, NoTasks, BatchPhases, TaskPhases
  <1>4. TypeOK BY <1>1, <1>2, <1>3 DEF Init, TypeOK, BreakerInv, Shutdowns
  <1>5. TasksInBatches /\ Tracked BY DEF Init, NoTasks, TasksInBatches, Tracked
  <1>6. QED BY <1>1, <1>4, <1>5 DEF IInv

(* The breaker's part: the steps of a call, and every other step leaves it  *)
(* alone.                                                                   *)
LEMMA BreakerStep ==
  ASSUME IInv, [Next]_vars
  PROVE  BreakerInv'
  <1> USE ConfigAssumption DEF BreakerInv, OpensAtThreshold, HalfOpenUncounted, CircuitStates
  <1>0. BreakerInv BY DEF IInv
  <1>1. ASSUME NEW b \in Batches, NEW e \in Events, TaskStarts(b, e) PROVE BreakerInv'
    BY <1>0, <1>1 DEF TaskStarts, StateAtEntry, CountAtEntry, FailuresAtEntry, Wakes
  <1>2. ASSUME NEW b \in Batches, NEW e \in Events, HandlerSucceeds(b, e) PROVE BreakerInv'
    BY <1>0, <1>2 DEF HandlerSucceeds, FailuresAfterSuccess
  <1>3. ASSUME NEW b \in Batches, NEW e \in Events, HandlerFails(b, e) PROVE BreakerInv'
    BY <1>0, <1>3 DEF HandlerFails
  <1>4. ASSUME UNCHANGED <<state, failures, halfOpenCallCount>> PROVE BreakerInv'
    BY <1>0, <1>4
  <1>5. QED
    BY <1>1, <1>2, <1>3, <1>4
    DEF Next, TaskRuns, BatchRuns, BatchStarts, BatchClaims, BatchEnds, TaskEnds,
        RecoveryTimeoutPasses, DownstreamRecovers, ShutdownRequested, ShutdownCompletes,
        ShutdownTimesOut, vars, breakerVars

-----------------------------------------------------------------------------
(* The part of the batches, the tasks and the processing set.               *)
Tasks == [Batches -> [Events -> TaskPhases]]

LEMMA TaskStep ==
  ASSUME IInv, NEW b \in Batches, NEW e \in Events, TaskRuns(b, e)
  PROVE  /\ task' \in Tasks /\ batch' = batch /\ processing' \in SUBSET Events
         /\ TasksInBatches' /\ Tracked'
  <1>1. task \in Tasks /\ processing \in SUBSET Events BY DEF IInv, TypeOK, Tasks
  <1>2. batch' = batch
    BY DEF TaskRuns, TaskStarts, HandlerSucceeds, HandlerFails, TaskEnds
  <1>3. task[b][e] # "none"
    BY DEF TaskRuns, TaskStarts, CanStart, HandlerSucceeds, HandlerFails, TaskEnds
  <1>4. batch[b] = "running" BY <1>3 DEF IInv, TasksInBatches
  <1>5. CASE TaskStarts(b, e) \/ HandlerSucceeds(b, e) \/ HandlerFails(b, e)
    <2>1. PICK p \in {"handling", "finishing"} : task' = [task EXCEPT ![b][e] = p]
      BY <1>5 DEF TaskStarts, HandlerSucceeds, HandlerFails
    <2>2. p \in TaskPhases BY DEF TaskPhases
    <2>3. /\ task' \in Tasks
          /\ \A c \in Batches, f \in Events :
               task'[c][f] = IF c = b /\ f = e THEN p ELSE task[c][f]
      BY <1>1, <2>1, <2>2 DEF Tasks
    <2>4. processing' \subseteq processing \cup {e} /\ processing' \in SUBSET Events
      BY <1>1, <1>5 DEF TaskStarts, HandlerSucceeds, HandlerFails
    <2>5. TasksInBatches' BY <1>2, <1>4, <2>3 DEF IInv, TasksInBatches
    <2>6. Tracked'
      <3> SUFFICES ASSUME NEW f \in processing'
                   PROVE  \E c \in Batches : task'[c][f] \in {"handling", "finishing"}
        BY DEF Tracked
      <3>1. CASE f = e BY <3>1, <2>3
      <3>2. CASE f # e
        <4>1. PICK c \in Batches : task[c][f] \in {"handling", "finishing"}
          BY <3>2, <2>4 DEF IInv, Tracked
        <4>2. task'[c][f] = task[c][f] BY <1>1, <2>3, <2>4, <3>2
        <4>3. QED BY <4>1, <4>2
      <3>3. QED BY <3>1, <3>2
    <2>7. QED BY <1>2, <2>3, <2>4, <2>5, <2>6
  <1>6. CASE TaskEnds(b, e)
    <2>1. "none" \in TaskPhases /\ task' = [task EXCEPT ![b][e] = "none"]
          /\ processing' = processing \ {e}
      BY <1>6 DEF TaskEnds, TaskPhases, Untracked
    <2>2. /\ task' \in Tasks
          /\ \A c \in Batches, f \in Events :
               task'[c][f] = IF c = b /\ f = e THEN "none" ELSE task[c][f]
      BY <1>1, <2>1 DEF Tasks
    <2>3. TasksInBatches' BY <1>2, <1>4, <2>2 DEF IInv, TasksInBatches
    <2>4. Tracked' BY <1>1, <2>1, <2>2 DEF IInv, Tracked
    <2>5. QED BY <1>1, <1>2, <2>1, <2>2, <2>3, <2>4
  <1>7. QED BY <1>5, <1>6 DEF TaskRuns

LEMMA BatchStep ==
  ASSUME IInv, NEW b \in Batches, BatchStarts(b) \/ BatchRuns(b)
  PROVE  /\ task' \in Tasks /\ batch' \in [Batches -> BatchPhases] /\ processing' = processing
         /\ TasksInBatches' /\ Tracked'
  <1>1. task \in Tasks /\ batch \in [Batches -> BatchPhases] /\ processing \in SUBSET Events
    BY DEF IInv, TypeOK, Tasks
  <1>2. CASE BatchStarts(b) \/ BatchEnds(b)
    <2>1. PICK p \in {"claiming", "idle"} :
            /\ batch' = [batch EXCEPT ![b] = p] /\ task' = task /\ processing' = processing
            /\ \A e \in Events : task[b][e] = "none"
      BY <1>2 DEF BatchStarts, BatchEnds, IInv, TasksInBatches
    <2>2. batch' \in [Batches -> BatchPhases] BY <1>1, <2>1 DEF BatchPhases
    <2>3. TasksInBatches' BY <1>1, <2>1 DEF IInv, TasksInBatches
    <2>4. Tracked' BY <2>1 DEF IInv, Tracked
    <2>5. QED BY <1>1, <2>1, <2>2, <2>3, <2>4
  <1>3. ASSUME NEW claimed \in SUBSET Events, BatchClaims(b, claimed)
        PROVE  /\ task' \in Tasks /\ batch' \in [Batches -> BatchPhases]
               /\ processing' = processing /\ TasksInBatches' /\ Tracked'
    <2> DEFINE new == [e \in Events |-> IF e \in claimed THEN "queued" ELSE "none"]
               p   == IF claimed = {} THEN "idle" ELSE "running"
    <2>1. task' = [task EXCEPT ![b] = new] /\ batch' = [batch EXCEPT ![b] = p]
          /\ processing' = processing /\ batch[b] = "claiming"
      BY <1>3 DEF BatchClaims
    <2>2. new \in [Events -> TaskPhases] /\ p \in BatchPhases BY DEF TaskPhases, BatchPhases
    <2>3. task' \in Tasks /\ batch' \in [Batches -> BatchPhases]
      BY <1>1, <2>1, <2>2 DEF Tasks
    <2>4. \A c \in Batches : task'[c] = (IF c = b THEN new ELSE task[c])
                             /\ batch'[c] = (IF c = b THEN p ELSE batch[c])
      BY <1>1, <2>1 DEF Tasks
    <2>5. p # "running" => \A e \in Events : new[e] = "none" OBVIOUS
    <2>6. TasksInBatches'
      <3> SUFFICES ASSUME NEW c \in Batches, NEW e \in Events, batch'[c] # "running"
                   PROVE  task'[c][e] = "none"
        BY DEF TasksInBatches
      <3>1. CASE c = b BY <3>1, <2>4, <2>5
      <3>2. CASE c # b
        <4>1. task'[c] = task[c] /\ batch'[c] = batch[c] BY <3>2, <2>4
        <4>2. batch[c] # "running" BY <4>1
        <4>3. task[c][e] = "none" BY <4>2 DEF IInv, TasksInBatches
        <4>4. QED BY <4>1, <4>3
      <3>3. QED BY <3>1, <3>2
    <2>7. \A e \in Events : task[b][e] = "none" BY <2>1 DEF IInv, TasksInBatches
    <2>8. Tracked'
      <3> SUFFICES ASSUME NEW f \in processing'
                   PROVE  \E c \in Batches : task'[c][f] \in {"handling", "finishing"}
        BY DEF Tracked
      <3>1. f \in Events /\ f \in processing BY <1>1, <2>1
      <3>2. PICK c \in Batches : task[c][f] \in {"handling", "finishing"}
        BY <3>1 DEF IInv, Tracked
      <3>3. c # b BY <3>1, <3>2, <2>7
      <3>4. QED BY <3>2, <3>3, <2>4
    <2>9. QED BY <2>1, <2>3, <2>6, <2>8
  <1>4. QED BY <1>2, <1>3 DEF BatchRuns

(* Every other step leaves the tasks alone and can only shrink the set.     *)
LEMMA OtherStep ==
  ASSUME IInv, RecoveryTimeoutPasses \/ DownstreamRecovers \/ ShutdownRequested
               \/ ShutdownCompletes \/ ShutdownTimesOut \/ UNCHANGED vars
  PROVE  /\ task' = task /\ batch' = batch /\ processing' \subseteq processing
         /\ TasksInBatches' /\ Tracked'
  <1>1. task' = task /\ batch' = batch /\ processing' \subseteq processing
    BY DEF RecoveryTimeoutPasses, DownstreamRecovers, ShutdownRequested, ShutdownCompletes,
           ShutdownTimesOut, vars
  <1>2. QED BY <1>1 DEF IInv, TasksInBatches, Tracked

LEMMA FlagsStep ==
  ASSUME IInv, [Next]_vars
  PROVE  cooled' \in BOOLEAN /\ healthy' \in BOOLEAN /\ shutdown' \in Shutdowns
  <1>1. cooled \in BOOLEAN /\ healthy \in BOOLEAN /\ shutdown \in Shutdowns BY DEF IInv, TypeOK
  <1>2. cooled' \in BOOLEAN
    BY <1>1 DEF Next, TaskRuns, BatchRuns, BatchStarts, BatchClaims, BatchEnds, TaskStarts,
        HandlerSucceeds, HandlerFails, TaskEnds, RecoveryTimeoutPasses, DownstreamRecovers,
        ShutdownRequested, ShutdownCompletes, ShutdownTimesOut, vars, breakerVars
  <1>3. healthy' \in BOOLEAN
    BY <1>1 DEF Next, TaskRuns, BatchRuns, BatchStarts, BatchClaims, BatchEnds, TaskStarts,
        HandlerSucceeds, HandlerFails, TaskEnds, RecoveryTimeoutPasses, DownstreamRecovers,
        ShutdownRequested, ShutdownCompletes, ShutdownTimesOut, vars
  <1>4. shutdown' \in Shutdowns
    BY <1>1 DEF Next, TaskRuns, BatchRuns, BatchStarts, BatchClaims, BatchEnds, TaskStarts,
        HandlerSucceeds, HandlerFails, TaskEnds, RecoveryTimeoutPasses, DownstreamRecovers,
        ShutdownRequested, ShutdownCompletes, ShutdownTimesOut, vars, Shutdowns
  <1>5. QED BY <1>2, <1>3, <1>4

LEMMA NextKeepsIInv == IInv /\ [Next]_vars => IInv'
  <1> SUFFICES ASSUME IInv, [Next]_vars PROVE IInv' OBVIOUS
  <1>1. BreakerInv' BY BreakerStep
  <1>2. /\ task' \in Tasks /\ batch' \in [Batches -> BatchPhases] /\ processing' \in SUBSET Events
        /\ TasksInBatches' /\ Tracked'
    <2>1. task \in Tasks /\ batch \in [Batches -> BatchPhases] /\ processing \in SUBSET Events
      BY DEF IInv, TypeOK, Tasks
    <2>2. CASE \E b \in Batches : BatchStarts(b) \/ BatchRuns(b) BY <2>1, <2>2, BatchStep
    <2>3. CASE \E b \in Batches, e \in Events : TaskRuns(b, e) BY <2>1, <2>3, TaskStep
    <2>4. CASE RecoveryTimeoutPasses \/ DownstreamRecovers \/ ShutdownRequested
               \/ ShutdownCompletes \/ ShutdownTimesOut \/ UNCHANGED vars
      BY <2>1, <2>4, OtherStep
    <2>5. QED BY <2>2, <2>3, <2>4 DEF Next
  <1>3. TypeOK' BY <1>1, <1>2, FlagsStep DEF TypeOK, BreakerInv, Tasks
  <1>4. QED BY <1>1, <1>2, <1>3 DEF IInv

LEMMA IInvHolds == Spec => []IInv
  BY InitIInv, NextKeepsIInv, PTL DEF Spec

(* The breaker, the batches, the tasks and the processing set keep their    *)
(* types (CircuitBreakerState, WorkerLifecycleService).                     *)
THEOREM ProcessTypeCorrect == Spec => []TypeOK
  <1>1. IInv => TypeOK BY DEF IInv
  <1>2. QED BY IInvHolds, <1>1, PTL

(* The circuit is closed exactly below the threshold, however the calls     *)
(* overlap (onSuccess, onFailure).                                          *)
THEOREM BreakerOpensAtThreshold == Spec => []OpensAtThreshold
  <1>1. IInv => OpensAtThreshold BY DEF IInv, BreakerInv
  <1>2. QED BY IInvHolds, <1>1, PTL

(* A HALF_OPEN circuit never refuses a call, so it cannot get stuck there   *)
(* (execute, onFailure).                                                    *)
THEOREM HalfOpenNeverStuck == Spec => []HalfOpenAdmits
  <1>1. IInv => HalfOpenAdmits
    BY ConfigAssumption DEF IInv, BreakerInv, HalfOpenUncounted, HalfOpenAdmits
  <1>2. QED BY IInvHolds, <1>1, PTL

(* Every tracked event has a task that will untrack it (addProcessingEvent, *)
(* removeProcessingEvent).                                                  *)
THEOREM NoEventLeaks == Spec => []NothingLeaks
  <1>1. IInv => NothingLeaks
    BY DEF IInv, TypeOK, Tracked, NothingLeaks, Underway
  <1>2. QED BY IInvHolds, <1>1, PTL
=============================================================================
