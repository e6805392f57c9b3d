---------------------------- MODULE OutboxProofs ----------------------------
(***************************************************************************)
(* Proofs about Outbox and OutboxArchive for every number of rows, keys,   *)
(* workers, retriers, janitors, archivers, cleaners, retries and faults    *)
(* and every batch size.                                                   *)
(***************************************************************************)
EXTENDS OutboxArchive, TLAPS

(* Rows the sequence has not reached are not in the table.                  *)
FreshIds == \A i \in Ids : i >= nextId => status[i] = "ABSENT"

(* What a worker or a retrier remembers agrees with the history.            *)
TaskHandled == \A w \in Workers, i \in Ids : task[w][i] = "handled" => i \in handled

(* A retry that has begun holds a row that had used up its retries, and the *)
(* row is still FAILED unless somebody's claim was taken.                   *)
RetryInv ==
  \A r \in Retriers : retry[r].phase # "idle" =>
    /\ retry[r].id \in Ids
    /\ retry[r].snap >= MaxRetries
    /\ retry[r].phase = "handled" => retry[r].id \in handled
    /\ retry[r].phase \in {"handling", "handled"} => retry[r].id \in disturbed
    /\ retry[r].id \notin disturbed => status[retry[r].id] = "FAILED"

(* An undisturbed claim is the one recorded in the row.                     *)
Owned ==
  \A i \in Ids : \A w \in Workers :
    i \notin disturbed /\ task[w][i] # "none" =>
      status[i] = "PROCESSING" /\ lockedBy[i] = w

IInv ==
  /\ TypeOK
  /\ FreshIds
  /\ TaskHandled
  /\ RetryInv
  /\ Owned
  /\ CompletedWasHandled
  /\ FailedExhausted

USE MaxEventsAssumption, MaxRetriesAssumption, BatchSizeAssumption,
    MaxFaultsAssumption, MaxRevivalsAssumption, NullAssumption

LEMMA InitIInv == Init => IInv
  BY DEF Init, IInv, TypeOK, FreshIds, TaskHandled, RetryInv, Owned, CompletedWasHandled,
         FailedExhausted, Ids, Statuses, Phases, RetryStates, IdleRetry

LEMMA PublishIInv == ASSUME IInv, NEW k \in Keys, Publish(k) PROVE IInv'
<1> USE DEF IInv, Publish, Hot, rowVars, workerVars
<1>1. TypeOK'
  BY DEF TypeOK, Ids, Statuses
<1>2. FreshIds'
  BY DEF TypeOK, FreshIds, Ids
<1>3. TaskHandled'
  BY DEF TaskHandled
<1>4. RetryInv' /\ Owned'
  BY DEF TypeOK, FreshIds, RetryInv, Owned, Ids
<1>5. CompletedWasHandled' /\ FailedExhausted'
  BY DEF TypeOK, CompletedWasHandled, FailedExhausted
<1> QED BY <1>1, <1>2, <1>3, <1>4, <1>5

LEMMA TimeIInv ==
  ASSUME IInv, NEW i \in Ids, LockTimesOut(i) \/ BackoffElapses(i) PROVE IInv'
<1> USE DEF IInv, LockTimesOut, BackoffElapses, workerVars
<1>1. TypeOK'
  BY DEF TypeOK
<1>2. FreshIds' /\ TaskHandled' /\ RetryInv' /\ Owned'
  BY DEF FreshIds, TaskHandled, RetryInv, Owned
<1>3. CompletedWasHandled' /\ FailedExhausted'
  BY DEF CompletedWasHandled, FailedExhausted
<1> QED BY <1>1, <1>2, <1>3

LEMMA ReleaseIInv == ASSUME IInv, NEW w \in Workers, ReleaseStaleLocks(w) PROVE IInv'
<1> USE DEF IInv, ReleaseStaleLocks, StaleLocks
<1>1. TypeOK'
  BY DEF TypeOK, Statuses
<1>2. FreshIds' /\ TaskHandled'
  BY DEF TypeOK, FreshIds, TaskHandled
<1>3. RetryInv' /\ Owned'
  BY DEF TypeOK, RetryInv, Owned
<1>4. CompletedWasHandled' /\ FailedExhausted'
  BY DEF TypeOK, CompletedWasHandled, FailedExhausted
<1> QED BY <1>1, <1>2, <1>3, <1>4

LEMMA ClaimIInv == ASSUME IInv, NEW w \in Workers, ClaimBatch(w) PROVE IInv'
<1> USE DEF IInv
<1>1. PICK S \in SUBSET Ids :
       /\ S \subseteq Claimable
       /\ status' = [i \in Ids |-> IF i \in S THEN "PROCESSING" ELSE status[i]]
       /\ lockedBy' = [i \in Ids |-> IF i \in S THEN w ELSE lockedBy[i]]
       /\ stale' = stale \ S
       /\ task' = [task EXCEPT ![w] = [i \in Ids |-> IF i \in S THEN "handling" ELSE "none"]]
       /\ snap' = [snap EXCEPT ![w] = [i \in Ids |-> IF i \in S THEN retryCount[i] ELSE 0]]
       /\ pc' = [pc EXCEPT ![w] = IF S = {} THEN "idle" ELSE "running"]
  BY DEF ClaimBatch, toOutboxEvent, IsBatch
<1>2. UNCHANGED <<key, retryCount, due, nextId, retry, handled, disturbed, faults>>
  BY DEF ClaimBatch
<1>3. \A i \in S : status[i] = "PENDING"
  BY <1>1 DEF Claimable
<1>4. TypeOK'
  BY <1>1, <1>2 DEF TypeOK, Statuses, Phases
<1>5. FreshIds' /\ TaskHandled'
  BY <1>1, <1>2, <1>3 DEF TypeOK, FreshIds, TaskHandled
<1>6. RetryInv'
  BY <1>1, <1>2, <1>3 DEF TypeOK, RetryInv
<1>7. Owned'
  BY <1>1, <1>2, <1>3 DEF TypeOK, Owned
<1>8. CompletedWasHandled' /\ FailedExhausted'
  BY <1>1, <1>2, <1>3 DEF TypeOK, CompletedWasHandled, FailedExhausted
<1> QED BY <1>4, <1>5, <1>6, <1>7, <1>8

LEMMA HandleIInv ==
  ASSUME IInv, NEW w \in Workers, NEW i \in Ids,
         \/ HandleSucceeds(w, i) \/ HandleFails(w, i) \/ MarkCompletedThrows(w, i)
  PROVE  IInv'
<1> USE DEF IInv
<1>1. UNCHANGED <<rowVars, pc, snap, retry, disturbed>>
  BY DEF HandleSucceeds, HandleFails, MarkCompletedThrows
<1>2. /\ task[w][i] # "none"
      /\ \E p \in Phases : task' = [task EXCEPT ![w][i] = p] /\ (p = "handled" => i \in handled')
      /\ handled' \in SUBSET Ids /\ handled \subseteq handled' /\ faults' \in 0..MaxFaults
  BY DEF HandleSucceeds, HandleFails, MarkCompletedThrows, TypeOK, Phases
<1>3. TypeOK'
  BY <1>1, <1>2 DEF TypeOK, rowVars
<1>4. FreshIds'
  BY <1>1 DEF FreshIds, rowVars
<1>5. TaskHandled'
  BY <1>1, <1>2 DEF TypeOK, TaskHandled
<1>6. RetryInv'
  BY <1>1, <1>2 DEF RetryInv, rowVars
<1>7. Owned'
  BY <1>1, <1>2 DEF TypeOK, Owned, rowVars
<1>8. CompletedWasHandled' /\ FailedExhausted'
  BY <1>1, <1>2 DEF CompletedWasHandled, FailedExhausted, rowVars
<1> QED BY <1>3, <1>4, <1>5, <1>6, <1>7, <1>8

LEMMA MarkCompletedIInv ==
  ASSUME IInv, NEW w \in Workers, NEW i \in Ids, MarkCompleted(w, i) PROVE IInv'
<1> USE DEF IInv, MarkCompleted, TaskEnds, ClearLock, Hot
<1>1. TypeOK'
  BY DEF TypeOK, Statuses, Phases
<1>2. FreshIds' /\ TaskHandled'
  BY DEF TypeOK, FreshIds, TaskHandled
<1>3. RetryInv'
  BY DEF TypeOK, RetryInv, Owned
<1>4. Owned'
  BY DEF TypeOK, Owned
<1>5. CompletedWasHandled' /\ FailedExhausted'
  BY DEF TypeOK, TaskHandled, CompletedWasHandled, FailedExhausted
<1> QED BY <1>1, <1>2, <1>3, <1>4, <1>5

LEMMA HandleFailureIInv ==
  ASSUME IInv, NEW w \in Workers, NEW i \in Ids, HandleFailure(w, i) PROVE IInv'
<1> USE DEF IInv, HandleFailure, FailedCount, Exhausted, TaskEnds, ClearLock, Hot
<1>0. FailedCount(w, i) \in Nat
  BY DEF TypeOK
<1>1. TypeOK'
  BY <1>0 DEF TypeOK, Statuses, Phases
<1>2. FreshIds' /\ TaskHandled'
  BY DEF TypeOK, FreshIds, TaskHandled
<1>3. RetryInv'
  BY DEF TypeOK, RetryInv, Owned
<1>4. Owned'
  BY DEF TypeOK, Owned
<1>5. CompletedWasHandled' /\ FailedExhausted'
  BY <1>0 DEF TypeOK, CompletedWasHandled, FailedExhausted
<1> QED BY <1>1, <1>2, <1>3, <1>4, <1>5

(* A worker loses one task, or all of them, and the table does not change. *)
LEMMA AbandonIInv ==
  ASSUME IInv, NEW w \in Workers, Crash(w) \/ \E i \in Ids : HandleFailureThrows(w, i)
  PROVE  IInv'
<1> USE DEF IInv
<1>1. UNCHANGED <<rowVars, retry, handled, disturbed>> /\ faults' \in 0..MaxFaults
  BY DEF HandleFailureThrows, Crash, TypeOK
<1>2. /\ pc' \in [Workers -> {"idle", "released", "running"}]
      /\ task' \in [Workers -> [Ids -> Phases]]
      /\ snap' \in [Workers -> [Ids -> Nat]]
      /\ \A v \in Workers, j \in Ids : task'[v][j] \in {task[v][j], "none"}
  <2>1. CASE Crash(w)
    BY <2>1 DEF Crash, TypeOK, Phases
  <2>2. CASE \E i \in Ids : HandleFailureThrows(w, i)
    BY <2>2 DEF HandleFailureThrows, TaskEnds, TypeOK, Phases
  <2> QED BY <2>1, <2>2
<1>3. TypeOK'
  BY <1>1, <1>2 DEF TypeOK, rowVars
<1>4. FreshIds' /\ RetryInv' /\ CompletedWasHandled' /\ FailedExhausted'
  BY <1>1 DEF FreshIds, RetryInv, CompletedWasHandled, FailedExhausted, rowVars
<1>5. TaskHandled' /\ Owned'
  BY <1>1, <1>2 DEF TaskHandled, Owned, rowVars
<1> QED BY <1>3, <1>4, <1>5

(* The two ways a retrier's state changes.                                  *)
LEMMA RetryPhase ==
  ASSUME TypeOK, NEW r \in Retriers,
         NEW p \in {"idle", "found", "handling", "handled", "erred"},
         retry' = [retry EXCEPT ![r].phase = p]
  PROVE  /\ retry' \in [Retriers -> RetryStates]
         /\ retry'[r].phase = p /\ retry'[r].id = retry[r].id /\ retry'[r].snap = retry[r].snap
         /\ \A q \in Retriers \ {r} : retry'[q] = retry[q]
<1> DEFINE rec == [retry[r] EXCEPT !.phase = p]
<1>1. retry[r] \in RetryStates
  BY DEF TypeOK
<1>2. rec \in RetryStates /\ rec.phase = p /\ rec.id = retry[r].id /\ rec.snap = retry[r].snap
  BY <1>1 DEF RetryStates
<1>3. retry' = [retry EXCEPT ![r] = rec]
  OBVIOUS
<1>4. retry \in [Retriers -> RetryStates]
  BY DEF TypeOK
<1> HIDE DEF rec
<1>5. retry' \in [Retriers -> RetryStates]
  BY <1>2, <1>3, <1>4
<1>6. retry'[r] = rec /\ \A q \in Retriers \ {r} : retry'[q] = retry[q]
  BY <1>3, <1>4
<1> QED BY <1>2, <1>5, <1>6

LEMMA RetryIdle ==
  ASSUME TypeOK, NEW r \in Retriers, retry' = [retry EXCEPT ![r] = IdleRetry]
  PROVE  /\ retry' \in [Retriers -> RetryStates]
         /\ retry'[r].phase = "idle"
         /\ \A q \in Retriers \ {r} : retry'[q] = retry[q]
  BY DEF TypeOK, RetryStates, IdleRetry

LEMMA RetrierIInv == ASSUME IInv, NEW r \in Retriers, RetrierStep(r) PROVE IInv'
<1> USE DEF IInv, rowVars, workerVars, Hot
<1>0. retry[r].phase # "idle" =>
        /\ retry[r].id \in Ids /\ retry[r].snap \in Nat /\ retry[r].snap >= MaxRetries
        /\ retry[r].phase = "handled" => retry[r].id \in handled
        /\ retry[r].phase \in {"handling", "handled"} => retry[r].id \in disturbed
        /\ retry[r].id \notin disturbed => status[retry[r].id] = "FAILED"
  BY DEF RetryInv, TypeOK, RetryStates
<1>1. CASE \E i \in Ids : RetryFind(r, i)
  <2>1. PICK i \in Ids : RetryFind(r, i)
    BY <1>1
  <2>2. TypeOK'
    BY <2>1 DEF RetryFind, TypeOK, RetryStates
  <2>3. RetryInv'
    BY <2>1 DEF RetryFind, TypeOK, RetryInv, FailedExhausted
  <2> QED BY <2>1, <2>2, <2>3 DEF RetryFind, FreshIds, TaskHandled, Owned,
             CompletedWasHandled, FailedExhausted
<1>2. CASE RetryReset(r)
  <2>1. /\ retry' \in [Retriers -> RetryStates]
        /\ retry'[r].phase = "handling" /\ retry'[r].id = retry[r].id
        /\ retry'[r].snap = retry[r].snap
        /\ \A q \in Retriers \ {r} : retry'[q] = retry[q]
    BY <1>2, RetryPhase DEF RetryReset
  <2>2. TypeOK'
    BY <1>0, <1>2, <2>1 DEF RetryReset, TypeOK, Statuses
  <2>3. RetryInv'
    BY <1>0, <1>2, <2>1 DEF RetryReset, TypeOK, RetryInv
  <2>4. FreshIds' /\ TaskHandled' /\ Owned'
    BY <1>0, <1>2 DEF RetryReset, TypeOK, FreshIds, TaskHandled, Owned
  <2>5. CompletedWasHandled' /\ FailedExhausted'
    BY <1>0, <1>2 DEF RetryReset, TypeOK, CompletedWasHandled, FailedExhausted
  <2> QED BY <2>2, <2>3, <2>4, <2>5
<1>3. CASE RetryHandled(r) \/ RetryWriteThrows(r)
  <2>1. PICK p \in {"handled", "erred"} :
          /\ retry' = [retry EXCEPT ![r].phase = p]
          /\ p = "handled" => retry[r].id \in handled' /\ retry[r].phase = "handling"
    BY <1>3 DEF RetryHandled, RetryWriteThrows
  <2>2. /\ retry[r].phase # "idle"
        /\ handled \subseteq handled' /\ handled' \subseteq handled \cup {retry[r].id}
        /\ faults' \in 0..MaxFaults
        /\ UNCHANGED <<rowVars, workerVars, disturbed>>
    BY <1>3 DEF RetryHandled, RetryWriteThrows, TypeOK
  <2>3. /\ retry' \in [Retriers -> RetryStates]
        /\ retry'[r].phase = p /\ retry'[r].id = retry[r].id
        /\ retry'[r].snap = retry[r].snap
        /\ \A q \in Retriers \ {r} : retry'[q] = retry[q]
    BY <2>1, RetryPhase
  <2>4. TypeOK'
    BY <1>0, <2>2, <2>3 DEF TypeOK
  <2>5. RetryInv'
    BY <1>0, <2>1, <2>2, <2>3 DEF RetryInv
  <2>6. FreshIds' /\ TaskHandled' /\ Owned' /\ CompletedWasHandled' /\ FailedExhausted'
    BY <2>2 DEF FreshIds, TaskHandled, Owned, CompletedWasHandled, FailedExhausted
  <2> QED BY <2>4, <2>5, <2>6
<1>4. CASE RetryCrashes(r)
  <2>0. retry' \in [Retriers -> RetryStates]
    BY <1>4, RetryIdle DEF RetryCrashes
  <2>1. TypeOK'
    BY <1>4, <2>0 DEF RetryCrashes, TypeOK
  <2>2. RetryInv'
    BY <1>4, RetryIdle DEF RetryCrashes, RetryInv
  <2> QED BY <1>4, <2>1, <2>2 DEF RetryCrashes, FreshIds, TaskHandled, Owned,
             CompletedWasHandled, FailedExhausted
<1>5. CASE RetryCompletes(r)
  <2>0. retry' \in [Retriers -> RetryStates]
    BY <1>5, RetryIdle DEF RetryCompletes
  <2>1. TypeOK'
    BY <1>0, <1>5, <2>0 DEF RetryCompletes, TypeOK, Statuses
  <2>2. RetryInv'
    <3>1. /\ retry'[r].phase = "idle"
          /\ \A q \in Retriers \ {r} : retry'[q] = retry[q]
      BY <1>5, RetryIdle DEF RetryCompletes
    <3>2. /\ UNCHANGED <<handled, disturbed>> /\ retry[r].id \in disturbed
          /\ \A i \in Ids : i # retry[r].id => status'[i] = status[i]
      BY <1>0, <1>5 DEF RetryCompletes, TypeOK, RetryInv
    <3> QED BY <3>1, <3>2 DEF RetryInv
  <2>3. FreshIds' /\ TaskHandled' /\ Owned'
    BY <1>0, <1>5 DEF RetryCompletes, TypeOK, FreshIds, TaskHandled, Owned
  <2>4. CompletedWasHandled' /\ FailedExhausted'
    BY <1>0, <1>5 DEF RetryCompletes, TypeOK, CompletedWasHandled, FailedExhausted
  <2> QED BY <2>1, <2>2, <2>3, <2>4
<1>6. CASE RetryFails(r)
  <2>0. retry' \in [Retriers -> RetryStates]
    BY <1>6, RetryIdle DEF RetryFails
  <2>1. TypeOK'
    BY <1>0, <1>6, <2>0 DEF RetryFails, TypeOK, Statuses
  <2>2. RetryInv'
    BY <1>0, <1>6, RetryIdle DEF RetryFails, TypeOK, RetryInv
  <2>3. FreshIds' /\ TaskHandled' /\ Owned'
    BY <1>0, <1>6 DEF RetryFails, TypeOK, FreshIds, TaskHandled, Owned
  <2>4. CompletedWasHandled' /\ FailedExhausted'
    BY <1>0, <1>6 DEF RetryFails, TypeOK, CompletedWasHandled, FailedExhausted
  <2> QED BY <2>1, <2>2, <2>3, <2>4
<1> QED BY <1>1, <1>2, <1>3, <1>4, <1>5, <1>6 DEF RetrierStep

LEMMA NextIInv == IInv /\ [Next]_vars => IInv'
<1> SUFFICES ASSUME IInv, [Next]_vars PROVE IInv'
  OBVIOUS
<1>1. CASE \E k \in Keys : Publish(k)
  BY <1>1, PublishIInv
<1>2. CASE TimePasses
  BY <1>2, TimeIInv DEF TimePasses
<1>3. ASSUME NEW w \in Workers, WorkerStep(w) PROVE IInv'
  <2>1. CASE ReleaseStaleLocks(w)
    BY <2>1, ReleaseIInv
  <2>2. CASE ClaimBatch(w)
    BY <2>2, ClaimIInv
  <2>3. CASE \E i \in Ids : TaskStep(w, i) \/ MarkCompletedThrows(w, i)
                                          \/ HandleFailureThrows(w, i)
    BY <2>3, HandleIInv, MarkCompletedIInv, HandleFailureIInv, AbandonIInv DEF TaskStep
  <2>4. CASE Crash(w)
    BY <2>4, AbandonIInv
  <2> QED BY <1>3, <2>1, <2>2, <2>3, <2>4 DEF WorkerStep
<1>4. CASE \E r \in Retriers : RetrierStep(r)
  BY <1>4, RetrierIInv
<1>5. CASE UNCHANGED vars
  BY <1>5 DEF IInv, TypeOK, FreshIds, TaskHandled, RetryInv, Owned, CompletedWasHandled,
              FailedExhausted, vars, rowVars, workerVars
<1> QED BY <1>1, <1>2, <1>3, <1>4, <1>5 DEF Next

THEOREM InductiveInvariant == Spec => []IInv
  BY InitIInv, NextIInv, PTL DEF Spec

(* Every variable of the outbox keeps its type, for every instance.         *)
THEOREM TypeCorrect == Spec => []TypeOK
  BY InductiveInvariant, PTL DEF IInv

(* A row marked COMPLETED had its handler succeed (markCompleted,           *)
(* retryEvent), whatever crashes, lock timeouts and dead-letter retries     *)
(* happened on the way.                                                     *)
THEOREM CompletedImpliesHandled == Spec => []CompletedWasHandled
  BY InductiveInvariant, PTL DEF IInv

(* The dead-letter state holds only rows that used up MAX_RETRIES           *)
(* (handleFailure, retryEvent).                                             *)
THEOREM DeadLettersExhausted == Spec => []FailedExhausted
  BY InductiveInvariant, PTL DEF IInv

(* Until a lock times out or a dead letter is retried, at most one process  *)
(* works on a row (claimBatch).                                             *)
THEOREM ClaimsAreExclusive == Spec => []SingleOwner
<1>1. IInv => SingleOwner
  BY DEF IInv, Owned, SingleOwner
<1> QED BY <1>1, InductiveInvariant, PTL

(* A completed row whose claim was never taken from its owner stays so: the *)
(* unfenced UPDATEs of markCompleted and handleFailure cannot reach it.     *)
THEOREM CompletedIsFinal == Spec => CompletedStays
<1>1. IInv /\ [Next]_vars =>
        [\A i \in Ids \ disturbed :
           status[i] = "COMPLETED" => status'[i] \in {"COMPLETED", "ABSENT"}]_vars
  <2> SUFFICES ASSUME IInv, Next, NEW i \in Ids \ disturbed, status[i] = "COMPLETED"
               PROVE  status'[i] = "COMPLETED"
    OBVIOUS
  <2> USE DEF IInv
  <2>1. CASE \E k \in Keys : Publish(k)
    BY <2>1 DEF Publish, FreshIds, TypeOK, Ids
  <2>2. CASE TimePasses
    BY <2>2 DEF TimePasses, LockTimesOut, BackoffElapses
  <2>3. ASSUME NEW w \in Workers, WorkerStep(w) PROVE status'[i] = "COMPLETED"
    <3>1. CASE ReleaseStaleLocks(w) \/ Crash(w)
      BY <3>1 DEF ReleaseStaleLocks, StaleLocks, Crash, rowVars
    <3>2. CASE ClaimBatch(w)
      BY <3>2 DEF ClaimBatch, IsBatch, Claimable
    <3>3. ASSUME NEW j \in Ids,
                 TaskStep(w, j) \/ MarkCompletedThrows(w, j) \/ HandleFailureThrows(w, j)
          PROVE  status'[i] = "COMPLETED"
      <4>1. task[w][i] = "none"
        BY DEF Owned
      <4> QED BY <3>3, <4>1 DEF TaskStep, HandleSucceeds, HandleFails, MarkCompleted,
                 HandleFailure, MarkCompletedThrows, HandleFailureThrows, rowVars, TypeOK
    <3> QED BY <2>3, <3>1, <3>2, <3>3 DEF WorkerStep
  <2>4. ASSUME NEW r \in Retriers, RetrierStep(r) PROVE status'[i] = "COMPLETED"
    <3>1. retry[r].phase # "idle" => retry[r].id # i
      BY DEF RetryInv
    <3> QED BY <2>4, <3>1 DEF RetrierStep, RetryFind, RetryReset, RetryHandled,
               RetryCompletes, RetryFails, RetryWriteThrows, RetryCrashes, rowVars, TypeOK
  <2> QED BY <2>1, <2>2, <2>3, <2>4 DEF Next
<1> QED BY <1>1, InductiveInvariant, PTL DEF Spec, CompletedStays

-----------------------------------------------------------------------------
(* Without dead-letter retries a row that is not finished can be picked up. *)

LockInv ==
  \A i \in Ids :
    /\ status[i] = "PROCESSING" => lockedBy[i] # NoWorker
    /\ status[i] \in {"ABSENT", "PENDING"} => lockedBy[i] = NoWorker

LEMMA LockInvStep ==
  ASSUME Retriers = {}, IInv, LockInv, [Next]_vars PROVE LockInv'
<1> USE DEF IInv, LockInv, Hot, rowVars
<1>1. ASSUME NEW k \in Keys, Publish(k) PROVE LockInv'
  BY <1>1 DEF Publish, TypeOK, FreshIds, Ids
<1>2. CASE TimePasses
  BY <1>2 DEF TimePasses, LockTimesOut, BackoffElapses
<1>3. ASSUME NEW w \in Workers, WorkerStep(w) PROVE LockInv'
  <2>1. CASE ReleaseStaleLocks(w) \/ Crash(w)
    BY <2>1 DEF ReleaseStaleLocks, StaleLocks, Crash
  <2>2. CASE ClaimBatch(w)
    BY <2>2, NullAssumption DEF ClaimBatch
  <2>3. ASSUME NEW i \in Ids,
               TaskStep(w, i) \/ MarkCompletedThrows(w, i) \/ HandleFailureThrows(w, i)
        PROVE  LockInv'
    BY <2>3 DEF TaskStep, HandleSucceeds, HandleFails, MarkCompleted, HandleFailure, ClearLock,
                MarkCompletedThrows, HandleFailureThrows, TypeOK
  <2> QED BY <1>3, <2>1, <2>2, <2>3 DEF WorkerStep
<1>4. CASE UNCHANGED vars
  BY <1>4 DEF vars
<1> QED BY <1>1, <1>2, <1>3, <1>4 DEF Next

(* Whatever crashes, lost writes and lock timeouts the workers meet, a row  *)
(* that is PROCESSING has the lock releaseStaleLocks looks for and one that *)
(* is PENDING has none, as claimBatch asks (outbox.worker.ts:167, 183).     *)
THEOREM WorkersLeaveRowsRecoverable ==
  ASSUME Retriers = {} PROVE Spec => []Recoverable
<1>1. Init => LockInv
  BY DEF Init, LockInv
<1>2. IInv /\ LockInv /\ [Next]_vars => LockInv'
  BY LockInvStep
<1>3. LockInv => Recoverable
  BY DEF LockInv, Recoverable
<1> QED BY <1>1, <1>2, <1>3, InductiveInvariant, PTL DEF Spec

-----------------------------------------------------------------------------
(* Outbox implements OutboxPromise.                                         *)

(* Whoever works on a row works on one that is there.                       *)
TouchedHot ==
  /\ \A w \in Workers, i \in Ids : task[w][i] # "none" => Hot(i)
  /\ \A r \in Retriers : retry[r].phase # "idle" => Hot(retry[r].id)

(* No step of Outbox takes a row away.                                      *)
LEMMA HotStays == ASSUME IInv, [Next]_vars, NEW i \in Ids, Hot(i) PROVE Hot(i)'
<1> USE DEF IInv, Hot, rowVars
<1>1. CASE \E k \in Keys : Publish(k)
  BY <1>1 DEF Publish, TypeOK
<1>2. CASE TimePasses
  BY <1>2 DEF TimePasses, LockTimesOut, BackoffElapses
<1>3. ASSUME NEW w \in Workers, WorkerStep(w) PROVE Hot(i)'
  <2>1. CASE ReleaseStaleLocks(w) \/ Crash(w) \/ ClaimBatch(w)
    BY <2>1 DEF ReleaseStaleLocks, Crash, ClaimBatch
  <2>2. ASSUME NEW j \in Ids,
               TaskStep(w, j) \/ MarkCompletedThrows(w, j) \/ HandleFailureThrows(w, j)
        PROVE  Hot(i)'
    BY <2>2 DEF TaskStep, HandleSucceeds, HandleFails, MarkCompleted, HandleFailure,
                MarkCompletedThrows, HandleFailureThrows, TypeOK
  <2> QED BY <1>3, <2>1, <2>2 DEF WorkerStep
<1>4. ASSUME NEW r \in Retriers, RetrierStep(r) PROVE Hot(i)'
  BY <1>4 DEF RetrierStep, RetryFind, RetryReset, RetryHandled, RetryCompletes, RetryFails,
              RetryWriteThrows, RetryCrashes, TypeOK
<1>5. CASE UNCHANGED vars
  BY <1>5 DEF vars
<1> QED BY <1>1, <1>2, <1>3, <1>4, <1>5 DEF Next

LEMMA TouchedHotStep == IInv /\ TouchedHot /\ [Next]_vars => TouchedHot'
<1> SUFFICES ASSUME IInv, TouchedHot, [Next]_vars PROVE TouchedHot'
  OBVIOUS
<1>1. ASSUME NEW w \in Workers, NEW i \in Ids, task'[w][i] # "none" PROVE Hot(i)'
  <2>1. CASE task[w][i] # "none"
    BY <2>1, HotStays DEF TouchedHot
  <2>2. CASE task[w][i] = "none"
    <3>1. ClaimBatch(w) /\ i \in Claimable
      <4>1. PICK v \in Workers : WorkerStep(v)
        BY <1>1, <2>2 DEF Next, Publish, TimePasses, LockTimesOut, BackoffElapses, RetrierStep,
              RetryFind, RetryReset, RetryHandled, RetryCompletes, RetryFails, RetryWriteThrows,
              RetryCrashes, workerVars, vars
      <4>2. ClaimBatch(v)
        BY <1>1, <2>2, <4>1 DEF WorkerStep, ReleaseStaleLocks, Crash, TaskStep, HandleSucceeds,
              HandleFails, MarkCompleted, HandleFailure, MarkCompletedThrows, HandleFailureThrows,
              TaskEnds, IInv, TypeOK
      <4>3. v = w
        BY <1>1, <2>2, <4>2 DEF ClaimBatch, IInv, TypeOK
      <4>4. PICK S \in SUBSET Ids :
              /\ S \subseteq Claimable
              /\ task' = [task EXCEPT ![w] = [j \in Ids |-> IF j \in S THEN "handling" ELSE "none"]]
        BY <4>2, <4>3 DEF ClaimBatch, IsBatch
      <4>5. i \in S
        BY <1>1, <4>4 DEF IInv, TypeOK
      <4> QED BY <4>2, <4>3, <4>4, <4>5
    <3> QED BY <3>1, HotStays DEF Claimable, Hot
  <2> QED BY <2>1, <2>2
<1>2. ASSUME NEW q \in Retriers, retry'[q].phase # "idle" PROVE Hot(retry[q].id)' 
  <2>1. CASE retry[q].phase # "idle" /\ retry'[q].id = retry[q].id
    <3>1. retry[q].id \in Ids /\ Hot(retry[q].id)
      BY <2>1 DEF IInv, RetryInv, TouchedHot
    <3>2. status'[retry[q].id] # "ABSENT"
      BY <3>1, HotStays DEF Hot
    <3> QED BY <2>1, <3>2 DEF Hot
  <2>2. CASE \E i \in Ids : RetryFind(q, i)
    BY <2>2 DEF RetryFind, IInv, TypeOK, RetryStates, Hot, rowVars
  <2>3. CASE ~ \E i \in Ids : RetryFind(q, i)
    <3>1. retry'[q] = retry[q] \/ (retry[q].phase # "idle" /\ retry'[q].id = retry[q].id)
      <4>1. CASE \E r \in Retriers : RetrierStep(r)
        <5>1. PICK r \in Retriers : RetrierStep(r)
          BY <4>1
        <5>2. CASE \E i \in Ids : RetryFind(r, i)
          BY <2>3, <5>2 DEF RetryFind, IInv, TypeOK
        <5>3. CASE RetryReset(r) \/ RetryHandled(r) \/ RetryWriteThrows(r)
          <6>1. PICK p \in {"handling", "handled", "erred"} : retry' = [retry EXCEPT ![r].phase = p]
            BY <5>3 DEF RetryReset, RetryHandled, RetryWriteThrows
          <6>2. retry[r].phase # "idle"
            BY <5>3 DEF RetryReset, RetryHandled, RetryWriteThrows
          <6> QED BY <6>1, <6>2, RetryPhase DEF IInv
        <5>4. CASE RetryCompletes(r) \/ RetryFails(r) \/ RetryCrashes(r)
          BY <1>2, <5>4, RetryIdle DEF RetryCompletes, RetryFails, RetryCrashes, IInv
        <5> QED BY <5>1, <5>2, <5>3, <5>4 DEF RetrierStep
      <4>2. CASE ~ \E r \in Retriers : RetrierStep(r)
        BY <4>2 DEF Next, Publish, TimePasses, LockTimesOut, BackoffElapses, WorkerStep,
              ReleaseStaleLocks, ClaimBatch, Crash, TaskStep, HandleSucceeds, HandleFails,
              MarkCompleted, HandleFailure, MarkCompletedThrows, HandleFailureThrows, vars
      <4> QED BY <4>1, <4>2
    <3> QED BY <1>2, <2>1, <3>1
  <2> QED BY <2>2, <2>3
<1> QED BY <1>1, <1>2 DEF TouchedHot

(* A write to one row is a write to one event.                              *)
Mapped(s) == CASE s = "ABSENT" -> "absent" [] s = "COMPLETED" -> "done"
               [] s = "FAILED" -> "dead" [] OTHER -> "waiting"

LEMMA PendingWaits == Mapped("PENDING") = "waiting"
  BY DEF Mapped

LEMMA OneEvent ==
  ASSUME TypeOK, NEW i \in Ids, NEW s, status' = [status EXCEPT ![i] = s]
  PROVE  EventState' = [EventState EXCEPT ![i] = Mapped(s)]
  BY DEF EventState, Mapped, TypeOK

(* A write that leaves rows waiting or as they were is none.                *)
LEMMA NoEvent ==
  ASSUME TypeOK, TypeOK',
         \A i \in Ids : status'[i] = status[i] \/ {status[i], status'[i]} \subseteq {"PENDING", "PROCESSING"}
  PROVE  EventState' = EventState
<1>1. \A i \in Ids : Mapped(status'[i]) = Mapped(status[i])
  BY DEF Mapped
<1> QED BY <1>1 DEF EventState, Mapped

LEMMA PromiseStep ==
  ASSUME IInv, IInv', TouchedHot, [Next]_vars
  PROVE  [Promise!Next]_<<EventState, handled, disturbed>>
<1> USE DEF IInv, Hot, rowVars, workerVars
<1> DEFINE same == UNCHANGED <<EventState, handled, disturbed>>
<1>0. /\ \A i \in Ids : (EventState[i] = "absent") <=> ~Hot(i)
      /\ \A i \in Ids : (EventState[i] = "dead") <=> status[i] = "FAILED"
      /\ \A i \in Ids : (EventState[i] = "waiting") <=> status[i] \in {"PENDING", "PROCESSING"}
  BY DEF EventState, TypeOK, Statuses
<1>1. ASSUME NEW k \in Keys, Publish(k) PROVE Promise!Next
  <2>1. nextId \in Ids /\ status[nextId] = "ABSENT"
    BY <1>1 DEF Publish, FreshIds, TypeOK, Ids
  <2>2. EventState' = [EventState EXCEPT ![nextId] = "waiting"]
    <3>1. status' = [status EXCEPT ![nextId] = "PENDING"]
      BY <1>1 DEF Publish
    <3> QED BY <2>1, <3>1, OneEvent, PendingWaits
  <2>3. Promise!Accept(nextId)
    BY <1>0, <1>1, <2>1, <2>2 DEF Publish, Promise!Accept, Promise!Becomes
  <2> QED BY <2>1, <2>3 DEF Promise!Next
<1>2. CASE TimePasses
  <2>1. same
    BY <1>2, NoEvent DEF TimePasses, LockTimesOut, BackoffElapses
  <2> QED BY <2>1
<1>3. ASSUME NEW w \in Workers, ReleaseStaleLocks(w) PROVE Promise!Next
  <2>1. EventState' = EventState
    BY <1>3, NoEvent DEF ReleaseStaleLocks, StaleLocks, TypeOK
  <2>2. Promise!Overtake(StaleLocks) /\ StaleLocks \in SUBSET Ids
    BY <1>0, <1>3, <2>1 DEF ReleaseStaleLocks, StaleLocks, Promise!Overtake
  <2> QED BY <2>2 DEF Promise!Next
<1>4. ASSUME NEW w \in Workers, ClaimBatch(w) PROVE same
  BY <1>4, NoEvent DEF ClaimBatch, IsBatch, Claimable, TypeOK
<1>5. ASSUME NEW w \in Workers, NEW i \in Ids, HandleSucceeds(w, i) PROVE Promise!Next
  <2>1. EventState' = EventState
    BY <1>5, NoEvent DEF HandleSucceeds
  <2>2. Promise!Take(i)
    BY <1>0, <1>5, <2>1 DEF HandleSucceeds, TouchedHot, Promise!Take
  <2> QED BY <2>2 DEF Promise!Next
<1>6. ASSUME NEW w \in Workers, NEW i \in Ids,
             HandleFails(w, i) \/ MarkCompletedThrows(w, i) \/ HandleFailureThrows(w, i) \/ Crash(w)
      PROVE  same
  BY <1>6, NoEvent DEF HandleFails, MarkCompletedThrows, HandleFailureThrows, Crash
<1>6a. ASSUME NEW w \in Workers, Crash(w) PROVE same
  BY <1>6a, NoEvent DEF Crash
<1>7. ASSUME NEW w \in Workers, NEW i \in Ids, MarkCompleted(w, i) PROVE Promise!Next
  <2>1. Hot(i) /\ i \in handled
    BY <1>7 DEF MarkCompleted, TouchedHot, TaskHandled
  <2>2. EventState' = [EventState EXCEPT ![i] = "done"]
    BY <1>7, <2>1, OneEvent DEF MarkCompleted, Mapped
  <2>3. Promise!Settle(i)
    BY <1>0, <1>7, <2>1, <2>2 DEF MarkCompleted, Promise!Settle, Promise!Becomes
  <2> QED BY <2>3 DEF Promise!Next
<1>8. ASSUME NEW w \in Workers, NEW i \in Ids, HandleFailure(w, i) PROVE Promise!Next \/ same
  <2>1. Hot(i) /\ (status[i] = "PROCESSING" \/ i \in disturbed)
    BY <1>8 DEF HandleFailure, TouchedHot, Owned
  <2>2. CASE Exhausted(FailedCount(w, i))
    <3>1. EventState' = [EventState EXCEPT ![i] = "dead"]
      BY <1>8, <2>1, <2>2, OneEvent DEF HandleFailure, Mapped
    <3>2. Promise!GiveUp(i)
      BY <1>0, <1>8, <2>1, <3>1 DEF HandleFailure, Promise!GiveUp, Promise!Becomes
    <3> QED BY <3>2 DEF Promise!Next
  <2>3. CASE ~Exhausted(FailedCount(w, i)) /\ i \in disturbed
    <3>1. EventState' = [EventState EXCEPT ![i] = "waiting"]
      <4>1. status' = [status EXCEPT ![i] = "PENDING"]
        BY <1>8, <2>1, <2>3 DEF HandleFailure
      <4> QED BY <4>1, OneEvent, PendingWaits
    <3>2. Promise!PutBack(i)
      BY <1>0, <1>8, <2>1, <2>3, <3>1 DEF HandleFailure, Promise!PutBack, Promise!Becomes
    <3> QED BY <3>2 DEF Promise!Next
  <2>4. CASE ~Exhausted(FailedCount(w, i)) /\ i \notin disturbed
    BY <1>8, <2>1, <2>4, NoEvent DEF HandleFailure, TypeOK
  <2> QED BY <2>2, <2>3, <2>4
<1>9. ASSUME NEW r \in Retriers, RetrierStep(r) PROVE Promise!Next \/ same
  <2> DEFINE i == retry[r].id
  <2>0. retry[r].phase # "idle" =>
          /\ i \in Ids /\ Hot(i)
          /\ retry[r].phase = "handled" => i \in handled
          /\ status[i] = "FAILED" \/ i \in disturbed
    BY DEF RetryInv, TouchedHot
  <2> HIDE DEF i
  <2>1. CASE (\E j \in Ids : RetryFind(r, j)) \/ RetryWriteThrows(r) \/ RetryCrashes(r)
    BY <2>1, NoEvent DEF RetryFind, RetryWriteThrows, RetryCrashes
  <2>2. CASE RetryReset(r)
    <3>1. EventState' = [EventState EXCEPT ![i] = "waiting"]
      <4>1. i \in Ids /\ status' = [status EXCEPT ![i] = "PENDING"]
        BY <2>0, <2>2 DEF RetryReset, i
      <4> QED BY <4>1, OneEvent, PendingWaits
    <3>2. Promise!Revive(i)
      BY <1>0, <2>0, <2>2, <3>1 DEF RetryReset, Promise!Revive, Promise!Becomes, i
    <3> QED BY <2>0, <2>2, <3>2 DEF Promise!Next, RetryReset
  <2>3. CASE RetryHandled(r)
    <3>1. EventState' = EventState
      BY <2>3, NoEvent DEF RetryHandled
    <3>2. Promise!Take(i) \/ same
      BY <1>0, <2>0, <2>3, <3>1 DEF RetryHandled, Promise!Take, i
    <3> QED BY <2>0, <2>3, <3>2 DEF Promise!Next, RetryHandled
  <2>4. CASE RetryCompletes(r)
    <3>1. EventState' = [EventState EXCEPT ![i] = "done"]
      BY <2>0, <2>4, OneEvent DEF RetryCompletes, Mapped, i
    <3>2. Promise!Settle(i)
      BY <1>0, <2>0, <2>4, <3>1 DEF RetryCompletes, Promise!Settle, Promise!Becomes
    <3> QED BY <2>0, <2>4, <3>2 DEF Promise!Next, RetryCompletes
  <2>5. CASE RetryFails(r)
    <3>1. EventState' = [EventState EXCEPT ![i] = "dead"]
      BY <2>0, <2>5, OneEvent DEF RetryFails, Mapped, i
    <3>2. CASE i \in disturbed
      <4>1. Promise!GiveUp(i)
        BY <1>0, <2>0, <2>5, <3>1, <3>2 DEF RetryFails, Promise!GiveUp, Promise!Becomes
      <4> QED BY <2>0, <2>5, <4>1 DEF Promise!Next, RetryFails
    <3>3. CASE i \notin disturbed
      <4>1. EventState[i] = "dead" /\ EventState \in [Ids -> {"absent", "waiting", "done", "dead"}]
        BY <1>0, <2>0, <2>5, <3>3 DEF RetryFails, EventState
      <4> QED BY <2>5, <3>1, <4>1 DEF RetryFails
    <3> QED BY <3>2, <3>3
  <2> QED BY <1>9, <2>1, <2>2, <2>3, <2>4, <2>5 DEF RetrierStep
<1>10. CASE UNCHANGED vars
  BY <1>10 DEF vars, EventState
<1> HIDE DEF same
<1>11. Next \/ UNCHANGED vars => Promise!Next \/ same
  BY <1>1, <1>2, <1>3, <1>4, <1>5, <1>6, <1>6a, <1>7, <1>8, <1>9, <1>10
     DEF Next, WorkerStep, TaskStep, same
<1> QED BY <1>11 DEF same

(* Every behaviour of workers and dead-letter retries (outbox.worker.ts,    *)
(* dead-letter.service.ts), seen through the status column, is a behaviour  *)
(* of the promise.                                                          *)
THEOREM PromiseKept == Spec => KeepsPromise
<1>1. Init => Promise!Init /\ TouchedHot
  BY DEF Init, Promise!Init, EventState, TouchedHot, IdleRetry
<1>2. Spec => [](IInv /\ TouchedHot)
  <2>1. IInv /\ TouchedHot /\ [Next]_vars => (IInv /\ TouchedHot)'
    BY NextIInv, TouchedHotStep
  <2> QED BY <1>1, <2>1, InitIInv, PTL DEF Spec
<1>3. IInv /\ IInv' /\ TouchedHot /\ [Next]_vars => [Promise!Next]_<<EventState, handled, disturbed>>
  BY PromiseStep
<1> QED BY <1>1, <1>2, <1>3, PTL DEF Spec, KeepsPromise, Promise!Spec

-----------------------------------------------------------------------------
(***************************************************************************)
(* With the archive.  The jobs delete rows under the workers' hands, so    *)
(* what is said above about claims does not hold here.  What the workers   *)
(* and retriers remember of the handlers is all that is needed of them     *)
(* (HandlerInv); the rest is about the jobs: what a job is about to delete *)
(* has been copied before or was removed by a retention rule (JobInv).     *)
(***************************************************************************)

JobStates ==
  [phase : {"idle", "saving", "deleting", "compressing", "updating", "purging"},
   ids : SUBSET Ids, todo : SUBSET Ids, copy : [Ids -> Statuses \cup {"none"}]]

ArchiveTypeOK ==
  /\ age \in [Ids -> 0..3]
  /\ archive \in [Ids -> Statuses \cup {"none"}]
  /\ archAge \in [Ids -> 0..2]
  /\ compressed \in SUBSET Ids
  /\ job \in [Jobs -> JobStates]
  /\ expired \in SUBSET Ids

(* Whoever is about to write COMPLETED has seen the handler succeed.        *)
HandlerInv ==
  /\ \A w \in Workers, i \in Ids : task[w][i] = "handled" => i \in handled
  /\ \A r \in Retriers : retry[r].phase # "idle" => retry[r].id \in Ids
  /\ \A r \in Retriers : retry[r].phase = "handled" => retry[r].id \in handled

Kept(i) == Archived(i) \/ i \in expired

JobInv ==
  \A j \in Jobs :
    /\ job[j].phase = "saving" =>
         /\ \A i \in job[j].ids \ job[j].todo : Kept(i)
         /\ \A i \in job[j].todo : job[j].copy[i] # "none"
         /\ \A i \in Ids : job[j].copy[i] = "COMPLETED" => i \in handled
    /\ job[j].phase = "deleting" /\ j \notin Cleaners => \A i \in job[j].ids : Kept(i)

CoreInv == TypeOK /\ HandlerInv /\ CompletedWasHandled

AInv == CoreInv /\ ArchiveTypeOK /\ JobInv /\ NothingLost /\ ArchivedWasHandled

USE ArchiveBatchAssumption, RetentionAssumption, JobsAssumption

LEMMA InitAInv == ArchiveInit => AInv
<1> SUFFICES ASSUME ArchiveInit PROVE AInv
  OBVIOUS
<1> USE DEF ArchiveInit, Init
<1>1. CoreInv
  BY DEF CoreInv, TypeOK, HandlerInv, CompletedWasHandled, Ids, Statuses, Phases, RetryStates,
         IdleRetry
<1>2. ArchiveTypeOK
  BY DEF ArchiveTypeOK, JobStates, IdleJob, Statuses
<1>3. JobInv
  BY DEF JobInv, IdleJob
<1>4. NothingLost /\ ArchivedWasHandled
  BY DEF NothingLost, ArchivedWasHandled
<1> QED BY <1>1, <1>2, <1>3, <1>4 DEF AInv

-----------------------------------------------------------------------------
(* Steps of the workers, the retriers and the clock.  None of them removes  *)
(* a row, and a success is never forgotten.                                 *)

Grows == /\ handled \subseteq handled'
         /\ \A i \in Ids : status[i] # "ABSENT" => status'[i] # "ABSENT"

LEMMA PublishCore ==
  ASSUME CoreInv, NEW k \in Keys, Publish(k)
  PROVE  CoreInv' /\ Grows /\ nextId' = nextId + 1 /\ status'[nextId] # "ABSENT"
<1> USE DEF CoreInv, Publish, Hot, workerVars
<1>1. TypeOK'
  BY DEF TypeOK, Ids, Statuses
<1>2. HandlerInv' /\ CompletedWasHandled'
  BY DEF TypeOK, HandlerInv, CompletedWasHandled
<1> QED BY <1>1, <1>2 DEF TypeOK, Grows

LEMMA TimeCore ==
  ASSUME CoreInv, NEW i \in Ids, LockTimesOut(i) \/ BackoffElapses(i)
  PROVE  CoreInv' /\ Grows /\ nextId' = nextId
  BY DEF CoreInv, TypeOK, HandlerInv, CompletedWasHandled, Grows, LockTimesOut, BackoffElapses,
         workerVars

LEMMA WorkerCore ==
  ASSUME CoreInv, NEW w \in Workers, WorkerStep(w)
  PROVE  CoreInv' /\ Grows /\ nextId' = nextId
<1> USE DEF CoreInv, Hot, rowVars, Grows
<1>1. CASE ReleaseStaleLocks(w)
  BY <1>1 DEF ReleaseStaleLocks, StaleLocks, TypeOK, Statuses, HandlerInv, CompletedWasHandled
<1>2. CASE ClaimBatch(w)
  <2>1. PICK S \in SUBSET Ids :
       /\ status' = [i \in Ids |-> IF i \in S THEN "PROCESSING" ELSE status[i]]
       /\ lockedBy' = [i \in Ids |-> IF i \in S THEN w ELSE lockedBy[i]]
       /\ stale' = stale \ S
       /\ task' = [task EXCEPT ![w] = [i \in Ids |-> IF i \in S THEN "handling" ELSE "none"]]
       /\ snap' = [snap EXCEPT ![w] = [i \in Ids |-> IF i \in S THEN retryCount[i] ELSE 0]]
       /\ pc' = [pc EXCEPT ![w] = IF S = {} THEN "idle" ELSE "running"]
    BY <1>2 DEF ClaimBatch, toOutboxEvent
  <2>2. UNCHANGED <<key, retryCount, due, nextId, retry, handled, disturbed, faults>>
    BY <1>2 DEF ClaimBatch
  <2>3. TypeOK'
    BY <2>1, <2>2 DEF TypeOK, Statuses, Phases
  <2>4. HandlerInv' /\ CompletedWasHandled'
    BY <2>1, <2>2 DEF TypeOK, HandlerInv, CompletedWasHandled
  <2> QED BY <2>1, <2>2, <2>3, <2>4 DEF TypeOK
<1>3. ASSUME NEW i \in Ids,
             HandleSucceeds(w, i) \/ HandleFails(w, i) \/ MarkCompletedThrows(w, i)
      PROVE  CoreInv' /\ Grows /\ nextId' = nextId
  <2>1. UNCHANGED <<rowVars, pc, snap, retry, disturbed>>
    BY <1>3 DEF HandleSucceeds, HandleFails, MarkCompletedThrows
  <2>2. /\ \E p \in Phases : task' = [task EXCEPT ![w][i] = p] /\ (p = "handled" => i \in handled')
        /\ handled' \in SUBSET Ids /\ handled \subseteq handled' /\ faults' \in 0..MaxFaults
    BY <1>3 DEF HandleSucceeds, HandleFails, MarkCompletedThrows, TypeOK, Phases
  <2>3. TypeOK'
    BY <2>1, <2>2 DEF TypeOK
  <2>4. HandlerInv' /\ CompletedWasHandled'
    BY <2>1, <2>2 DEF TypeOK, HandlerInv, CompletedWasHandled
  <2> QED BY <2>1, <2>2, <2>3, <2>4
<1>4. ASSUME NEW i \in Ids, MarkCompleted(w, i)
      PROVE  CoreInv' /\ Grows /\ nextId' = nextId
  <2> USE <1>4 DEF MarkCompleted, TaskEnds, ClearLock
  <2>1. TypeOK'
    BY DEF TypeOK, Statuses, Phases
  <2>2. HandlerInv' /\ CompletedWasHandled'
    BY DEF TypeOK, HandlerInv, CompletedWasHandled
  <2> QED BY <2>1, <2>2 DEF TypeOK
<1>5. ASSUME NEW i \in Ids, HandleFailure(w, i)
      PROVE  CoreInv' /\ Grows /\ nextId' = nextId
  <2> USE <1>5 DEF HandleFailure, FailedCount, Exhausted, TaskEnds, ClearLock
  <2>0. FailedCount(w, i) \in Nat
    BY DEF TypeOK
  <2>1. TypeOK'
    BY <2>0 DEF TypeOK, Statuses, Phases
  <2>2. HandlerInv' /\ CompletedWasHandled'
    BY <2>0 DEF TypeOK, HandlerInv, CompletedWasHandled
  <2> QED BY <2>1, <2>2 DEF TypeOK
<1>6. CASE Crash(w) \/ \E i \in Ids : HandleFailureThrows(w, i)
  <2>1. UNCHANGED <<rowVars, retry, handled, disturbed>> /\ faults' \in 0..MaxFaults
    BY <1>6 DEF HandleFailureThrows, Crash, TypeOK
  <2>2. /\ pc' \in [Workers -> {"idle", "released", "running"}]
        /\ task' \in [Workers -> [Ids -> Phases]]
        /\ snap' \in [Workers -> [Ids -> Nat]]
        /\ \A v \in Workers, j \in Ids : task'[v][j] \in {task[v][j], "none"}
    <3>1. CASE Crash(w)
      BY <3>1 DEF Crash, TypeOK, Phases
    <3>2. CASE \E i \in Ids : HandleFailureThrows(w, i)
      BY <3>2 DEF HandleFailureThrows, TaskEnds, TypeOK, Phases
    <3> QED BY <1>6, <3>1, <3>2
  <2>3. TypeOK'
    BY <2>1, <2>2 DEF TypeOK
  <2>4. HandlerInv' /\ CompletedWasHandled'
    BY <2>1, <2>2 DEF HandlerInv, CompletedWasHandled
  <2> QED BY <2>1, <2>3, <2>4
<1> QED BY <1>1, <1>2, <1>3, <1>4, <1>5, <1>6 DEF WorkerStep, TaskStep

LEMMA RetrierCore ==
  ASSUME CoreInv, NEW r \in Retriers, RetrierStep(r)
  PROVE  CoreInv' /\ Grows /\ nextId' = nextId
<1> USE DEF CoreInv, Hot, rowVars, workerVars, Grows
<1>0. /\ retry[r] \in RetryStates
      /\ retry[r].phase # "idle" => retry[r].id \in Ids
      /\ retry[r].phase = "handled" => retry[r].id \in handled
  BY DEF TypeOK, HandlerInv
<1>1. /\ retry' \in [Retriers -> RetryStates]
      /\ \A q \in Retriers \ {r} : retry'[q] = retry[q]
      /\ retry'[r].phase # "idle" => retry'[r].id \in Ids
      /\ retry'[r].phase = "handled" => retry'[r].id \in handled'
      /\ handled \subseteq handled' /\ handled' \in SUBSET Ids
  <2>1. CASE \E i \in Ids : RetryFind(r, i)
    BY <2>1 DEF RetryFind, TypeOK, RetryStates
  <2>2. CASE RetryReset(r) \/ RetryHandled(r) \/ RetryWriteThrows(r)
    <3>1. /\ retry[r].phase # "idle"
          /\ \E p \in {"handling", "handled", "erred"} :
               /\ retry' = [retry EXCEPT ![r].phase = p]
               /\ p = "handled" => retry[r].id \in handled'
          /\ handled \subseteq handled' /\ handled' \subseteq handled \cup {retry[r].id}
      BY <2>2 DEF RetryReset, RetryHandled, RetryWriteThrows
    <3>2. PICK p \in {"handling", "handled", "erred"} :
            /\ retry' = [retry EXCEPT ![r].phase = p]
            /\ p = "handled" => retry[r].id \in handled'
      BY <3>1
    <3>3. /\ retry' \in [Retriers -> RetryStates]
          /\ retry'[r].phase = p /\ retry'[r].id = retry[r].id
          /\ \A q \in Retriers \ {r} : retry'[q] = retry[q]
      BY <3>2, RetryPhase
    <3>4. handled' \in SUBSET Ids
      BY <1>0, <3>1 DEF TypeOK
    <3> QED BY <1>0, <3>1, <3>2, <3>3, <3>4
  <2>3. CASE RetryCompletes(r) \/ RetryFails(r) \/ RetryCrashes(r)
    <3>1. retry' = [retry EXCEPT ![r] = IdleRetry] /\ handled' = handled
      BY <2>3 DEF RetryCompletes, RetryFails, RetryCrashes
    <3> QED BY <3>1 DEF IdleRetry, RetryStates, TypeOK
  <2> QED BY <2>1, <2>2, <2>3 DEF RetrierStep
<1>2. /\ UNCHANGED <<key, lockedBy, stale, due, nextId, workerVars>>
      /\ disturbed' \in SUBSET Ids
      /\ faults' \in 0..MaxFaults
      /\ retryCount' \in [Ids -> Nat]
      /\ status' \in [Ids -> Statuses]
      /\ \A i \in Ids : status[i] # "ABSENT" => status'[i] # "ABSENT"
      /\ \A i \in Ids : status'[i] = "COMPLETED" => i \in handled'
  <2> USE DEF TypeOK, CompletedWasHandled
  <2>1. CASE \/ \E i \in Ids : RetryFind(r, i)
             \/ RetryHandled(r) \/ RetryWriteThrows(r) \/ RetryCrashes(r)
    BY <1>1, <2>1 DEF RetryFind, RetryHandled, RetryWriteThrows, RetryCrashes
  <2>2. CASE RetryReset(r)
    BY <1>0, <2>2 DEF RetryReset, RetryStates, Statuses
  <2>3. CASE RetryCompletes(r)
    BY <1>0, <2>3 DEF RetryCompletes, RetryStates, Statuses
  <2>4. CASE RetryFails(r)
    BY <1>0, <2>4 DEF RetryFails, RetryStates, Statuses
  <2> QED BY <2>1, <2>2, <2>3, <2>4 DEF RetrierStep
<1>3. TypeOK'
  BY <1>1, <1>2 DEF TypeOK
<1>4. HandlerInv' /\ CompletedWasHandled'
  BY <1>1, <1>2 DEF HandlerInv, CompletedWasHandled
<1> QED BY <1>1, <1>2, <1>3, <1>4

(* The tables and jobs of the archive survive what the outbox does.         *)
LEMMA OutboxStep == ASSUME AInv, Next, UNCHANGED archiveVars PROVE AInv'
<1> USE DEF AInv
<1>1. /\ CoreInv' /\ Grows
      /\ nextId' = nextId \/ (nextId' = nextId + 1 /\ status'[nextId] # "ABSENT")
  <2>1. CASE \E k \in Keys : Publish(k)
    BY <2>1, PublishCore
  <2>2. CASE TimePasses
    BY <2>2, TimeCore DEF TimePasses
  <2>3. CASE \E w \in Workers : WorkerStep(w)
    BY <2>3, WorkerCore
  <2>4. CASE \E r \in Retriers : RetrierStep(r)
    BY <2>4, RetrierCore
  <2> QED BY <2>1, <2>2, <2>3, <2>4 DEF Next
<1>2. UNCHANGED <<age, archive, archAge, compressed, job, expired>>
  BY DEF archiveVars, copyVars
<1>3. nextId \in Nat /\ handled \subseteq handled' /\ 1..(nextId' - 1) \subseteq Ids
  <2>1. nextId \in 1..(MaxEvents + 1) /\ nextId' \in 1..(MaxEvents + 1)
    BY <1>1 DEF CoreInv, TypeOK
  <2>2. /\ nextId \in Nat
        /\ nextId' - 1 \in 0..MaxEvents
    <3>1. \A n \in 1..(MaxEvents + 1) : n \in Nat /\ n - 1 \in 0..MaxEvents
      OBVIOUS
    <3> QED BY <2>1, <3>1
  <2>3. \A n \in 0..MaxEvents : 1..n \subseteq 1..MaxEvents
    OBVIOUS
  <2> QED BY <1>1, <2>2, <2>3 DEF Grows, Ids
<1>4. ArchiveTypeOK'
  BY <1>2 DEF ArchiveTypeOK
<1>5. JobInv'
  BY <1>2, <1>3 DEF JobInv, Kept, Archived
<1>6. NothingLost'
  <2> SUFFICES ASSUME NEW i \in 1..(nextId' - 1)
               PROVE  status'[i] # "ABSENT" \/ archive[i] # "none" \/ i \in expired
    BY <1>2 DEF NothingLost, Hot, Archived
  <2>1. i \in Ids /\ (i \in 1..(nextId - 1) \/ (i = nextId /\ status'[nextId] # "ABSENT"))
    BY <1>1, <1>3
  <2> QED BY <1>1, <2>1 DEF NothingLost, Grows, Hot, Archived
<1>7. ArchivedWasHandled'
  BY <1>2, <1>3 DEF ArchivedWasHandled
<1> QED BY <1>1, <1>4, <1>5, <1>6, <1>7

-----------------------------------------------------------------------------
(* Steps of the jobs.                                                       *)

LEMMA CoreUnchanged == ASSUME CoreInv, UNCHANGED vars PROVE CoreInv'
  BY DEF CoreInv, TypeOK, HandlerInv, CompletedWasHandled, vars, rowVars, workerVars

(* DELETE FROM outbox, whatever the workers are doing with the rows.        *)
LEMMA DeleteRowsCore ==
  ASSUME CoreInv, NEW S \in SUBSET Ids, DeleteRows(S), UNCHANGED <<otherVars, faults>>
  PROVE  /\ CoreInv' /\ UNCHANGED <<handled, nextId>>
         /\ \A i \in Ids \ S : status'[i] = status[i]
<1> USE DEF CoreInv, DeleteRows, otherVars, workerVars
<1>1. TypeOK'
  BY DEF TypeOK, Statuses
<1>2. HandlerInv' /\ CompletedWasHandled'
  BY DEF HandlerInv, CompletedWasHandled, TypeOK
<1> QED BY <1>1, <1>2 DEF TypeOK

(* A step of one job leaves the others justified, and its own new state must *)
(* be.                                                                      *)
LEMMA JobMoves ==
  ASSUME JobInv, job \in [Jobs -> JobStates], NEW j \in Jobs, NEW rec,
         job' = [job EXCEPT ![j] = rec], UNCHANGED handled,
         \A i \in Ids : Kept(i) => Kept(i)',
         rec \in JobStates,
         rec.phase = "saving" =>
           /\ \A i \in rec.ids \ rec.todo : Kept(i)'
           /\ \A i \in rec.todo : rec.copy[i] # "none"
           /\ \A i \in Ids : rec.copy[i] = "COMPLETED" => i \in handled,
         rec.phase = "deleting" /\ j \notin Cleaners => \A i \in rec.ids : Kept(i)'
  PROVE  JobInv' /\ job' \in [Jobs -> JobStates]
<1>1. job' \in [Jobs -> JobStates]
  OBVIOUS
<1>2. job'[j] = rec /\ \A k \in Jobs \ {j} : job'[k] = job[k]
  OBVIOUS
<1>3. ASSUME NEW k \in Jobs
      PROVE  /\ job'[k].phase = "saving" =>
                  /\ \A i \in job'[k].ids \ job'[k].todo : Kept(i)'
                  /\ \A i \in job'[k].todo : job'[k].copy[i] # "none"
                  /\ \A i \in Ids : job'[k].copy[i] = "COMPLETED" => i \in handled'
             /\ job'[k].phase = "deleting" /\ k \notin Cleaners =>
                  \A i \in job'[k].ids : Kept(i)'
  <2>1. CASE k = j
    BY <1>2, <2>1
  <2>2. CASE k # j
    <3>1. job[k].ids \subseteq Ids
      BY DEF JobStates
    <3> QED BY <1>2, <2>2, <3>1 DEF JobInv
  <2> QED BY <2>1, <2>2
<1> QED BY <1>1, <1>3 DEF JobInv

LEMMA IdleJobType == IdleJob \in JobStates /\ IdleJob.phase = "idle"
  BY DEF IdleJob, JobStates

LEMMA AgesAInv == ASSUME AInv, NEW i \in Ids, RowAges(i) \/ CopyAges(i) PROVE AInv'
<1> USE DEF AInv
<1>1. UNCHANGED <<vars, archive, compressed, job, expired>>
  BY DEF RowAges, CopyAges, copyVars
<1>2. CoreInv' /\ UNCHANGED <<handled, status, nextId>>
  BY <1>1, CoreUnchanged DEF vars, rowVars
<1>3. ArchiveTypeOK'
  BY <1>1 DEF ArchiveTypeOK, RowAges, CopyAges, copyVars
<1>4. JobInv'
  BY <1>1, <1>2 DEF JobInv, Kept, Archived
<1>5. NothingLost' /\ ArchivedWasHandled'
  BY <1>1, <1>2 DEF NothingLost, ArchivedWasHandled, Hot, Archived
<1> QED BY <1>2, <1>3, <1>4, <1>5

(* The steps of a job that change no table but is_compressed.               *)
LEMMA QuietAInv ==
  ASSUME AInv, NEW j \in Jobs, NEW rec \in JobStates, job' = [job EXCEPT ![j] = rec],
         UNCHANGED <<status, handled, nextId, age, archive, archAge, expired>>, CoreInv',
         compressed' \in SUBSET Ids,
         rec.phase = "saving" =>
           /\ \A i \in rec.ids \ rec.todo : Kept(i)
           /\ \A i \in rec.todo : rec.copy[i] # "none"
           /\ \A i \in Ids : rec.copy[i] = "COMPLETED" => i \in handled,
         rec.phase # "deleting" \/ j \in Cleaners
  PROVE  AInv'
<1> USE DEF AInv
<1>1. \A i \in Ids : Kept(i)' = Kept(i)
  BY DEF Kept, Archived
<1>2. rec.ids \subseteq Ids
  BY DEF JobStates
<1>3. JobInv' /\ job' \in [Jobs -> JobStates]
  BY <1>1, <1>2, JobMoves DEF ArchiveTypeOK
<1>4. ArchiveTypeOK'
  BY <1>3 DEF ArchiveTypeOK
<1>5. NothingLost' /\ ArchivedWasHandled'
  BY DEF NothingLost, ArchivedWasHandled, Hot, Archived
<1> QED BY <1>3, <1>4, <1>5

LEMMA SelectRowsAInv == ASSUME AInv, NEW j \in Jobs, SelectRows(j) PROVE AInv'
<1> USE DEF AInv
<1>1. /\ CoreInv'
      /\ UNCHANGED <<status, handled, nextId, age, archive, archAge, compressed, expired>>
  BY CoreUnchanged DEF SelectRows, vars, rowVars, copyVars
<1>2. job[j] \in JobStates /\ compressed' \in SUBSET Ids
  BY <1>1 DEF ArchiveTypeOK
<1>3. CASE /\ ToArchive(j) # {}
           /\ job' = [job EXCEPT ![j] =
                [phase |-> "saving", ids |-> ToArchive(j), todo |-> ToArchive(j),
                 copy |-> [i \in Ids |-> IF i \in ToArchive(j) THEN status[i] ELSE "none"]]]
  <2> DEFINE copied == [i \in Ids |-> IF i \in ToArchive(j) THEN status[i] ELSE "none"]
             rec == [phase |-> "saving", ids |-> ToArchive(j), todo |-> ToArchive(j),
                     copy |-> copied]
  <2>1. ToArchive(j) \subseteq Ids /\ status \in [Ids -> Statuses]
    BY DEF ToArchive, CoreInv, TypeOK
  <2>2. copied \in [Ids -> Statuses \cup {"none"}]
    BY <2>1
  <2>3. \A i \in Ids :
          /\ i \in ToArchive(j) => copied[i] # "none"
          /\ copied[i] = "COMPLETED" => status[i] = "COMPLETED"
    BY <2>1 DEF Statuses
  <2> HIDE DEF copied
  <2>4. rec \in JobStates
    BY <2>1, <2>2 DEF JobStates
  <2>5. \A i \in Ids : copied[i] = "COMPLETED" => i \in handled
    BY <2>3 DEF CoreInv, CompletedWasHandled
  <2>6. job' = [job EXCEPT ![j] = rec] /\ rec.phase = "saving" /\ rec.ids = rec.todo
        /\ rec.todo = ToArchive(j) /\ rec.copy = copied
    BY <1>3 DEF copied
  <2> HIDE DEF rec
  <2> QED BY <1>1, <1>2, <2>1, <2>3, <2>4, <2>5, <2>6, QuietAInv
<1>4. CASE job' = [job EXCEPT ![j].phase = "compressing"]
  <2> DEFINE rec == [job[j] EXCEPT !.phase = "compressing"]
  <2>1. rec \in JobStates /\ rec.phase = "compressing"
    BY <1>2 DEF JobStates
  <2>2. job' = [job EXCEPT ![j] = rec]
    BY <1>4
  <2> HIDE DEF rec
  <2> QED BY <1>1, <1>2, <2>1, <2>2, QuietAInv
<1> QED BY <1>3, <1>4 DEF SelectRows

LEMMA SaveBatchAInv == ASSUME AInv, NEW j \in Jobs, SaveBatch(j) PROVE AInv'
<1> USE DEF AInv
<1>1. /\ CoreInv' /\ UNCHANGED <<status, handled, nextId, age, compressed, expired>>
      /\ job[j].phase = "saving"
  BY CoreUnchanged DEF SaveBatch, vars, rowVars
<1>2. job[j] \in JobStates /\ job[j].ids \subseteq Ids /\ job[j].todo \subseteq Ids
  BY DEF ArchiveTypeOK, JobStates
<1>3. PICK S \in SUBSET Ids :
       /\ S # {} /\ S \subseteq job[j].todo
       /\ \/ /\ job' = [job EXCEPT ![j] = IdleJob]
             /\ UNCHANGED <<archive, archAge>>
          \/ /\ archive' = [i \in Ids |-> IF i \in S THEN job[j].copy[i] ELSE archive[i]]
             /\ archAge' = [i \in Ids |-> IF i \in S THEN 0 ELSE archAge[i]]
             /\ job' = [job EXCEPT
                          ![j].todo = @ \ S,
                          ![j].phase = IF S = job[j].todo THEN "deleting" ELSE "saving"]
  BY DEF SaveBatch, IsArchiveBatch
<1>4. CASE job' = [job EXCEPT ![j] = IdleJob] /\ UNCHANGED <<archive, archAge>>
  BY <1>1, <1>4, IdleJobType, QuietAInv DEF ArchiveTypeOK
<1>5. CASE /\ archive' = [i \in Ids |-> IF i \in S THEN job[j].copy[i] ELSE archive[i]]
           /\ archAge' = [i \in Ids |-> IF i \in S THEN 0 ELSE archAge[i]]
           /\ job' = [job EXCEPT
                        ![j].todo = @ \ S,
                        ![j].phase = IF S = job[j].todo THEN "deleting" ELSE "saving"]
  <2> DEFINE rec == [job[j] EXCEPT !.todo = @ \ S,
                                   !.phase = IF S = job[j].todo THEN "deleting" ELSE "saving"]
  <2>1. /\ rec \in JobStates /\ rec.ids = job[j].ids /\ rec.todo = job[j].todo \ S
        /\ rec.copy = job[j].copy /\ rec.phase = IF S = job[j].todo THEN "deleting" ELSE "saving"
    BY <1>2 DEF JobStates
  <2>2. job' = [job EXCEPT ![j] = rec]
    BY <1>5
  <2> HIDE DEF rec
  <2>3. /\ \A i \in job[j].ids \ job[j].todo : Kept(i)
        /\ \A i \in job[j].todo : job[j].copy[i] # "none"
        /\ \A i \in Ids : job[j].copy[i] = "COMPLETED" => i \in handled
    BY <1>1 DEF JobInv
  <2>4. /\ \A i \in Ids \ S : archive'[i] = archive[i]
        /\ \A i \in S : archive'[i] = job[j].copy[i] /\ archive'[i] # "none"
    BY <1>3, <1>5, <2>3
  <2>5. /\ \A i \in Ids : Kept(i) => Kept(i)'
        /\ \A i \in S : Kept(i)'
    BY <1>1, <2>4 DEF Kept, Archived
  <2>6. JobInv' /\ job' \in [Jobs -> JobStates]
    BY <1>1, <1>2, <1>3, <2>1, <2>2, <2>3, <2>5, JobMoves DEF ArchiveTypeOK
  <2>7. archive' \in [Ids -> Statuses \cup {"none"}] /\ archAge' \in [Ids -> 0..2]
    BY <1>2, <1>5 DEF ArchiveTypeOK, JobStates
  <2>8. ArchiveTypeOK'
    BY <1>1, <2>6, <2>7 DEF ArchiveTypeOK
  <2>9. NothingLost'
    <3>1. 1..(nextId - 1) \subseteq Ids
      BY DEF CoreInv, TypeOK, Ids
    <3> QED BY <1>1, <2>4, <3>1 DEF NothingLost, Hot, Archived
  <2>10. ArchivedWasHandled'
    BY <1>1, <2>3, <2>4 DEF ArchivedWasHandled
  <2> QED BY <1>1, <2>6, <2>8, <2>9, <2>10
<1> QED BY <1>3, <1>4, <1>5

LEMMA DeleteArchivedAInv == ASSUME AInv, NEW j \in Jobs, DeleteArchived(j) PROVE AInv'
<1> USE DEF AInv
<1>1. /\ job[j] \in JobStates /\ job[j].ids \in SUBSET Ids
      /\ \A i \in job[j].ids : Kept(i)
  BY DEF ArchiveTypeOK, JobStates, DeleteArchived, JobInv
<1>2. /\ CoreInv' /\ UNCHANGED <<handled, nextId, archive, archAge, compressed, expired>>
      /\ \A i \in Ids \ job[j].ids : status'[i] = status[i]
  BY <1>1, DeleteRowsCore DEF DeleteArchived, copyVars
<1>3. PICK rec \in JobStates :
        job' = [job EXCEPT ![j] = rec] /\ rec.phase \in {"idle", "compressing"}
  <2>1. /\ [IdleJob EXCEPT !.phase = "compressing"] \in JobStates
        /\ [IdleJob EXCEPT !.phase = "compressing"].phase = "compressing"
    BY DEF IdleJob, JobStates
  <2> QED BY <2>1, IdleJobType DEF DeleteArchived
<1>4. \A i \in Ids : Kept(i)' = Kept(i)
  BY <1>2 DEF Kept, Archived
<1>5. JobInv' /\ job' \in [Jobs -> JobStates]
  BY <1>2, <1>3, <1>4, JobMoves DEF ArchiveTypeOK
<1>6. ArchiveTypeOK'
  BY <1>2, <1>5 DEF ArchiveTypeOK, DeleteArchived
<1>7. NothingLost' /\ ArchivedWasHandled'
  <2>1. 1..(nextId - 1) \subseteq Ids
    BY DEF CoreInv, TypeOK, Ids
  <2> QED BY <1>1, <1>2, <2>1 DEF NothingLost, ArchivedWasHandled, Hot, Archived, Kept
<1> QED BY <1>2, <1>5, <1>6, <1>7

LEMMA CompressAInv ==
  ASSUME AInv, NEW j \in Jobs, CompressSelects(j) \/ CompressUpdates(j) PROVE AInv'
<1> USE DEF AInv
<1>1. /\ CoreInv' /\ UNCHANGED <<status, handled, nextId, age, archive, archAge, expired>>
      /\ compressed' \in SUBSET Ids
  BY CoreUnchanged DEF CompressSelects, CompressUpdates, vars, rowVars, copyVars, ArchiveTypeOK
<1>2. job[j] \in JobStates
  BY DEF ArchiveTypeOK
<1>3. PICK rec \in JobStates :
        job' = [job EXCEPT ![j] = rec] /\ rec.phase \in {"purging", "updating"}
  <2>1. CASE CompressSelects(j)
    <3>1. PICK S \in SUBSET Ids :
            job' = [job EXCEPT ![j] = IF S = {} THEN [@ EXCEPT !.phase = "purging"]
                                      ELSE [@ EXCEPT !.phase = "updating", !.ids = S]]
      BY <2>1 DEF CompressSelects
    <3>2. /\ [job[j] EXCEPT !.phase = "purging"] \in JobStates
          /\ [job[j] EXCEPT !.phase = "purging"].phase = "purging"
          /\ [job[j] EXCEPT !.phase = "updating", !.ids = S] \in JobStates
          /\ [job[j] EXCEPT !.phase = "updating", !.ids = S].phase = "updating"
      BY <1>2 DEF JobStates
    <3> QED BY <3>1, <3>2
  <2>2. CASE CompressUpdates(j)
    <3>1. PICK i \in Ids :
            job' = [job EXCEPT
                      ![j].ids = @ \ {i},
                      ![j].phase = IF job[j].ids = {i} THEN "purging" ELSE "updating"]
      BY <1>2, <2>2 DEF CompressUpdates, JobStates
    <3> DEFINE rec == [job[j] EXCEPT
                         !.ids = @ \ {i},
                         !.phase = IF job[j].ids = {i} THEN "purging" ELSE "updating"]
    <3>2. rec \in JobStates /\ rec.phase \in {"purging", "updating"}
      BY <1>2 DEF JobStates
    <3>3. job' = [job EXCEPT ![j] = rec]
      BY <3>1
    <3> HIDE DEF rec
    <3> QED BY <3>2, <3>3
  <2> QED BY <2>1, <2>2
<1> QED BY <1>1, <1>3, QuietAInv

(* The two hard deletes.                                                    *)
LEMMA PurgeAInv ==
  ASSUME AInv, NEW cutoff, Purge(cutoff), UNCHANGED <<vars, age>>,
         \/ UNCHANGED job
         \/ \E j \in Jobs : job' = [job EXCEPT ![j] = IdleJob]
  PROVE  AInv'
<1> USE DEF AInv
<1>1. CoreInv' /\ UNCHANGED <<status, handled, nextId>>
  BY CoreUnchanged DEF vars, rowVars
<1> DEFINE S == {i \in Ids : Archived(i) /\ archAge[i] >= cutoff}
<1>2. /\ archive' = [i \in Ids |-> IF i \in S THEN "none" ELSE archive[i]]
      /\ archAge' = [i \in Ids |-> IF i \in S THEN 0 ELSE archAge[i]]
      /\ compressed' = compressed \ S
      /\ expired' = expired \cup S
      /\ S \subseteq Ids
  BY DEF Purge
<1> HIDE DEF S
<1>3. \A i \in Ids : Kept(i) => Kept(i)'
  BY <1>2 DEF Kept, Archived
<1>4. job \in [Jobs -> JobStates]
  BY DEF ArchiveTypeOK
<1>5. JobInv' /\ job' \in [Jobs -> JobStates]
  <2>1. CASE UNCHANGED job
    <3>1. \A k \in Jobs : job[k].ids \subseteq Ids
      BY <1>4 DEF JobStates
    <3> QED BY <1>1, <1>3, <1>4, <2>1, <3>1 DEF JobInv
  <2>2. CASE \E j \in Jobs : job' = [job EXCEPT ![j] = IdleJob]
    <3>1. PICK j \in Jobs : job' = [job EXCEPT ![j] = IdleJob]
      BY <2>2
    <3> QED BY <1>1, <1>3, <1>4, <3>1, IdleJobType, JobMoves
  <2> QED BY <2>1, <2>2
<1>6. ArchiveTypeOK'
  BY <1>2, <1>5 DEF ArchiveTypeOK
<1>7. NothingLost'
  <2>1. 1..(nextId - 1) \subseteq Ids
    BY DEF CoreInv, TypeOK, Ids
  <2> QED BY <1>1, <1>2, <2>1 DEF NothingLost, Hot, Archived
<1>8. ArchivedWasHandled'
  BY <1>1, <1>2 DEF ArchivedWasHandled
<1> QED BY <1>1, <1>5, <1>6, <1>7, <1>8

LEMMA CleanupAInv ==
  ASSUME AInv, NEW j \in Jobs, CleanupSelects(j) \/ CleanupRemoves(j) PROVE AInv'
<1> USE DEF AInv
<1>1. job[j] \in JobStates /\ job[j].ids \subseteq Ids /\ j \in Cleaners
  BY DEF ArchiveTypeOK, JobStates, CleanupSelects, CleanupRemoves
<1>2. CASE CleanupSelects(j)
  <2>1. CoreInv' /\ UNCHANGED <<status, handled, nextId, age, archive, archAge, compressed, expired>>
    BY <1>2, CoreUnchanged DEF CleanupSelects, vars, rowVars, copyVars
  <2> DEFINE S == {i \in Ids : status[i] = "FAILED" /\ age[i] >= 3}
             rec == [job[j] EXCEPT !.phase = "deleting", !.ids = S]
  <2>2. rec \in JobStates /\ rec.phase = "deleting"
    BY <1>1 DEF JobStates
  <2>3. job' = [job EXCEPT ![j] = rec]
    BY <1>2 DEF CleanupSelects
  <2> HIDE DEF rec
  <2> QED BY <1>1, <2>1, <2>2, <2>3, QuietAInv DEF ArchiveTypeOK
<1>3. CASE CleanupRemoves(j)
  <2>1. PICK i \in Ids :
          /\ DeleteRows({i})
          /\ age' = [age EXCEPT ![i] = 0]
          /\ expired' = expired \cup {i}
          /\ job' = [job EXCEPT ![j] =
                       IF job[j].ids = {i} THEN IdleJob ELSE [job[j] EXCEPT !.ids = @ \ {i}]]
    BY <1>1, <1>3 DEF CleanupRemoves
  <2>2. UNCHANGED <<otherVars, faults, archive, archAge, compressed>>
    BY <1>3 DEF CleanupRemoves, copyVars
  <2>3. /\ CoreInv' /\ UNCHANGED <<handled, nextId>>
        /\ \A p \in Ids \ {i} : status'[p] = status[p]
    BY <2>1, <2>2, DeleteRowsCore
  <2>4. PICK rec \in JobStates :
          job' = [job EXCEPT ![j] = rec] /\ rec.phase \in {"idle", "deleting"}
    <3> DEFINE rec == [job[j] EXCEPT !.ids = @ \ {i}]
    <3>1. rec \in JobStates /\ rec.phase = job[j].phase
      BY <1>1 DEF JobStates
    <3>2. job' = [job EXCEPT ![j] = IF job[j].ids = {i} THEN IdleJob ELSE rec]
      BY <2>1
    <3>3. job[j].phase = "deleting"
      BY <1>3 DEF CleanupRemoves
    <3> HIDE DEF rec
    <3> QED BY <3>1, <3>2, <3>3, IdleJobType
  <2>5. \A p \in Ids : Kept(p) => Kept(p)'
    BY <2>1, <2>2 DEF Kept, Archived
  <2>6. JobInv' /\ job' \in [Jobs -> JobStates]
    BY <1>1, <2>3, <2>4, <2>5, JobMoves DEF ArchiveTypeOK
  <2>7. ArchiveTypeOK'
    BY <2>1, <2>2, <2>6 DEF ArchiveTypeOK
  <2>8. NothingLost' /\ ArchivedWasHandled'
    <3>1. 1..(nextId - 1) \subseteq Ids
      BY DEF CoreInv, TypeOK, Ids
    <3> QED BY <2>1, <2>2, <2>3, <3>1 DEF NothingLost, ArchivedWasHandled, Hot, Archived
  <2> QED BY <2>3, <2>6, <2>7, <2>8
<1> QED BY <1>2, <1>3

LEMMA JobDiesAInv == ASSUME AInv, NEW j \in Jobs, JobDies(j) PROVE AInv'
<1> USE DEF AInv
<1>1. /\ UNCHANGED <<rowVars, otherVars>> /\ faults' \in 0..MaxFaults
      /\ UNCHANGED <<age, archive, archAge, compressed, expired>>
  BY DEF JobDies, copyVars, CoreInv, TypeOK
<1>2. CoreInv' /\ UNCHANGED <<status, handled, nextId>>
  BY <1>1 DEF CoreInv, TypeOK, HandlerInv, CompletedWasHandled, rowVars, otherVars, workerVars
<1> QED BY <1>1, <1>2, IdleJobType, QuietAInv DEF JobDies, ArchiveTypeOK

LEMMA NextAInv == AInv /\ [ArchiveNext]_allVars => AInv'
<1> SUFFICES ASSUME AInv, [ArchiveNext]_allVars PROVE AInv'
  OBVIOUS
<1>1. CASE Next /\ UNCHANGED archiveVars
  BY <1>1, OutboxStep
<1>2. CASE \E i \in Ids : RowAges(i) \/ CopyAges(i)
  BY <1>2, AgesAInv
<1>3. ASSUME NEW j \in Jobs, JobStep(j) PROVE AInv'
  <2>1. CASE JanitorPurges(j)
    BY <2>1, PurgeAInv DEF JanitorPurges
  <2> QED BY <1>3, <2>1, SelectRowsAInv, SaveBatchAInv, DeleteArchivedAInv, CompressAInv,
             CleanupAInv DEF JobStep
<1>4. CASE \E j \in Jobs : JobDies(j)
  BY <1>4, JobDiesAInv
<1>5. CASE HardDelete
  BY <1>5, PurgeAInv DEF HardDelete
<1>6. CASE UNCHANGED allVars
  <2>1. CoreInv'
    BY <1>6, CoreUnchanged DEF allVars, AInv
  <2> QED BY <1>6, <2>1 DEF AInv, ArchiveTypeOK, JobInv, NothingLost, ArchivedWasHandled, Kept,
             Archived, Hot, allVars, archiveVars, copyVars, vars, rowVars
<1> QED BY <1>1, <1>2, <1>3, <1>4, <1>5, <1>6 DEF ArchiveNext

THEOREM ArchiveInvariant == ArchiveSpec => []AInv
  BY InitAInv, NextAInv, PTL DEF ArchiveSpec

(* No published event disappears outside the retention rules, however many  *)
(* janitors, archivers and cleaners overlap and wherever one of them dies   *)
(* (archiveCompletedEvents, archiveOldEvents, cleanupExpiredEvents).        *)
THEOREM EventsAreKept == ArchiveSpec => []NothingLost
  BY ArchiveInvariant, PTL DEF AInv

(* A copy that says COMPLETED is of an event whose handler succeeded        *)
(* (archiveBatch copies the status the row had when it was selected).       *)
THEOREM ArchivedCopiesHandled == ArchiveSpec => []ArchivedWasHandled
  BY ArchiveInvariant, PTL DEF AInv

(* Rows that are deleted under a worker's or a retrier's hands do not make  *)
(* it record a success that never was (markCompleted, retryEvent).          *)
THEOREM CompletedHandledUnderArchival == ArchiveSpec => []CompletedWasHandled
  BY ArchiveInvariant, PTL DEF AInv, CoreInv
=============================================================================
