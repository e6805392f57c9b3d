--------------------------- MODULE BackfillProofs ---------------------------
(***************************************************************************)
(* Proofs about ControlPlane and Backfill for every set of pods, sessions, *)
(* jobs and overlapping ticks, and every number of faults, analyses,       *)
(* migrations and operations.                                              *)
(*                                                                         *)
(* Three inductive invariants that need little of each other: JobInv ties  *)
(* the loops to the rows of their jobs, LockInv counts the holds of a lock *)
(* against its users, and DriftInv orders the analyses of a pod.           *)
(***************************************************************************)
EXTENDS Backfill, FiniteSetTheorems, TLAPS

USE JobsAssumption, TicksAssumption, SaveEveryAssumption, WorkloadsAssumption

Statuses == {"PENDING", "PROCESSING", "COMPLETED", "FAILED"}
JobRows == [status : Statuses, total : Nat, processed : Nat, last : {0, NULL}, retry : Nat,
            error : BOOLEAN]
Differences ==
    [status : {"BACKFILLING", "MIGRATED"},
     readiness : {"PENDING", "READY_FOR_MIGRATION", "MIGRATED"}, validation : {"PENDING", "PASSED"}]
TickRows ==
    [pc : {"idle", "locking", "listing", "next", "starting", "batches", "unlocking"},
     queue : SUBSET DOMAIN JobIds, job : Jobs \cup {NoJob}, entity : JobRows \cup {<<>>},
     processed : Nat, last : {0, NULL}, retries : Nat, batches : Nat]

(* A tick that is on a job carries the entity it loaded, and no other does. *)
TickOK(k) ==
    /\ k.pc \in {"starting", "batches"} => k.job \in Jobs /\ k.entity \in JobRows
    /\ k.pc \notin {"starting", "batches"} => k.job = NoJob
    /\ k.pc = "batches" => k.entity.status = "PROCESSING"

JobTypeOK ==
    /\ job \in [Jobs -> JobRows]
    /\ DOMAIN rows = Jobs
    /\ diff \in [Jobs -> Differences]
    /\ checking \in [Jobs -> BOOLEAN]
    /\ tick \in [Pods -> [Ticks -> TickRows]]
    /\ \A p \in Pods, t \in Ticks : TickOK(tick[p][t])
    /\ \A c \in calls : c.job \in Jobs /\ c.row \in JobRows

(* A job no call disturbed says that a loop is on it while one is,         *)
(* and the loop is the only one.                                            *)
LoopInv ==
    \A j \in Jobs \ disturbed : \A p \in Pods, t \in Ticks : tick[p][t].job = j =>
        /\ job[j].status = "PROCESSING"
        /\ \A q \in Pods, u \in Ticks : tick[q][u].job = j => q = p /\ u = t

(* From the validation on no row is left that was there and unconverted.    *)
ConvertedInv ==
    \A j \in Jobs : checking[j] \/ diff[j].readiness # "PENDING" =>
        \A i \in DOMAIN rows[j] : rows[j][i] # "old"

JobInv == JobTypeOK /\ LoopInv /\ ConvertedInv

-----------------------------------------------------------------------------
(* What the updates of the entity return.                                   *)

LEMMA EntityUpdates ==
  ASSUME NEW e \in JobRows
  PROVE  /\ MarkAsStarted(e) \in JobRows /\ MarkAsStarted(e).status = "PROCESSING"
         /\ MarkAsFailed(e) \in JobRows
         /\ MarkAsCompleted(e) \in JobRows
         /\ NewJob(e.total) \in JobRows
         /\ \A n \in Nat, l \in {0, NULL} :
              UpdateProgress(e, n, l) \in JobRows /\ UpdateProgress(e, n, l).status = e.status
<1>1. MarkAsStarted(e) \in JobRows /\ MarkAsStarted(e).status = "PROCESSING"
  BY DEF JobRows, Statuses, MarkAsStarted
<1>2. MarkAsFailed(e) \in JobRows
  <2>1. e.retry + 1 \in Nat
    BY DEF JobRows
  <2>2. MarkAsFailed(e) = [e EXCEPT !.status = "FAILED", !.error = TRUE, !.retry = e.retry + 1]
    BY DEF MarkAsFailed, JobRows
  <2> QED BY <2>1, <2>2 DEF JobRows, Statuses
<1>3. MarkAsCompleted(e) \in JobRows
  BY DEF JobRows, Statuses, MarkAsCompleted
<1>4. NewJob(e.total) \in JobRows
  BY DEF JobRows, Statuses, NewJob
<1>5. ASSUME NEW n \in Nat, NEW l \in {0, NULL}
      PROVE  UpdateProgress(e, n, l) \in JobRows /\ UpdateProgress(e, n, l).status = e.status
  BY DEF JobRows, Statuses, UpdateProgress
<1> QED BY <1>1, <1>2, <1>3, <1>4, <1>5

LEMMA TickUpdate ==
  ASSUME tick \in [Pods -> [Ticks -> TickRows]], NEW p \in Pods, NEW t \in Ticks,
         NEW k \in TickRows, tick' = [tick EXCEPT ![p][t] = k]
  PROVE  /\ tick' \in [Pods -> [Ticks -> TickRows]]
         /\ tick'[p][t] = k
         /\ \A q \in Pods, u \in Ticks : (q # p \/ u # t) => tick'[q][u] = tick[q][u]
  OBVIOUS

LEMMA InitJobInv == Init => JobInv
<1> SUFFICES ASSUME Init PROVE JobInv
  OBVIOUS
<1>1. IdleTick \in TickRows /\ TickOK(IdleTick) /\ IdleTick.job = NoJob
  BY DEF IdleTick, TickRows, TickOK
<1>2. \A n \in Nat : NewJob(n) \in JobRows /\ MarkAsCompleted(NewJob(n)) \in JobRows
  BY DEF NewJob, MarkAsCompleted, JobRows, Statuses
<1>3. job \in [Jobs -> JobRows] /\ DOMAIN rows = Jobs
  <2>1. CASE focus = "jobs"
    <3>1. PICK w \in Workloads :
            /\ job = [j \in Jobs |-> IF j \in w.pending THEN NewJob(w.total[j])
                                     ELSE MarkAsCompleted(NewJob(0))]
            /\ rows = w.rows
      BY <2>1 DEF Init
    <3> QED BY <3>1, <1>2
  <2>2. CASE focus # "jobs"
    BY <2>2, <1>2 DEF Init
  <2> QED BY <2>1, <2>2
<1>4. diff \in [Jobs -> Differences] /\ checking \in [Jobs -> BOOLEAN]
  BY DEF Init, Differences
<1>5. tick = [p \in Pods |-> [t \in Ticks |-> IdleTick]]
  BY DEF Init
<1>6. tick \in [Pods -> [Ticks -> TickRows]] /\ \A p \in Pods, t \in Ticks : TickOK(tick[p][t])
  BY <1>1, <1>5
<1>7. LoopInv
  BY <1>1, <1>5 DEF LoopInv
<1>8. ConvertedInv
  BY DEF ConvertedInv, Init
<1>9. calls = {}
  BY DEF Init
<1> QED BY <1>3, <1>4, <1>6, <1>7, <1>8, <1>9 DEF JobInv, JobTypeOK

-----------------------------------------------------------------------------
(* Steps of a tick.                                                         *)

(* A step of a tick that is on no job before and after it.                  *)
LEMMA QuietTick ==
  ASSUME JobInv, NEW p \in Pods, NEW t \in Ticks, NEW k \in TickRows,
         tick' = [tick EXCEPT ![p][t] = k], TickOK(k), k.job = NoJob,
         UNCHANGED <<job, rows, diff, checking, calls, disturbed>>
  PROVE  JobInv'
<1>1. /\ tick' \in [Pods -> [Ticks -> TickRows]]
      /\ tick'[p][t] = k
      /\ \A q \in Pods, u \in Ticks : (q # p \/ u # t) => tick'[q][u] = tick[q][u]
  BY TickUpdate DEF JobInv, JobTypeOK
<1>2. JobTypeOK'
  <2>1. \A q \in Pods, u \in Ticks : TickOK(tick'[q][u])
    BY <1>1 DEF JobInv, JobTypeOK
  <2> QED BY <1>1, <2>1 DEF JobInv, JobTypeOK, TickOK
<1>3. LoopInv'
  BY <1>1 DEF JobInv, LoopInv
<1>4. ConvertedInv'
  BY DEF JobInv, ConvertedInv
<1> QED BY <1>2, <1>3, <1>4 DEF JobInv

LEMMA TickJobInv ==
  ASSUME JobInv, NEW p \in Pods, NEW t \in Ticks,
         TickStart(p, t) \/ TickLock(p, t) \/ TickList(p, t) \/ Skip(p, t) \/ TickEnd(p, t)
           \/ TickUnlock(p, t)
  PROVE  JobInv'
<1>1. tick[p][t] \in TickRows /\ TickOK(tick[p][t])
  BY DEF JobInv, JobTypeOK
<1>2. UNCHANGED <<job, rows, diff, checking, calls, disturbed>>
  BY DEF TickStart, TickLock, TickList, Skip, TickEnd, TickUnlock
<1>3. tick[p][t].pc \notin {"starting", "batches"}
  BY DEF TickStart, TickLock, TickList, Skip, TickEnd, TickUnlock
<1>4. \E k \in TickRows : /\ tick' = [tick EXCEPT ![p][t] = k]
                          /\ TickOK(k) /\ k.job = NoJob
  <2>1. ASSUME NEW pc \in {"idle", "locking", "listing", "next", "unlocking"},
               tick' = [tick EXCEPT ![p][t].pc = pc]
        PROVE  \E k \in TickRows : /\ tick' = [tick EXCEPT ![p][t] = k]
                                   /\ TickOK(k) /\ k.job = NoJob
    <3> DEFINE k == [tick[p][t] EXCEPT !.pc = pc]
    <3>1. k \in TickRows /\ k.job = NoJob
      BY <1>1, <1>3 DEF TickRows, TickOK
    <3>2. TickOK(k)
      BY <1>1, <1>3 DEF TickRows, TickOK
    <3>3. tick' = [tick EXCEPT ![p][t] = k]
      BY <2>1
    <3> QED BY <3>1, <3>2, <3>3
  <2>2. ASSUME NEW q \in SUBSET DOMAIN JobIds,
               tick' = [tick EXCEPT ![p][t] = Listed(@, q)]
        PROVE  \E k \in TickRows : /\ tick' = [tick EXCEPT ![p][t] = k]
                                   /\ TickOK(k) /\ k.job = NoJob
    <3> DEFINE k == Listed(tick[p][t], q)
    <3>1. k \in TickRows /\ k.job = NoJob
      BY <1>1, <1>3 DEF TickRows, TickOK, Listed
    <3>2. TickOK(k)
      BY <1>1, <1>3 DEF TickRows, TickOK, Listed
    <3>3. tick' = [tick EXCEPT ![p][t] = k]
      BY <2>2
    <3> QED BY <3>1, <3>2, <3>3
  <2>3. CASE TickStart(p, t) \/ TickLock(p, t) \/ TickEnd(p, t) \/ TickUnlock(p, t)
    BY <2>1, <2>3 DEF TickStart, TickLock, TickEnd, TickUnlock
  <2>4. CASE TickList(p, t)
    <3>1. GetPendingJobs \in SUBSET DOMAIN JobIds
      BY DEF GetPendingJobs
    <3>2. tick' = [tick EXCEPT ![p][t] = Listed(@, GetPendingJobs)]
      BY <2>4 DEF TickList
    <3> QED BY <2>2, <3>1, <3>2
  <2>5. CASE Skip(p, t)
    <3>1. PICK i \in tick[p][t].queue : tick' = [tick EXCEPT ![p][t].queue = @ \ {i}]
      BY <2>5 DEF Skip
    <3> DEFINE k == [tick[p][t] EXCEPT !.queue = @ \ {i}]
    <3>2. k \in TickRows /\ k.job = NoJob
      BY <1>1, <1>3 DEF TickRows, TickOK
    <3>3. TickOK(k)
      BY <1>1, <1>3 DEF TickRows, TickOK
    <3>4. tick' = [tick EXCEPT ![p][t] = k]
      BY <3>1
    <3> QED BY <3>2, <3>3, <3>4
  <2> QED BY <2>3, <2>4, <2>5
<1> QED BY <1>2, <1>4, QuietTick
-----------------------------------------------------------------------------
(* Steps of a loop.                                                         *)

(* The loop goes on: the row of its job is left alone or says PROCESSING.   *)
LEMMA LoopGoesOn ==
  ASSUME JobInv, NEW p \in Pods, NEW t \in Ticks, NEW k \in TickRows, NEW e \in JobRows,
         NEW j \in Jobs, tick[p][t].job = j, k.job = j, TickOK(k),
         tick' = [tick EXCEPT ![p][t] = k], job' = [job EXCEPT ![j] = e],
         e = job[j] \/ e.status = "PROCESSING",
         UNCHANGED <<diff, checking, calls, disturbed>>, DOMAIN rows' = Jobs
  PROVE  JobTypeOK' /\ LoopInv'
<1>1. /\ tick' \in [Pods -> [Ticks -> TickRows]]
      /\ tick'[p][t] = k
      /\ \A q \in Pods, u \in Ticks : (q # p \/ u # t) => tick'[q][u] = tick[q][u]
  BY TickUpdate DEF JobInv, JobTypeOK
<1>2. JobTypeOK'
  <2>1. \A q \in Pods, u \in Ticks : TickOK(tick'[q][u])
    BY <1>1 DEF JobInv, JobTypeOK
  <2>2. job' \in [Jobs -> JobRows]
    BY DEF JobInv, JobTypeOK
  <2> QED BY <1>1, <2>1, <2>2 DEF JobInv, JobTypeOK, TickOK
<1>3. LoopInv'
  <2>1. \A q \in Pods, u \in Ticks : tick'[q][u].job = tick[q][u].job
    BY <1>1
  <2>2. \A i \in Jobs : job'[i].status = job[i].status \/ job'[i].status = "PROCESSING"
    BY DEF JobInv, JobTypeOK
  <2> QED BY <2>1, <2>2 DEF JobInv, LoopInv
<1> QED BY <1>2, <1>3

(* The loop ends: nobody else is on an undisturbed job.                     *)
LEMMA LoopEnds ==
  ASSUME JobInv, NEW p \in Pods, NEW t \in Ticks, NEW e \in JobRows,
         tick[p][t].pc = "batches", Finish(p, t, e),
         UNCHANGED <<rows, diff, checking, calls, disturbed>>
  PROVE  JobInv'
<1> DEFINE j == tick[p][t].job
           k == [IdleTick EXCEPT !.pc = "next", !.queue = tick[p][t].queue]
<1>1. j \in Jobs
  BY DEF JobInv, JobTypeOK, TickOK
<1>2. k \in TickRows /\ k.job = NoJob /\ TickOK(k)
  <2>1. tick[p][t].queue \in SUBSET DOMAIN JobIds
    BY DEF JobInv, JobTypeOK, TickRows
  <2>2. IdleTick \in TickRows /\ IdleTick.job = NoJob
    BY DEF IdleTick, TickRows
  <2> QED BY <2>1, <2>2 DEF TickRows, TickOK
<1>3. /\ tick' = [tick EXCEPT ![p][t] = k]
      /\ job' = [job EXCEPT ![j] = e]
  BY DEF Finish
<1> HIDE DEF k
<1>4. /\ tick' \in [Pods -> [Ticks -> TickRows]]
      /\ tick'[p][t] = k
      /\ \A q \in Pods, u \in Ticks : (q # p \/ u # t) => tick'[q][u] = tick[q][u]
  BY <1>2, <1>3, TickUpdate DEF JobInv, JobTypeOK
<1>5. JobTypeOK'
  <2>1. \A q \in Pods, u \in Ticks : TickOK(tick'[q][u])
    BY <1>2, <1>4 DEF JobInv, JobTypeOK
  <2>2. job' \in [Jobs -> JobRows]
    BY <1>3 DEF JobInv, JobTypeOK
  <2> QED BY <1>4, <2>1, <2>2 DEF JobInv, JobTypeOK, TickOK
<1>6. LoopInv'
  <2> SUFFICES ASSUME NEW i \in Jobs \ disturbed, NEW q \in Pods, NEW u \in Ticks,
                      tick'[q][u].job = i
               PROVE  /\ job'[i].status = "PROCESSING"
                      /\ \A r \in Pods, v \in Ticks : tick'[r][v].job = i => r = q /\ v = u
    BY DEF LoopInv
  <2>1. (q # p \/ u # t) /\ tick[q][u].job = i
    BY <1>2, <1>4
  <2>2. i # j
    BY <2>1 DEF JobInv, LoopInv
  <2>3. job'[i] = job[i]
    BY <1>3, <2>2 DEF JobInv, JobTypeOK
  <2> QED BY <1>2, <1>4, <2>1, <2>3 DEF JobInv, LoopInv
<1>7. ConvertedInv'
  BY DEF JobInv, ConvertedInv
<1> QED BY <1>5, <1>6, <1>7 DEF JobInv

(* claimJob finds the row PENDING, so nobody is on an undisturbed job.      *)
LEMMA ClaimJobInv ==
  ASSUME JobInv, NEW p \in Pods, NEW t \in Ticks, Claim(p, t)
  PROVE  JobInv'
<1>1. PICK i \in tick[p][t].queue :
         /\ ClaimJob(JobIds[i])
         /\ job' = [job EXCEPT ![JobIds[i]] = MarkAsStarted(@)]
         /\ tick' = [tick EXCEPT ![p][t] = Claimed(@, i)]
  BY DEF Claim
<1> DEFINE j == JobIds[i]
           e == MarkAsStarted(job[j])
           k == Claimed(tick[p][t], i)
<1>2. tick[p][t] \in TickRows
  BY DEF JobInv, JobTypeOK
<1>3. j \in Jobs /\ job[j] \in JobRows
  BY <1>2 DEF TickRows, Jobs, JobInv, JobTypeOK
<1>4. k \in TickRows /\ k.job = j /\ TickOK(k)
  BY <1>2, <1>3 DEF TickRows, TickOK, Claimed
<1>5. tick' = [tick EXCEPT ![p][t] = k] /\ job' = [job EXCEPT ![j] = e]
  <2>1. job' = [job EXCEPT ![j] = e]
    BY <1>1
  <2>2. tick' = [tick EXCEPT ![p][t] = k]
    BY <1>1
  <2> QED BY <2>1, <2>2
<1>6. e \in JobRows /\ e.status = "PROCESSING"
  BY <1>3, EntityUpdates
<1>7. job[j].status = "PENDING" /\ UNCHANGED <<rows, diff, checking, calls, disturbed>>
  BY <1>1 DEF ClaimJob, Claim
<1> HIDE DEF k, e, j
<1>8. /\ tick' \in [Pods -> [Ticks -> TickRows]]
      /\ tick'[p][t] = k
      /\ \A q \in Pods, u \in Ticks : (q # p \/ u # t) => tick'[q][u] = tick[q][u]
  BY <1>4, <1>5, TickUpdate DEF JobInv, JobTypeOK
<1>9. JobTypeOK'
  <2>1. \A q \in Pods, u \in Ticks : TickOK(tick'[q][u])
    BY <1>4, <1>8 DEF JobInv, JobTypeOK
  <2>2. job' \in [Jobs -> JobRows]
    BY <1>3, <1>5, <1>6 DEF JobInv, JobTypeOK
  <2> QED BY <1>7, <1>8, <2>1, <2>2 DEF JobInv, JobTypeOK, TickOK
<1>10. LoopInv'
  <2> SUFFICES ASSUME NEW n \in Jobs \ disturbed, NEW q \in Pods, NEW u \in Ticks,
                      tick'[q][u].job = n
               PROVE  /\ job'[n].status = "PROCESSING"
                      /\ \A r \in Pods, v \in Ticks : tick'[r][v].job = n => r = q /\ v = u
    BY <1>7 DEF LoopInv
  <2>1. CASE n = j
    <3>1. \A r \in Pods, v \in Ticks : tick[r][v].job # j
      BY <1>7, <2>1 DEF JobInv, LoopInv
    <3> QED BY <1>3, <1>5, <1>6, <1>8, <2>1, <3>1 DEF JobInv, JobTypeOK
  <2>2. CASE n # j
    <3>1. job'[n] = job[n]
      BY <1>5, <2>2 DEF JobInv, JobTypeOK
    <3> QED BY <1>4, <1>8, <2>2, <3>1 DEF JobInv, LoopInv
  <2> QED BY <2>1, <2>2
<1>11. ConvertedInv'
  BY <1>7 DEF JobInv, ConvertedInv
<1> QED BY <1>9, <1>10, <1>11 DEF JobInv

LEMMA StartJobInv ==
  ASSUME JobInv, NEW p \in Pods, NEW t \in Ticks, StartJob(p, t)
  PROVE  JobInv'
<1> DEFINE j == tick[p][t].job
           e == MarkAsStarted(tick[p][t].entity)
           k == [tick[p][t] EXCEPT !.pc = "batches", !.entity = e, !.processed = e.processed,
                                   !.last = e.last, !.retries = 0, !.batches = 0]
<1>1. tick[p][t] \in TickRows /\ j \in Jobs /\ tick[p][t].entity \in JobRows
  BY DEF JobInv, JobTypeOK, TickOK, StartJob
<1>2. e \in JobRows /\ e.status = "PROCESSING"
  BY <1>1, EntityUpdates
<1>3. tick' = [tick EXCEPT ![p][t] = k] /\ job' = [job EXCEPT ![j] = e]
  BY DEF StartJob
<1> HIDE DEF e
<1>4. k \in TickRows /\ k.job = j /\ TickOK(k)
  BY <1>1, <1>2 DEF TickRows, JobRows, TickOK
<1>5. UNCHANGED <<rows, diff, checking, calls, disturbed>> /\ DOMAIN rows' = Jobs
  BY DEF StartJob, JobInv, JobTypeOK
<1> HIDE DEF k, j
<1>6. JobTypeOK' /\ LoopInv'
  BY <1>1, <1>2, <1>3, <1>4, <1>5, LoopGoesOn DEF j
<1>7. ConvertedInv'
  BY <1>5 DEF JobInv, ConvertedInv
<1> QED BY <1>6, <1>7 DEF JobInv

LEMMA BatchJobInv ==
  ASSUME JobInv, NEW p \in Pods, NEW t \in Ticks, Batch(p, t)
  PROVE  JobInv'
<1> DEFINE s == tick[p][t]
           j == s.job
           n == s.processed + BatchLength
           e == UpdateProgress(s.entity, n, BatchLastId)
           save == (s.batches + 1) % SaveEvery = 0
           f == IF save THEN e ELSE job[j]
           g == IF save THEN e ELSE s.entity
           b == (s.batches + 1) % SaveEvery
           k == [s EXCEPT !.processed = n, !.last = BatchLastId, !.retries = 0, !.batches = b,
                          !.entity = g]
<1>1. s \in TickRows /\ s.pc = "batches" /\ j \in Jobs
  BY DEF JobInv, JobTypeOK, TickOK, Batch, Unfinished
<1>2. s.entity \in JobRows /\ s.entity.status = "PROCESSING"
  BY <1>1 DEF JobInv, JobTypeOK, TickOK
<1>3. n \in Nat /\ BatchLastId \in {0, NULL}
  BY <1>1 DEF TickRows, BatchLength, BatchLastId
<1>4. e \in JobRows /\ e.status = "PROCESSING"
  BY <1>2, <1>3, EntityUpdates
<1>5. /\ tick' = [tick EXCEPT ![p][t] = k]
      /\ job' = [job EXCEPT ![j] = f]
  <2>1. tick' = [tick EXCEPT ![p][t] = k]
    BY DEF Batch
  <2>2. job' = [job EXCEPT ![j] = IF save THEN e ELSE @]
    BY DEF Batch
  <2> QED BY <2>1, <2>2, <1>1 DEF JobInv, JobTypeOK
<1>6. b \in Nat
  <2>1. s.batches \in Nat
    BY <1>1 DEF TickRows
  <2> QED BY <2>1
<1>7. f \in JobRows /\ (f = job[j] \/ f.status = "PROCESSING")
  BY <1>1, <1>4 DEF JobInv, JobTypeOK
<1>8. g \in JobRows /\ g.status = "PROCESSING"
  BY <1>2, <1>4
<1> HIDE DEF e, n, b, save, f, g
<1>9. k \in TickRows /\ k.job = j /\ TickOK(k)
  BY <1>1, <1>3, <1>6, <1>8 DEF TickRows, TickOK
<1>10. PICK size \in BatchSizes :
          rows' = [rows EXCEPT ![j] = [i \in DOMAIN @ |->
                     IF i \in BatchIds(j, s.last, size) THEN "new" ELSE @[i]]]
  BY DEF Batch
<1>11. UNCHANGED <<diff, checking, calls, disturbed>> /\ DOMAIN rows' = Jobs
  BY <1>10 DEF Batch, JobInv, JobTypeOK
<1>12. JobTypeOK' /\ LoopInv'
  <2> HIDE DEF k
  <2> QED BY <1>1, <1>5, <1>7, <1>9, <1>11, LoopGoesOn
<1>13. ConvertedInv'
  <2>1. \A i \in Jobs : /\ DOMAIN rows'[i] = DOMAIN rows[i]
                        /\ \A x \in DOMAIN rows[i] : rows'[i][x] \in {"new", rows[i][x]}
    BY <1>1, <1>10 DEF JobInv, JobTypeOK
  <2> QED BY <2>1, <1>11 DEF JobInv, ConvertedInv
<1> QED BY <1>12, <1>13 DEF JobInv

LEMMA EndingsJobInv ==
  ASSUME JobInv, NEW p \in Pods, NEW t \in Ticks,
         JobTimeout(p, t) \/ BatchFails(p, t) \/ CompleteJob(p, t)
  PROVE  JobInv'
<1> DEFINE s == tick[p][t]
<1>1. s \in TickRows /\ s.pc = "batches" /\ s.job \in Jobs /\ s.entity \in JobRows
  BY DEF JobInv, JobTypeOK, TickOK, JobTimeout, BatchFails, CompleteJob, Unfinished
<1>2. UNCHANGED <<rows, diff, checking, calls, disturbed>>
  BY DEF JobTimeout, BatchFails, CompleteJob
<1>3. ASSUME Finish(p, t, MarkAsFailed(s.entity))
      PROVE  JobInv'
  BY <1>1, <1>2, <1>3, EntityUpdates, LoopEnds
<1>4. CASE JobTimeout(p, t)
  BY <1>3, <1>4 DEF JobTimeout
<1>5. CASE CompleteJob(p, t)
  <2>1. UpdateProgress(s.entity, s.processed, s.last) \in JobRows
    BY <1>1, EntityUpdates DEF TickRows
  <2>2. MarkAsCompleted(UpdateProgress(s.entity, s.processed, s.last)) \in JobRows
    BY <2>1, EntityUpdates
  <2> QED BY <1>1, <1>2, <1>5, <2>2, LoopEnds DEF CompleteJob
<1>6. CASE BatchFails(p, t)
  <2>1. CASE s.retries + 1 > MaxRetries
    BY <1>3, <1>6, <2>1 DEF BatchFails
  <2>2. CASE ~(s.retries + 1 > MaxRetries)
    <3> DEFINE b == (s.batches + 1) % SaveEvery
               r == s.retries + 1
               k == [s EXCEPT !.retries = r, !.batches = b]
    <3>1. r \in Nat /\ b \in Nat
      <4>1. s.retries \in Nat /\ s.batches \in Nat
        BY <1>1 DEF TickRows
      <4> QED BY <4>1
    <3>2. tick' = [tick EXCEPT ![p][t] = k] /\ job' = job
      BY <1>6, <2>2 DEF BatchFails, JobInv, JobTypeOK
    <3> HIDE DEF b, r
    <3>3. k \in TickRows /\ k.job = s.job /\ TickOK(k)
      BY <1>1, <3>1 DEF TickRows, TickOK, JobInv, JobTypeOK
    <3> HIDE DEF k
    <3>4. job' = [job EXCEPT ![s.job] = job[s.job]] /\ job[s.job] \in JobRows
      BY <1>1, <3>2 DEF JobInv, JobTypeOK
    <3>5. DOMAIN rows' = Jobs
      BY <1>2 DEF JobInv, JobTypeOK
    <3>6. JobTypeOK' /\ LoopInv'
      BY <1>1, <1>2, <3>2, <3>3, <3>4, <3>5, LoopGoesOn
    <3>7. ConvertedInv'
      BY <1>2 DEF JobInv, ConvertedInv
    <3> QED BY <3>6, <3>7 DEF JobInv
  <2> QED BY <2>1, <2>2
<1> QED BY <1>4, <1>5, <1>6

-----------------------------------------------------------------------------
(* The operator, the readiness check and a crash.                           *)

(* retryJob and cancelJob: what they will save is a row of the table.       *)
LEMMA CalledInv ==
  ASSUME JobInv, NEW p \in Pods, NEW j \in Jobs, NEW op, NEW row \in JobRows,
         Called(p, j, op, row), UNCHANGED <<job, rows, diff, checking, tick, disturbed>>
  PROVE  JobInv'
<1>1. \A c \in calls' : c.job \in Jobs /\ c.row \in JobRows
  BY DEF Called, JobInv, JobTypeOK
<1>2. JobTypeOK'
  BY <1>1 DEF JobInv, JobTypeOK, TickOK
<1>3. LoopInv' /\ ConvertedInv'
  BY DEF JobInv, LoopInv, ConvertedInv
<1> QED BY <1>2, <1>3 DEF JobInv

LEMMA AskedInv ==
  ASSUME JobInv, NEW p \in Asked, NEW j \in Jobs, RetryJob(p, j) \/ CancelJob(p, j)
  PROVE  JobInv'
<1>1. job[j] \in JobRows /\ p \in Pods
  BY AskedAssumption DEF JobInv, JobTypeOK
<1>2. CASE RetryJob(p, j)
  <2>1. NewJob(job[j].total) \in JobRows
    BY <1>1, EntityUpdates
  <2>2. UNCHANGED <<job, rows, diff, checking, tick, disturbed>>
    BY <1>2 DEF RetryJob, Operate
  <2>3. Called(p, j, "retry", NewJob(job[j].total))
    BY <1>2 DEF RetryJob
  <2> QED BY <1>1, <2>1, <2>2, <2>3, CalledInv
<1>3. CASE CancelJob(p, j)
  <2> DEFINE e == [job[j] EXCEPT !.status = "FAILED", !.error = TRUE]
  <2>1. e \in JobRows
    BY <1>1 DEF JobRows, Statuses
  <2>2. UNCHANGED <<job, rows, diff, checking, tick, disturbed>>
    BY <1>3 DEF CancelJob, Operate
  <2>3. Called(p, j, "cancel", e)
    BY <1>3 DEF CancelJob
  <2> HIDE DEF e
  <2> QED BY <1>1, <2>1, <2>2, <2>3, CalledInv
<1> QED BY <1>2, <1>3

(* A job that a loop is on is disturbed by the save.                        *)
LEMMA SaveCallInv ==
  ASSUME JobInv, NEW c \in calls, SaveCall(c)
  PROVE  JobInv'
<1>1. c.job \in Jobs /\ c.row \in JobRows
  BY DEF JobInv, JobTypeOK
<1>2. job' = [job EXCEPT ![c.job] = c.row] /\ UNCHANGED <<rows, diff, checking, tick>>
  BY DEF SaveCall
<1>3. \A d \in calls' : d.job \in Jobs /\ d.row \in JobRows
  <2>1. [c EXCEPT !.op = "forget"].job = c.job /\ [c EXCEPT !.op = "forget"].row = c.row
    BY DEF SaveCall
  <2>2. \A d \in calls' : d \in calls \/ d = [c EXCEPT !.op = "forget"]
    BY DEF SaveCall
  <2> QED BY <1>1, <2>1, <2>2 DEF JobInv, JobTypeOK
<1>4. JobTypeOK'
  BY <1>1, <1>2, <1>3 DEF JobInv, JobTypeOK, TickOK
<1>5. LoopInv'
  <2>1. disturbed \subseteq disturbed'
    BY DEF SaveCall
  <2>2. c.job \in disturbed' \/ \A q \in Pods, u \in Ticks : tick[q][u].job # c.job
    <3>1. CASE OnIt(c.job) # {}
      BY <3>1 DEF SaveCall
    <3>2. CASE OnIt(c.job) = {}
      <4> SUFFICES ASSUME NEW q \in Pods, NEW u \in Ticks, tick[q][u].job = c.job PROVE FALSE
        OBVIOUS
      <4>1. <<q, u>> \in OnIt(c.job)
        BY DEF OnIt
      <4> QED BY <3>2, <4>1
    <3> QED BY <3>1, <3>2
  <2>3. \A i \in Jobs : i # c.job => job'[i] = job[i]
    BY <1>2 DEF JobInv, JobTypeOK
  <2> QED BY <1>2, <2>1, <2>2, <2>3 DEF JobInv, LoopInv
<1>6. ConvertedInv'
  BY <1>2 DEF JobInv, ConvertedInv
<1> QED BY <1>4, <1>5, <1>6 DEF JobInv

LEMMA ForgetJobInv ==
  ASSUME JobInv, NEW c \in calls, ForgetJob(c)
  PROVE  JobInv'
<1>1. UNCHANGED <<job, rows, diff, checking, tick, disturbed>> /\ calls' \subseteq calls
  BY DEF ForgetJob
<1>2. JobTypeOK'
  BY <1>1 DEF JobInv, JobTypeOK, TickOK
<1>3. LoopInv' /\ ConvertedInv'
  BY <1>1 DEF JobInv, LoopInv, ConvertedInv
<1> QED BY <1>2, <1>3 DEF JobInv

(* A row that comes after the validation is late, never old.                *)
LEMMA InsertRowInv ==
  ASSUME JobInv, NEW j \in Jobs, InsertRow(j)
  PROVE  JobInv'
<1>1. PICK i \in DOMAIN rows[j] :
         rows' = [rows EXCEPT ![j][i] =
                    IF checking[j] \/ diff[j].readiness # "PENDING" THEN "late" ELSE "old"]
  BY DEF InsertRow
<1>2. UNCHANGED <<job, diff, checking, tick, calls, disturbed>>
  BY DEF InsertRow, Operate
<1>3. JobTypeOK' /\ LoopInv'
  BY <1>1, <1>2 DEF JobInv, JobTypeOK, LoopInv, TickOK
<1>4. ConvertedInv'
  BY <1>1, <1>2 DEF JobInv, JobTypeOK, ConvertedInv
<1> QED BY <1>3, <1>4 DEF JobInv

LEMMA ReadinessInv ==
  ASSUME JobInv, NEW j \in Jobs,
         (\E p \in Pods : CheckReadiness(p, j)) \/ MarkReady(j) \/ MarkAsMigrated(j)
  PROVE  JobInv'
<1>1. UNCHANGED <<job, rows, tick, calls, disturbed>>
  BY DEF CheckReadiness, MarkReady, MarkAsMigrated
<1>2. LoopInv'
  BY <1>1 DEF JobInv, LoopInv
<1>3. diff[j] \in Differences
  BY DEF JobInv, JobTypeOK
<1>4. CASE \E p \in Pods : CheckReadiness(p, j)
  <2>1. JobTypeOK'
    BY <1>1, <1>4 DEF CheckReadiness, JobInv, JobTypeOK, TickOK
  <2>2. \A i \in DOMAIN rows[j] : rows[j][i] # "old"
    BY <1>4 DEF CheckReadiness, ValidateBackfillCompletion, ValidateColumnData
  <2>3. ConvertedInv'
    BY <1>1, <1>4, <2>2 DEF CheckReadiness, JobInv, JobTypeOK, ConvertedInv
  <2> QED BY <1>2, <2>1, <2>3 DEF JobInv
<1>5. CASE MarkReady(j)
  <2> DEFINE d == [diff[j] EXCEPT !.readiness = "READY_FOR_MIGRATION", !.validation = "PASSED"]
  <2>1. d \in Differences
    BY <1>3 DEF Differences
  <2>2. diff' = [diff EXCEPT ![j] = d] /\ checking' = [checking EXCEPT ![j] = FALSE] /\ checking[j]
    BY <1>5 DEF MarkReady, JobInv, JobTypeOK
  <2> HIDE DEF d
  <2>3. JobTypeOK'
    BY <1>1, <2>1, <2>2 DEF JobInv, JobTypeOK, TickOK
  <2>4. ConvertedInv'
    BY <1>1, <2>2 DEF JobInv, JobTypeOK, ConvertedInv
  <2> QED BY <1>2, <2>3, <2>4 DEF JobInv
<1>6. CASE MarkAsMigrated(j)
  <2>1. JobTypeOK'
    BY <1>1, <1>6 DEF MarkAsMigrated, JobInv, JobTypeOK, TickOK, Differences
  <2>2. ConvertedInv'
    BY <1>1, <1>6 DEF MarkAsMigrated, JobInv, JobTypeOK, ConvertedInv
  <2> QED BY <1>2, <2>1, <2>2 DEF JobInv
<1> QED BY <1>4, <1>5, <1>6

LEMMA CrashJobInv ==
  ASSUME JobInv, NEW p \in Pods, Crash(p)
  PROVE  JobInv'
<1>1. IdleTick \in TickRows /\ TickOK(IdleTick) /\ IdleTick.job = NoJob
  BY DEF IdleTick, TickRows, TickOK
<1>2. /\ tick' = [tick EXCEPT ![p] = [t \in Ticks |-> IdleTick]]
      /\ UNCHANGED <<job, rows, diff, checking, disturbed>> /\ calls' \subseteq calls
  BY DEF Crash
<1>3. /\ tick' \in [Pods -> [Ticks -> TickRows]]
      /\ \A t \in Ticks : tick'[p][t] = IdleTick
      /\ \A q \in Pods, t \in Ticks : q # p => tick'[q][t] = tick[q][t]
  BY <1>1, <1>2 DEF JobInv, JobTypeOK
<1>4. JobTypeOK'
  <2>1. \A q \in Pods, t \in Ticks : TickOK(tick'[q][t])
    BY <1>1, <1>3 DEF JobInv, JobTypeOK
  <2> QED BY <1>2, <1>3, <2>1 DEF JobInv, JobTypeOK, TickOK
<1>5. LoopInv'
  BY <1>1, <1>2, <1>3 DEF JobInv, LoopInv
<1>6. ConvertedInv'
  BY <1>2 DEF JobInv, ConvertedInv
<1> QED BY <1>4, <1>5, <1>6 DEF JobInv

LEMMA UnchangedJobInv ==
  ASSUME JobInv, UNCHANGED jobVars
  PROVE  JobInv'
  BY DEF JobInv, JobTypeOK, LoopInv, ConvertedInv, TickOK, jobVars

LEMMA NextJobInv == JobInv /\ [Next]_vars => JobInv'
<1> SUFFICES ASSUME JobInv, [Next]_vars PROVE JobInv'
  OBVIOUS
<1>1. ASSUME NEW p \in Pods, NEW t \in TicksOf[p] PROVE t \in Ticks
  BY DEF Ticks
<1>2. CASE UNCHANGED jobVars
  BY <1>2, UnchangedJobInv
<1>3. ASSUME NEW p \in Pods, NEW t \in TicksOf[p], TickStart(p, t) PROVE JobInv'
  BY <1>1, <1>3, TickJobInv
<1>4. CASE TickNext
  BY <1>1, <1>4, TickJobInv DEF TickNext
<1>5. CASE JobNext
  <2>1. ASSUME NEW p \in Pods, NEW t \in TicksOf[p],
               Skip(p, t) \/ Claim(p, t) \/ StartJob(p, t) \/ JobTimeout(p, t) \/ Batch(p, t)
                 \/ BatchFails(p, t) \/ CompleteJob(p, t)
        PROVE  JobInv'
    BY <1>1, <2>1, TickJobInv, ClaimJobInv, StartJobInv, BatchJobInv, EndingsJobInv
  <2>2. ASSUME NEW p \in Asked, NEW j \in Jobs, RetryJob(p, j) \/ CancelJob(p, j)
        PROVE  JobInv'
    BY <2>2, AskedInv
  <2>3. ASSUME NEW j \in Jobs, InsertRow(j)
        PROVE  JobInv'
    BY <2>3, InsertRowInv
  <2>4. ASSUME NEW j \in Jobs, MarkReady(j) \/ MarkAsMigrated(j) \/ \E p \in Pods : CheckReadiness(p, j)
        PROVE  JobInv'
    BY <2>4, ReadinessInv
  <2>5. ASSUME NEW c \in calls, SaveCall(c) \/ ForgetJob(c)
        PROVE  JobInv'
    BY <2>5, SaveCallInv, ForgetJobInv
  <2> QED BY <1>5, <2>1, <2>2, <2>3, <2>4, <2>5 DEF JobNext
<1>6. ASSUME NEW s \in Sessions, Reap(s) PROVE JobInv'
  BY <1>6, UnchangedJobInv DEF Reap
<1>7. ASSUME NEW p \in Pods, Crash(p) PROVE JobInv'
  BY <1>7, CrashJobInv
<1> QED BY <1>2, <1>3, <1>4, <1>5, <1>6, <1>7 DEF Next, BootNext, DriftNext, vars

THEOREM JobInvariant == Spec => []JobInv
  BY InitJobInv, NextJobInv, PTL DEF Spec

(* At most one loop is on a job whose row no cancel and no late retry saved  *)
(* under a running one, whatever ticks, pods and lost locks there are        *)
(* (claimJob, retryJob, cancelJob).                                          *)
THEOREM LoopsAreAlone == Spec => []OneLoopPerJob
<1>1. JobInv => OneLoopPerJob
  <2> SUFFICES ASSUME JobInv, NEW j \in Jobs \ disturbed
               PROVE  Cardinality(OnIt(j)) <= 1
    BY DEF OneLoopPerJob
  <2>1. CASE OnIt(j) = {}
    BY <2>1, FS_EmptySet
  <2>2. CASE OnIt(j) # {}
    <3>1. PICK w \in OnIt(j) : TRUE
      BY <2>2
    <3>2. OnIt(j) = {w}
      <4>1. ASSUME NEW v \in OnIt(j) PROVE v = w
        <5>1. v[1] = w[1] /\ v[2] = w[2]
          BY DEF JobInv, LoopInv, OnIt
        <5> QED BY <5>1 DEF OnIt
      <4> QED BY <4>1
    <3>3. IsFiniteSet({w}) /\ Cardinality({w}) = 1
      BY FS_Singleton
    <3> QED BY <3>2, <3>3
  <2> QED BY <2>1, <2>2
<1> QED BY <1>1, JobInvariant, PTL

(* A difference that was released for migration had no unconverted row at    *)
(* its validation (checkReadiness, validateColumnData).                      *)
THEOREM ReleasedWasConverted == Spec => []ReadyWasConverted
<1>1. JobInv => ReadyWasConverted
  BY DEF JobInv, ConvertedInv, ReadyWasConverted
<1> QED BY <1>1, JobInvariant, PTL

-----------------------------------------------------------------------------
(* The advisory locks.  A lock has one holder at most, and while no pool    *)
(* closed a session under a user, the holds of that session are at least as *)
(* many as the users: an unlock takes one hold and ends one use, wherever   *)
(* it arrives.                                                              *)

Workers(p) == {t \in Ticks : Working(p, t)}

OneHolder == \A l \in Locks : \A s, u \in Holders(l) : s = u

ConvergersHold ==
    "schema" \in reaped \/
      \A p \in Pods : Converging(p) => \E s \in SessionsOf[p] : held["schema"][s] > 0

WorkersHold ==
    "worker" \in reaped \/
      \A p \in Pods : Workers(p) # {} =>
        \E s \in SessionsOf[p] : held["worker"][s] >= Cardinality(Workers(p))

LockTypeOK ==
    /\ held \in [Locks -> [Sessions \cup {CliSession} -> Nat]]
    /\ DOMAIN boot = Pods

LockInv ==
    /\ LockTypeOK
    /\ focus = "boot" => \A p \in Pods : Workers(p) = {}
    /\ OneHolder
    /\ cli = "migrating" => held["schema"][CliSession] > 0
    /\ ConvergersHold
    /\ WorkersHold

LEMMA InitLockInv == Init => LockInv
<1> SUFFICES ASSUME Init PROVE LockInv
  OBVIOUS
<1>1. LockTypeOK
  BY DEF Init, LockTypeOK
<1>2. \A p \in Pods : Workers(p) = {}
  BY DEF Init, Workers, Working, IdleTick
<1>3. \A l \in Locks : Holders(l) = {}
  BY DEF Init, Holders
<1>4. \A p \in Pods : ~Converging(p)
  BY DEF Init, Converging
<1> QED BY <1>1, <1>2, <1>3, <1>4 DEF Init, LockInv, OneHolder, ConvergersHold, WorkersHold

LEMMA PodSessions ==
  /\ \A p \in Pods : SessionsOf[p] \subseteq Sessions /\ CliSession \notin SessionsOf[p]
  /\ \A p, q \in Pods : \A s \in SessionsOf[p] : s \in SessionsOf[q] => p = q
  BY SessionsAssumption DEF Sessions

LEMMA WorkersFinite ==
  \A p : IsFiniteSet(Workers(p)) /\ Cardinality(Workers(p)) \in Nat
         /\ (Workers(p) # {} => Cardinality(Workers(p)) > 0)
<1> SUFFICES ASSUME NEW p
             PROVE  /\ IsFiniteSet(Workers(p))
                    /\ Cardinality(Workers(p)) \in Nat
                    /\ Workers(p) # {} => Cardinality(Workers(p)) > 0
  OBVIOUS
<1>1. IsFiniteSet(Workers(p))
  BY FS_Subset DEF Workers
<1>2. Cardinality(Workers(p)) \in Nat
  BY <1>1, FS_CardinalityType
<1> QED BY <1>1, <1>2, FS_EmptySet

(* What the three calls of the database do to the holds.                    *)
LEMMA AcquiredHolds ==
  ASSUME LockTypeOK, NEW l \in Locks, NEW s \in Sessions \cup {CliSession}, held' = Acquired(l, s)
  PROVE  /\ held' \in [Locks -> [Sessions \cup {CliSession} -> Nat]]
         /\ held'[l][s] = held[l][s] + 1
         /\ \A m \in Locks, u \in Sessions \cup {CliSession} :
              m # l \/ u # s => held'[m][u] = held[m][u]
<1>1. held[l][s] + 1 \in Nat
  BY DEF LockTypeOK
<1> QED BY <1>1 DEF LockTypeOK, Acquired

LEMMA ReleasedHolds ==
  ASSUME LockTypeOK, NEW l \in Locks, NEW s \in Sessions \cup {CliSession}, held' = Released(l, s)
  PROVE  /\ held' \in [Locks -> [Sessions \cup {CliSession} -> Nat]]
         /\ held'[l][s] = IF held[l][s] = 0 THEN 0 ELSE held[l][s] - 1
         /\ \A m \in Locks, u \in Sessions \cup {CliSession} :
              m # l \/ u # s => held'[m][u] = held[m][u]
<1>1. held[l][s] \in Nat
  BY DEF LockTypeOK
<1>2. (IF held[l][s] = 0 THEN 0 ELSE held[l][s] - 1) \in Nat
  BY <1>1
<1> QED BY <1>2 DEF LockTypeOK, Released

LEMMA DroppedHolds ==
  ASSUME LockTypeOK, NEW closed, held' = Dropped(closed)
  PROVE  /\ held' \in [Locks -> [Sessions \cup {CliSession} -> Nat]]
         /\ \A m \in Locks, u \in Sessions \cup {CliSession} :
              held'[m][u] = IF u \in closed THEN 0 ELSE held[m][u]
  BY DEF LockTypeOK, Dropped

LEMMA StillOneHolder ==
  ASSUME LockTypeOK, OneHolder, held' \in [Locks -> [Sessions \cup {CliSession} -> Nat]],
         \A m \in Locks, u \in Sessions \cup {CliSession} : held'[m][u] > 0 => held[m][u] > 0
  PROVE  OneHolder'
  BY DEF LockTypeOK, OneHolder, Holders

LEMMA NowOneHolder ==
  ASSUME LockTypeOK, OneHolder, NEW l \in Locks, NEW s \in Sessions \cup {CliSession},
         CanLock(l, s), held' = Acquired(l, s)
  PROVE  OneHolder'
<1>1. \A u \in Sessions \cup {CliSession} : held[l][u] > 0 => u = s
  BY DEF CanLock, Holders, LockTypeOK
<1>2. /\ held' \in [Locks -> [Sessions \cup {CliSession} -> Nat]]
      /\ \A m \in Locks, u \in Sessions \cup {CliSession} :
           m # l \/ u # s => held'[m][u] = held[m][u]
  BY AcquiredHolds
<1> SUFFICES ASSUME NEW m \in Locks, NEW u \in Holders(m)', NEW v \in Holders(m)'
             PROVE  u = v
  BY DEF OneHolder
<1>3. u \in Sessions \cup {CliSession} /\ v \in Sessions \cup {CliSession}
  BY <1>2 DEF Holders
<1>4. CASE m = l
  BY <1>1, <1>2, <1>3, <1>4 DEF Holders
<1>5. CASE m # l
  BY <1>2, <1>3, <1>5 DEF Holders, OneHolder, LockTypeOK
<1> QED BY <1>4, <1>5

(* The holds of the sessions in use do not shrink, and no use begins.       *)
LEMMA HoldsKept ==
  ASSUME LockInv, LockTypeOK', OneHolder', UNCHANGED <<focus, reaped>>,
         \A q \in Pods : /\ Converging(q)' => Converging(q)
                         /\ Workers(q)' = {} \/ Workers(q)' = Workers(q),
         \A q \in Pods : Converging(q)' =>
             \A s \in SessionsOf[q] : held'["schema"][s] = held["schema"][s],
         \A q \in Pods : Workers(q)' # {} =>
             \A s \in SessionsOf[q] : held'["worker"][s] = held["worker"][s],
         cli' = "migrating" => cli = "migrating",
         cli' = "migrating" => held'["schema"][CliSession] = held["schema"][CliSession]
  PROVE  LockInv'
<1>1. ConvergersHold'
  BY DEF LockInv, ConvergersHold
<1>2. WorkersHold'
  <2> SUFFICES ASSUME "worker" \notin reaped, NEW p \in Pods, Workers(p)' # {}
               PROVE  \E s \in SessionsOf[p] : held'["worker"][s] >= Cardinality(Workers(p)')
    BY DEF WorkersHold
  <2>1. PICK s \in SessionsOf[p] : held["worker"][s] >= Cardinality(Workers(p))
    BY DEF LockInv, WorkersHold
  <2> QED BY <2>1
<1>3. (focus = "boot" => \A p \in Pods : Workers(p) = {})'
  BY DEF LockInv
<1>4. (cli = "migrating" => held["schema"][CliSession] > 0)'
  BY DEF LockInv
<1> QED BY <1>1, <1>2, <1>3, <1>4 DEF LockInv

LEMMA HeldUnchanged ==
  ASSUME LockInv, UNCHANGED <<focus, reaped, held>>, DOMAIN boot' = Pods,
         \A q \in Pods : /\ Converging(q)' => Converging(q)
                         /\ Workers(q)' = Workers(q),
         cli' = "migrating" => cli = "migrating"
  PROVE  LockInv'
<1>1. LockTypeOK' /\ OneHolder'
  BY DEF LockInv, LockTypeOK, OneHolder, Holders
<1> QED BY <1>1, HoldsKept

(* A process ends: only its own sessions close, and it uses no lock.        *)
LEMMA ProcessEnds ==
  ASSUME LockInv, NEW p \in Pods, Exit(p), UNCHANGED <<focus, reaped, cli>>,
         Workers(p)' = {}, \A q \in Pods \ {p} : Workers(q)' = Workers(q)
  PROVE  LockInv'
<1>1. /\ held' \in [Locks -> [Sessions \cup {CliSession} -> Nat]]
      /\ \A m \in Locks, u \in Sessions \cup {CliSession} :
           held'[m][u] = IF u \in SessionsOf[p] THEN 0 ELSE held[m][u]
  BY DroppedHolds DEF Exit, LockInv
<1>2. boot' = [boot EXCEPT ![p] = "down"] /\ DOMAIN boot = Pods
  BY DEF Exit, LockInv, LockTypeOK
<1>3. LockTypeOK'
  BY <1>1, <1>2 DEF LockTypeOK
<1>4. OneHolder'
  <2>1. \A m \in Locks, u \in Sessions \cup {CliSession} : held'[m][u] > 0 => held[m][u] > 0
    BY <1>1
  <2> QED BY <1>1, <2>1, StillOneHolder DEF LockInv
<1>5. \A q \in Pods : Converging(q)' => q # p /\ Converging(q)
  BY <1>2 DEF Converging
<1>6. \A q \in Pods : q # p =>
         \A s \in SessionsOf[q], m \in Locks : held'[m][s] = held[m][s]
  BY <1>1, PodSessions
<1>7. held'["schema"][CliSession] = held["schema"][CliSession]
  BY <1>1, PodSessions DEF Locks
<1> QED BY <1>3, <1>4, <1>5, <1>6, <1>7, HoldsKept DEF Locks

LEMMA TicksKeepWorkers ==
  ASSUME UNCHANGED tick
  PROVE  \A q : Workers(q)' = Workers(q)
  BY DEF Workers, Working

LEMMA BootLockInv ==
  ASSUME LockInv, NEW p \in Pods, focus = "boot", UNCHANGED tick,
         \/ BootProcess(p) \/ CheckConnection(p) \/ ConvergeDiff(p)
         \/ ConvergeThrew(p) \/ ValidateCriticalSchema(p) \/ Listen(p)
  PROVE  LockInv'
<1>1. \A q \in Pods : Workers(q)' = Workers(q) /\ Workers(q) = {}
  BY TicksKeepWorkers DEF LockInv
<1>2. DOMAIN boot = Pods
  BY DEF LockInv, LockTypeOK
<1>3. UNCHANGED <<focus, reaped, cli>>
  BY DEF BootProcess, CheckConnection, ConvergeDiff, ConvergeThrew, ValidateCriticalSchema, Listen
<1>4. ASSUME NEW b, boot' = [boot EXCEPT ![p] = b], UNCHANGED held,
             b \in {"converging", "releasing"} => Converging(p)
      PROVE  LockInv'
  <2>1. \A q \in Pods : Converging(q)' => Converging(q)
    BY <1>2, <1>4 DEF Converging
  <2>2. DOMAIN boot' = Pods
    BY <1>2, <1>4
  <2> QED BY <1>1, <1>3, <1>4, <2>1, <2>2, HeldUnchanged
<1>5. ASSUME BootFailed(p) PROVE LockInv'
  BY <1>1, <1>3, <1>4, <1>5, ProcessEnds DEF BootFailed
<1>6. CASE BootProcess(p)
  BY <1>4, <1>6 DEF BootProcess
<1>7. CASE CheckConnection(p)
  BY <1>4, <1>5, <1>7 DEF CheckConnection, BootStep
<1>8. CASE ConvergeDiff(p)
  BY <1>4, <1>8 DEF ConvergeDiff, Converging
<1>9. CASE ConvergeThrew(p)
  BY <1>5, <1>9 DEF ConvergeThrew
<1>10. CASE ValidateCriticalSchema(p)
  BY <1>4, <1>5, <1>10 DEF ValidateCriticalSchema, BootStep
<1>11. CASE Listen(p)
  BY <1>4, <1>11 DEF Listen
<1> QED BY <1>6, <1>7, <1>8, <1>9, <1>10, <1>11

(* The lock is granted to a session: whoever used the lock used it there.   *)
LEMMA ConvergeLockInv ==
  ASSUME LockInv, NEW p \in Pods, UNCHANGED tick, ConvergeLock(p)
  PROVE  LockInv'
<1>1. \A q \in Pods : Workers(q)' = Workers(q)
  BY TicksKeepWorkers
<1>2. LockTypeOK /\ DOMAIN boot = Pods /\ OneHolder
  BY DEF LockInv, LockTypeOK
<1>3. UNCHANGED <<focus, reaped, cli>>
  BY DEF ConvergeLock
<1>4. PICK s \in SessionsOf[p] :
         \/ /\ CanLock("schema", s)
            /\ held' = Acquired("schema", s)
            /\ boot' = [boot EXCEPT ![p] = "converging"]
         \/ /\ boot' = [boot EXCEPT ![p] = "validating"]
            /\ UNCHANGED held
  BY DEF ConvergeLock
<1>5. CASE UNCHANGED held /\ boot' = [boot EXCEPT ![p] = "validating"]
  <2>1. \A q \in Pods : Converging(q)' => Converging(q)
    BY <1>2, <1>5 DEF Converging
  <2>2. DOMAIN boot' = Pods
    BY <1>2, <1>5
  <2> QED BY <1>1, <1>3, <1>5, <2>1, <2>2, HeldUnchanged
<1>6. CASE /\ CanLock("schema", s)
           /\ held' = Acquired("schema", s)
           /\ boot' = [boot EXCEPT ![p] = "converging"]
  <2>1. s \in Sessions \cup {CliSession} /\ s # CliSession /\ "schema" \in Locks /\ "worker" \in Locks
    BY PodSessions DEF Locks
  <2>2. /\ held' \in [Locks -> [Sessions \cup {CliSession} -> Nat]]
        /\ held'["schema"][s] = held["schema"][s] + 1
        /\ \A m \in Locks, u \in Sessions \cup {CliSession} :
              m # "schema" \/ u # s => held'[m][u] = held[m][u]
    BY <1>2, <1>6, <2>1, AcquiredHolds
  <2>3. LockTypeOK' /\ OneHolder'
    <3>1. OneHolder'
      BY <1>2, <1>6, <2>1, NowOneHolder
    <3>2. LockTypeOK'
      BY <1>2, <1>6, <2>2 DEF LockTypeOK
    <3> QED BY <3>1, <3>2
  <2>4. ConvergersHold'
    <3> SUFFICES ASSUME "schema" \notin reaped, NEW q \in Pods, Converging(q)'
                 PROVE  \E u \in SessionsOf[q] : held'["schema"][u] > 0
      BY <1>3 DEF ConvergersHold
    <3>1. CASE q = p
      BY <1>2, <2>1, <2>2, <3>1 DEF LockTypeOK
    <3>2. CASE q # p
      <4>1. Converging(q)
        BY <1>2, <1>6, <3>2 DEF Converging
      <4>2. PICK u \in SessionsOf[q] : held["schema"][u] > 0
        BY <4>1 DEF LockInv, ConvergersHold
      <4> QED BY <2>1, <2>2, <3>2, <4>2, PodSessions
    <3> QED BY <3>1, <3>2
  <2>5. WorkersHold'
    <3>1. \A u \in Sessions : held'["worker"][u] = held["worker"][u]
      BY <2>1, <2>2
    <3>2. ASSUME "worker" \notin reaped, NEW q \in Pods, Workers(q)' # {}
          PROVE  \E u \in SessionsOf[q] : held'["worker"][u] >= Cardinality(Workers(q)')
      <4>1. PICK u \in SessionsOf[q] : held["worker"][u] >= Cardinality(Workers(q))
        BY <1>1, <3>2 DEF LockInv, WorkersHold
      <4> QED BY <1>1, <3>1, <4>1, PodSessions
    <3> QED BY <1>3, <3>2 DEF WorkersHold
  <2>6. (cli = "migrating" => held["schema"][CliSession] > 0)'
    BY <1>3, <2>1, <2>2 DEF LockInv
  <2>7. (focus = "boot" => \A q \in Pods : Workers(q) = {})'
    BY <1>1, <1>3 DEF LockInv
  <2> QED BY <2>3, <2>4, <2>5, <2>6, <2>7 DEF LockInv
<1> QED BY <1>4, <1>5, <1>6

(* The unlock reaches a session of this pod, whose use is over.             *)
LEMMA ConvergeReleaseInv ==
  ASSUME LockInv, NEW p \in Pods, UNCHANGED tick, ConvergeRelease(p)
  PROVE  LockInv'
<1>1. \A q \in Pods : Workers(q)' = Workers(q)
  BY TicksKeepWorkers
<1>2. PICK s \in SessionsOf[p] : held' = Released("schema", s)
  BY DEF ConvergeRelease
<1>3. /\ UNCHANGED <<focus, reaped, cli>> /\ DOMAIN boot = Pods
      /\ \E b \in {"failing", "validating"} : boot' = [boot EXCEPT ![p] = b]
  BY DEF ConvergeRelease, LockInv, LockTypeOK
<1>4. s \in Sessions \cup {CliSession} /\ s # CliSession /\ "schema" \in Locks /\ "worker" \in Locks
  BY PodSessions DEF Locks
<1>5. /\ held' \in [Locks -> [Sessions \cup {CliSession} -> Nat]]
      /\ held'["schema"][s] = IF held["schema"][s] = 0 THEN 0 ELSE held["schema"][s] - 1
      /\ \A m \in Locks, u \in Sessions \cup {CliSession} :
           m # "schema" \/ u # s => held'[m][u] = held[m][u]
  BY <1>2, <1>4, ReleasedHolds DEF LockInv
<1>6. LockTypeOK' /\ OneHolder'
  <2>1. \A m \in Locks, u \in Sessions \cup {CliSession} : held'[m][u] > 0 => held[m][u] > 0
    BY <1>4, <1>5 DEF LockInv, LockTypeOK
  <2>2. OneHolder'
    BY <1>5, <2>1, StillOneHolder DEF LockInv
  <2> QED BY <1>3, <1>5, <2>2 DEF LockTypeOK
<1>7. \A q \in Pods : Converging(q)' => q # p /\ Converging(q)
  BY <1>3 DEF Converging
<1>8. \A q \in Pods : q # p => \A u \in SessionsOf[q] : held'["schema"][u] = held["schema"][u]
  BY <1>4, <1>5, PodSessions
<1>9. \A q \in Pods : \A u \in SessionsOf[q] : held'["worker"][u] = held["worker"][u]
  BY <1>4, <1>5, PodSessions
<1>10. held'["schema"][CliSession] = held["schema"][CliSession]
  BY <1>4, <1>5
<1> QED BY <1>1, <1>3, <1>6, <1>7, <1>8, <1>9, <1>10, HoldsKept

(* The CLI waits for the lock on its own session, which nobody reaps.       *)
LEMMA CliLockInv ==
  ASSUME LockInv, UNCHANGED tick, CliStart \/ CliLock \/ CliMigrate
  PROVE  LockInv'
<1>1. \A q \in Pods : Workers(q)' = Workers(q)
  BY TicksKeepWorkers
<1>2. /\ UNCHANGED <<focus, reaped, boot>>
      /\ \A q \in Pods : Converging(q)' = Converging(q)
      /\ LockTypeOK /\ DOMAIN boot' = Pods /\ OneHolder
  BY DEF CliStart, CliLock, CliMigrate, Converging, LockInv, LockTypeOK
<1>3. /\ CliSession \in Sessions \cup {CliSession} /\ "schema" \in Locks /\ "worker" \in Locks
      /\ \A q \in Pods : \A u \in SessionsOf[q] : u # CliSession /\ u \in Sessions
  BY PodSessions DEF Locks
<1>4. CASE CliStart
  BY <1>1, <1>2, <1>4, HeldUnchanged DEF CliStart
<1>5. CASE CliMigrate
  <2>1. held' = Released("schema", CliSession) /\ cli' = "idle"
    BY <1>5 DEF CliMigrate
  <2>2. /\ held' \in [Locks -> [Sessions \cup {CliSession} -> Nat]]
        /\ held'["schema"][CliSession] =
             IF held["schema"][CliSession] = 0 THEN 0 ELSE held["schema"][CliSession] - 1
        /\ \A m \in Locks, u \in Sessions \cup {CliSession} :
             m # "schema" \/ u # CliSession => held'[m][u] = held[m][u]
    BY <1>2, <1>3, <2>1, ReleasedHolds
  <2>3. LockTypeOK' /\ OneHolder'
    <3>1. \A m \in Locks, u \in Sessions \cup {CliSession} : held'[m][u] > 0 => held[m][u] > 0
      BY <1>2, <1>3, <2>2 DEF LockTypeOK
    <3>2. OneHolder'
      BY <1>2, <2>2, <3>1, StillOneHolder
    <3> QED BY <1>2, <2>2, <3>2 DEF LockTypeOK
  <2>4. \A q \in Pods : \A u \in SessionsOf[q], m \in Locks : held'[m][u] = held[m][u]
    BY <1>3, <2>2
  <2> QED BY <1>1, <1>2, <1>3, <2>1, <2>3, <2>4, HoldsKept
<1>6. CASE CliLock
  <2>1. held' = Acquired("schema", CliSession) /\ CanLock("schema", CliSession)
    BY <1>6 DEF CliLock
  <2>2. /\ held' \in [Locks -> [Sessions \cup {CliSession} -> Nat]]
        /\ held'["schema"][CliSession] = held["schema"][CliSession] + 1
        /\ \A m \in Locks, u \in Sessions \cup {CliSession} :
             m # "schema" \/ u # CliSession => held'[m][u] = held[m][u]
    BY <1>2, <1>3, <2>1, AcquiredHolds
  <2>3. LockTypeOK' /\ OneHolder'
    <3>1. OneHolder'
      BY <1>2, <1>3, <2>1, NowOneHolder
    <3> QED BY <1>2, <2>2, <3>1 DEF LockTypeOK
  <2>4. \A q \in Pods : \A u \in SessionsOf[q], m \in Locks : held'[m][u] = held[m][u]
    BY <1>3, <2>2
  <2>5. ConvergersHold'
    BY <1>2, <1>3, <2>4 DEF LockInv, ConvergersHold
  <2>6. WorkersHold'
    <3>1. ASSUME "worker" \notin reaped, NEW q \in Pods, Workers(q)' # {}
          PROVE  \E u \in SessionsOf[q] : held'["worker"][u] >= Cardinality(Workers(q)')
      <4>1. PICK u \in SessionsOf[q] : held["worker"][u] >= Cardinality(Workers(q))
        BY <1>1, <3>1 DEF LockInv, WorkersHold
      <4> QED BY <1>1, <1>3, <2>4, <4>1
    <3> QED BY <1>2, <3>1 DEF WorkersHold
  <2>7. held'["schema"][CliSession] > 0
    BY <1>2, <1>3, <2>2 DEF LockTypeOK
  <2>8. (focus = "boot" => \A q \in Pods : Workers(q) = {})'
    BY <1>1, <1>2 DEF LockInv
  <2> QED BY <2>3, <2>5, <2>6, <2>7, <2>8 DEF LockInv
<1> QED BY <1>4, <1>5, <1>6

(* The steps of a tick between its lock and its unlock, and before them.    *)
LEMMA TickMoves ==
  ASSUME JobInv, LockInv, NEW p \in Pods, NEW t \in Ticks,
         \/ TickStart(p, t) \/ TickList(p, t) \/ Skip(p, t) \/ Claim(p, t) \/ StartJob(p, t)
         \/ JobTimeout(p, t) \/ Batch(p, t) \/ BatchFails(p, t) \/ CompleteJob(p, t)
         \/ TickEnd(p, t)
  PROVE  LockInv'
<1>1. tick \in [Pods -> [Ticks -> TickRows]] /\ tick[p][t] \in TickRows
  BY DEF JobInv, JobTypeOK
<1>2. UNCHANGED <<focus, reaped, held, boot, cli>>
  BY DEF TickStart, TickList, Skip, Claim, StartJob, JobTimeout, Batch, BatchFails, CompleteJob,
         TickEnd, Finish, planeVars
<1>3. /\ tick' = [tick EXCEPT ![p][t] = tick'[p][t]]
      /\ tick'[p][t].pc \in {"idle", "locking"} <=> tick[p][t].pc \in {"idle", "locking"}
  <2>0. ASSUME NEW k, tick' = [tick EXCEPT ![p][t] = k]
        PROVE  tick'[p][t] = k /\ tick' = [tick EXCEPT ![p][t] = tick'[p][t]]
    BY <1>1, <2>0
  <2>1. CASE TickStart(p, t)
    <3> DEFINE k == [tick[p][t] EXCEPT !.pc = "locking"]
    <3>1. tick' = [tick EXCEPT ![p][t] = k] /\ tick[p][t].pc = "idle"
      BY <2>1 DEF TickStart
    <3>2. k.pc = "locking"
      BY <1>1 DEF TickRows
    <3> HIDE DEF k
    <3> QED BY <2>0, <3>1, <3>2
  <2>2. CASE TickList(p, t)
    <3> DEFINE k == Listed(tick[p][t], GetPendingJobs)
    <3>1. tick' = [tick EXCEPT ![p][t] = k] /\ tick[p][t].pc = "listing"
      BY <2>2 DEF TickList
    <3>2. k.pc = "next"
      BY <1>1 DEF TickRows, Listed
    <3> HIDE DEF k
    <3> QED BY <2>0, <3>1, <3>2
  <2>3. CASE Skip(p, t)
    <3>1. PICK i : tick' = [tick EXCEPT ![p][t].queue = @ \ {i}]
      BY <2>3 DEF Skip
    <3> QED BY <1>1, <3>1 DEF TickRows
  <2>4. CASE Claim(p, t)
    <3>1. PICK i : tick' = [tick EXCEPT ![p][t] = Claimed(@, i)]
      BY <2>4 DEF Claim
    <3>2. tick[p][t].pc = "next"
      BY <2>4 DEF Claim
    <3> DEFINE k == Claimed(tick[p][t], i)
    <3>3. tick' = [tick EXCEPT ![p][t] = k]
      BY <3>1
    <3>4. k.pc = "starting"
      BY <1>1 DEF TickRows, Claimed
    <3> HIDE DEF k
    <3> QED BY <2>0, <3>2, <3>3, <3>4
  <2>5. CASE StartJob(p, t)
    BY <1>1, <2>5 DEF StartJob, TickRows
  <2>6. CASE Batch(p, t)
    BY <1>1, <2>6 DEF Batch, TickRows
  <2>7. ASSUME NEW e, Finish(p, t, e), tick[p][t].pc = "batches"
        PROVE  /\ tick' = [tick EXCEPT ![p][t] = tick'[p][t]]
               /\ tick'[p][t].pc \in {"idle", "locking"} <=> tick[p][t].pc \in {"idle", "locking"}
    <3> DEFINE k == [IdleTick EXCEPT !.pc = "next", !.queue = tick[p][t].queue]
    <3>1. k.pc = "next"
      BY DEF IdleTick
    <3>2. tick' = [tick EXCEPT ![p][t] = k]
      BY <2>7 DEF Finish
    <3> HIDE DEF k
    <3> QED BY <1>1, <2>7, <3>1, <3>2
  <2>8. CASE JobTimeout(p, t)
    BY <2>7, <2>8 DEF JobTimeout, Unfinished
  <2>9. CASE CompleteJob(p, t)
    BY <2>7, <2>9 DEF CompleteJob
  <2>10. CASE BatchFails(p, t)
    <3>1. tick[p][t].pc = "batches"
      BY <2>10 DEF BatchFails, Unfinished
    <3>2. CASE tick[p][t].retries + 1 > MaxRetries
      BY <2>7, <2>10, <3>1, <3>2 DEF BatchFails
    <3>3. CASE ~(tick[p][t].retries + 1 > MaxRetries)
      BY <1>1, <2>10, <3>1, <3>3 DEF BatchFails, TickRows
    <3> QED BY <3>2, <3>3
  <2>11. CASE TickEnd(p, t)
    BY <1>1, <2>11 DEF TickEnd, TickRows
  <2> QED BY <2>1, <2>2, <2>3, <2>4, <2>5, <2>6, <2>8, <2>9, <2>10, <2>11
<1>4. \A q \in Pods, u \in Ticks : (q # p \/ u # t) => tick'[q][u] = tick[q][u]
  BY <1>1, <1>3
<1>5. \A q \in Pods : Workers(q)' = Workers(q)
  BY <1>3, <1>4 DEF Workers, Working
<1>6. \A q \in Pods : Converging(q)' => Converging(q)
  BY <1>2 DEF Converging
<1>7. DOMAIN boot' = Pods
  BY <1>2 DEF LockInv, LockTypeOK
<1> QED BY <1>2, <1>5, <1>6, <1>7, HeldUnchanged

LEMMA TickLockInv ==
  ASSUME JobInv, LockInv, NEW p \in Pods, NEW t \in Ticks, TickLock(p, t), focus # "boot"
  PROVE  LockInv'
<1>1. tick \in [Pods -> [Ticks -> TickRows]] /\ tick[p][t].pc = "locking" /\ t \notin Workers(p)
  BY DEF JobInv, JobTypeOK, TickLock, Workers, Working
<1>2. /\ UNCHANGED <<focus, reaped, boot, cli>> /\ DOMAIN boot' = Pods
      /\ \A q \in Pods : Converging(q)' = Converging(q)
      /\ LockTypeOK /\ OneHolder
  BY DEF TickLock, Converging, LockInv, LockTypeOK
<1>3. PICK s \in SessionsOf[p] :
         \/ /\ CanLock("worker", s)
            /\ held' = Acquired("worker", s)
            /\ tick' = [tick EXCEPT ![p][t].pc = "listing"]
         \/ /\ tick' = [tick EXCEPT ![p][t].pc = "idle"]
            /\ UNCHANGED held
  BY DEF TickLock
<1>4. CASE UNCHANGED held /\ tick' = [tick EXCEPT ![p][t].pc = "idle"]
  <2>1. \A q \in Pods : Workers(q)' = Workers(q)
    BY <1>1, <1>4 DEF Workers, Working, TickRows
  <2> QED BY <1>2, <1>4, <2>1, HeldUnchanged
<1>5. CASE /\ CanLock("worker", s)
           /\ held' = Acquired("worker", s)
           /\ tick' = [tick EXCEPT ![p][t].pc = "listing"]
  <2>1. s \in Sessions \cup {CliSession} /\ s # CliSession /\ "schema" \in Locks /\ "worker" \in Locks
    BY PodSessions DEF Locks
  <2>2. /\ held' \in [Locks -> [Sessions \cup {CliSession} -> Nat]]
        /\ held'["worker"][s] = held["worker"][s] + 1
        /\ \A m \in Locks, u \in Sessions \cup {CliSession} :
              m # "worker" \/ u # s => held'[m][u] = held[m][u]
    BY <1>2, <1>5, <2>1, AcquiredHolds
  <2>3. LockTypeOK' /\ OneHolder'
    <3>1. OneHolder'
      BY <1>2, <1>5, <2>1, NowOneHolder
    <3> QED BY <1>2, <2>2, <3>1 DEF LockTypeOK
  <2>4. ConvergersHold'
    <3>1. \A u \in Sessions : held'["schema"][u] = held["schema"][u]
      BY <2>1, <2>2
    <3> QED BY <1>2, <3>1, PodSessions DEF LockInv, ConvergersHold
  <2>5. /\ Workers(p)' = Workers(p) \cup {t}
        /\ \A q \in Pods : q # p => Workers(q)' = Workers(q)
    BY <1>1, <1>5 DEF Workers, Working, TickRows
  <2>6. \A u \in Sessions : held["worker"][u] > 0 => u = s
    BY <1>2, <1>5, <2>1 DEF CanLock, Holders, LockTypeOK
  <2>7. ASSUME "worker" \notin reaped, NEW q \in Pods, Workers(q) # {}
        PROVE  q = p /\ held["worker"][s] >= Cardinality(Workers(q))
    <3>1. PICK u \in SessionsOf[q] : held["worker"][u] >= Cardinality(Workers(q))
      BY <2>7 DEF LockInv, WorkersHold
    <3>2. u \in Sessions /\ held["worker"][u] \in Nat
      BY <1>2, <2>1, PodSessions DEF LockTypeOK
    <3>3. Cardinality(Workers(q)) \in Nat /\ Cardinality(Workers(q)) > 0
      BY <2>7, WorkersFinite
    <3>4. u = s
      BY <2>6, <3>1, <3>2, <3>3
    <3> QED BY <3>1, <3>4, PodSessions
  <2>8. WorkersHold'
    <3> SUFFICES ASSUME "worker" \notin reaped, NEW q \in Pods, Workers(q)' # {}
                 PROVE  \E u \in SessionsOf[q] : held'["worker"][u] >= Cardinality(Workers(q)')
      BY <1>2 DEF WorkersHold
    <3>1. q = p
      BY <2>5, <2>7
    <3>2. Cardinality(Workers(p)') = Cardinality(Workers(p)) + 1
      BY <1>1, <2>5, WorkersFinite, FS_AddElement
    <3>3. held["worker"][s] \in Nat /\ Cardinality(Workers(p)) \in Nat
      BY <1>2, <2>1, WorkersFinite DEF LockTypeOK
    <3>4. held["worker"][s] >= Cardinality(Workers(p))
      <4>1. CASE Workers(p) = {}
        BY <3>3, <4>1, FS_EmptySet
      <4>2. CASE Workers(p) # {}
        BY <2>7, <4>2
      <4> QED BY <4>1, <4>2
    <3> QED BY <2>2, <3>1, <3>2, <3>3, <3>4
  <2>9. (cli = "migrating" => held["schema"][CliSession] > 0)'
    BY <1>2, <2>1, <2>2 DEF LockInv
  <2> QED BY <1>2, <2>3, <2>4, <2>8, <2>9 DEF LockInv
<1> QED BY <1>3, <1>4, <1>5

(* One use ends and at most one hold goes, wherever the unlock arrives.     *)
LEMMA TickUnlockInv ==
  ASSUME JobInv, LockInv, NEW p \in Pods, NEW t \in Ticks, TickUnlock(p, t), focus # "boot"
  PROVE  LockInv'
<1>1. tick \in [Pods -> [Ticks -> TickRows]] /\ t \in Workers(p)
  BY DEF JobInv, JobTypeOK, TickUnlock, Workers, Working
<1>2. /\ UNCHANGED <<focus, reaped, boot, cli>> /\ DOMAIN boot' = Pods
      /\ LockTypeOK /\ OneHolder
  BY DEF TickUnlock, LockInv, LockTypeOK
<1>3. PICK s \in SessionsOf[p] : held' = Released("worker", s)
  BY DEF TickUnlock
<1>4. s \in Sessions \cup {CliSession} /\ s # CliSession /\ "schema" \in Locks /\ "worker" \in Locks
  BY PodSessions DEF Locks
<1>5. /\ held' \in [Locks -> [Sessions \cup {CliSession} -> Nat]]
      /\ held'["worker"][s] = IF held["worker"][s] = 0 THEN 0 ELSE held["worker"][s] - 1
      /\ \A m \in Locks, u \in Sessions \cup {CliSession} :
           m # "worker" \/ u # s => held'[m][u] = held[m][u]
  BY <1>2, <1>3, <1>4, ReleasedHolds
<1>6. LockTypeOK' /\ OneHolder'
  <2>1. \A m \in Locks, u \in Sessions \cup {CliSession} : held'[m][u] > 0 => held[m][u] > 0
    BY <1>2, <1>4, <1>5 DEF LockTypeOK
  <2>2. OneHolder'
    BY <1>2, <1>5, <2>1, StillOneHolder
  <2> QED BY <1>2, <1>5, <2>2 DEF LockTypeOK
<1>7. /\ Workers(p)' = Workers(p) \ {t}
      /\ \A q \in Pods : q # p => Workers(q)' = Workers(q)
  <2> DEFINE k == [tick[p][t] EXCEPT !.pc = "idle"]
  <2>a. tick[p][t] \in TickRows
    BY <1>1
  <2>b. k \in TickRows /\ k.pc = "idle"
    BY <2>a DEF TickRows
  <2>1. tick' = [tick EXCEPT ![p][t] = k]
    BY DEF TickUnlock
  <2> HIDE DEF k
  <2>2. /\ tick'[p][t].pc = "idle"
        /\ \A q \in Pods, u \in Ticks : (q # p \/ u # t) => tick'[q][u] = tick[q][u]
    BY <1>1, <2>b, <2>1, TickUpdate
  <2> QED BY <2>2 DEF Workers, Working
<1>8. ConvergersHold'
  <2>1. \A u \in Sessions : held'["schema"][u] = held["schema"][u]
    BY <1>4, <1>5
  <2> QED BY <1>2, <2>1, PodSessions DEF LockInv, ConvergersHold, Converging
<1>9. WorkersHold'
  <2> SUFFICES ASSUME "worker" \notin reaped, NEW q \in Pods, Workers(q)' # {}
               PROVE  \E u \in SessionsOf[q] : held'["worker"][u] >= Cardinality(Workers(q)')
    BY <1>2 DEF WorkersHold
  <2>1. PICK u \in SessionsOf[q] : held["worker"][u] >= Cardinality(Workers(q))
    BY <1>7 DEF LockInv, WorkersHold
  <2>2. u \in Sessions /\ held["worker"][u] \in Nat /\ Cardinality(Workers(q)) \in Nat
    BY <1>2, <1>4, WorkersFinite, PodSessions DEF LockTypeOK
  <2>3. CASE q # p
    BY <1>4, <1>5, <1>7, <2>1, <2>2, <2>3, PodSessions
  <2>4. CASE q = p
    <3>1. Cardinality(Workers(p)') = Cardinality(Workers(p)) - 1
      <4>1. IsFiniteSet(Workers(p))
        BY WorkersFinite
      <4>2. t \in Workers(p) /\ Workers(p)' = Workers(p) \ {t}
        BY <1>1, <1>7
      <4>3. Cardinality(Workers(p) \ {t}) = Cardinality(Workers(p)) - 1
        BY <4>1, <4>2, FS_RemoveElement
      <4> QED BY <4>2, <4>3
    <3>2. held'["worker"][u] = held["worker"][u] \/ held'["worker"][u] = held["worker"][u] - 1
          \/ (held["worker"][u] = 0 /\ held'["worker"][u] = 0)
      BY <1>4, <1>5, <2>2
    <3> QED BY <2>1, <2>2, <2>4, <3>1, <3>2
  <2> QED BY <2>3, <2>4
<1>10. (cli = "migrating" => held["schema"][CliSession] > 0)'
  BY <1>2, <1>4, <1>5 DEF LockInv
<1> QED BY <1>2, <1>6, <1>8, <1>9, <1>10 DEF LockInv

(* A session that its pod uses a lock through puts the lock among reaped.   *)
LEMMA ReapLockInv ==
  ASSUME LockInv, NEW s \in Sessions, Reap(s)
  PROVE  LockInv'
<1>1. /\ held' = Dropped({s}) /\ LockTypeOK /\ OneHolder
      /\ reaped' = reaped \cup {l \in UsedBy(PodOf(s)) : held[l][s] > 0}
      /\ UNCHANGED <<focus, boot, cli, tick>>
  BY DEF Reap, LockInv, jobVars
<1>2. /\ held' \in [Locks -> [Sessions \cup {CliSession} -> Nat]]
      /\ \A m \in Locks, u \in Sessions \cup {CliSession} :
           held'[m][u] = IF u \in {s} THEN 0 ELSE held[m][u]
  BY <1>1, DroppedHolds
<1>3. "schema" \in Locks /\ "worker" \in Locks /\ s # CliSession
  BY SessionsAssumption DEF Locks
<1>4. LockTypeOK' /\ OneHolder'
  <2>1. \A m \in Locks, u \in Sessions \cup {CliSession} : held'[m][u] > 0 => held[m][u] > 0
    BY <1>2
  <2>2. OneHolder'
    BY <1>1, <1>2, <2>1, StillOneHolder
  <2> QED BY <1>1, <1>2, <2>2 DEF LockTypeOK
<1>5. \A q \in Pods : s \in SessionsOf[q] => PodOf(s) = q
  BY PodSessions DEF PodOf
<1>6. \A q \in Pods : Workers(q)' = Workers(q) /\ Converging(q)' = Converging(q)
  BY <1>1, TicksKeepWorkers DEF Converging
<1>7. ConvergersHold'
  <2> SUFFICES ASSUME "schema" \notin reaped', NEW q \in Pods, Converging(q)
               PROVE  \E u \in SessionsOf[q] : held'["schema"][u] > 0
    BY <1>6 DEF ConvergersHold
  <2>1. PICK u \in SessionsOf[q] : held["schema"][u] > 0
    BY <1>1 DEF LockInv, ConvergersHold
  <2>2. u # s
    <3> SUFFICES ASSUME u = s PROVE FALSE
      OBVIOUS
    <3>1. "schema" \in UsedBy(PodOf(s))
      BY <1>5 DEF UsedBy
    <3> QED BY <1>1, <2>1, <3>1
  <2> QED BY <1>2, <1>3, <2>1, <2>2, PodSessions
<1>8. WorkersHold'
  <2> SUFFICES ASSUME "worker" \notin reaped', NEW q \in Pods, Workers(q) # {}
               PROVE  \E u \in SessionsOf[q] : held'["worker"][u] >= Cardinality(Workers(q))
    BY <1>6 DEF WorkersHold
  <2>1. PICK u \in SessionsOf[q] : held["worker"][u] >= Cardinality(Workers(q))
    BY <1>1 DEF LockInv, WorkersHold
  <2>2. u \in Sessions /\ held["worker"][u] > 0
    <3>1. u \in Sessions /\ held["worker"][u] \in Nat
      BY <1>1, <1>3, PodSessions DEF LockTypeOK
    <3>2. Cardinality(Workers(q)) \in Nat /\ Cardinality(Workers(q)) > 0
      BY WorkersFinite
    <3> QED BY <2>1, <3>1, <3>2
  <2>3. u # s
    <3> SUFFICES ASSUME u = s PROVE FALSE
      OBVIOUS
    <3>1. "worker" \in UsedBy(PodOf(s))
      BY <1>5 DEF UsedBy, Workers
    <3> QED BY <1>1, <2>2, <3>1
  <2> QED BY <1>2, <1>3, <2>1, <2>2, <2>3
<1>9. (cli = "migrating" => held["schema"][CliSession] > 0)'
  BY <1>1, <1>2, <1>3 DEF LockInv
<1>10. (focus = "boot" => \A q \in Pods : Workers(q) = {})'
  BY <1>1, <1>6 DEF LockInv
<1> QED BY <1>4, <1>7, <1>8, <1>9, <1>10 DEF LockInv

LEMMA CrashLockInv ==
  ASSUME JobInv, LockInv, NEW p \in Pods, Crash(p)
  PROVE  LockInv'
<1>1. tick' = [tick EXCEPT ![p] = [t \in Ticks |-> IdleTick]] /\ tick \in [Pods -> [Ticks -> TickRows]]
  BY DEF Crash, JobInv, JobTypeOK
<1>2. Workers(p)' = {}
  BY <1>1 DEF Workers, Working, IdleTick
<1>3. \A q \in Pods \ {p} : Workers(q)' = Workers(q)
  BY <1>1 DEF Workers, Working
<1> QED BY <1>2, <1>3, ProcessEnds DEF Crash

LEMMA NextLockInv == JobInv /\ LockInv /\ [Next]_vars => LockInv'
<1> SUFFICES ASSUME JobInv, LockInv, [Next]_vars PROVE LockInv'
  OBVIOUS
<1>1. ASSUME NEW p \in Pods, NEW t \in TicksOf[p] PROVE t \in Ticks
  BY DEF Ticks
<1>2. ASSUME UNCHANGED <<focus, held, reaped, boot, cli, tick>> PROVE LockInv'
  <2>1. \A q \in Pods : Workers(q)' = Workers(q) /\ Converging(q)' = Converging(q)
    BY <1>2, TicksKeepWorkers DEF Converging
  <2>2. DOMAIN boot' = Pods
    BY <1>2 DEF LockInv, LockTypeOK
  <2> QED BY <1>2, <2>1, <2>2, HeldUnchanged
<1>3. CASE UNCHANGED vars
  BY <1>2, <1>3 DEF vars, planeVars, jobVars
<1>4. CASE focus = "boot" /\ BootNext
  BY <1>4, BootLockInv, ConvergeLockInv, ConvergeReleaseInv, CliLockInv DEF BootNext, jobVars
<1>5. ASSUME NEW p \in Pods, NEW t \in TicksOf[p], TickStart(p, t) PROVE LockInv'
  BY <1>1, <1>5, TickMoves
<1>6. CASE DriftNext
  <2>1. CASE CliStart \/ CliLock \/ CliMigrate
    BY <1>6, <2>1, CliLockInv DEF DriftNext, jobVars
  <2>2. ASSUME NEW p \in Watched,
               StartAnalysis(p) \/ CheckFullDrift(p) \/ EndAnalysis(p) \/ CacheExpires(p)
        PROVE  LockInv'
    BY <1>2, <1>6, <2>2 DEF DriftNext, jobVars, StartAnalysis, CheckFullDrift, EndAnalysis, CacheExpires
  <2> QED BY <1>6, <2>1, <2>2 DEF DriftNext
<1>7. CASE focus = "jobs" /\ TickNext
  <2>1. PICK p \in Pods : \E u \in TicksOf[p] :
           TickStart(p, u) \/ TickLock(p, u) \/ TickList(p, u) \/ TickEnd(p, u) \/ TickUnlock(p, u)
    BY <1>7 DEF TickNext
  <2>2. PICK t \in TicksOf[p] :
           TickStart(p, t) \/ TickLock(p, t) \/ TickList(p, t) \/ TickEnd(p, t) \/ TickUnlock(p, t)
    BY <2>1
  <2>3. t \in Ticks /\ focus # "boot"
    BY <1>1, <1>7
  <2>4. CASE TickLock(p, t)
    BY <2>3, <2>4, TickLockInv
  <2>5. CASE TickUnlock(p, t)
    BY <2>3, <2>5, TickUnlockInv
  <2>6. CASE TickStart(p, t) \/ TickList(p, t) \/ TickEnd(p, t)
    BY <2>3, <2>6, TickMoves
  <2> QED BY <2>2, <2>4, <2>5, <2>6
<1>8. CASE JobNext
  <2>1. ASSUME NEW p \in Pods, NEW t \in TicksOf[p],
               Skip(p, t) \/ Claim(p, t) \/ StartJob(p, t) \/ JobTimeout(p, t) \/ Batch(p, t)
                 \/ BatchFails(p, t) \/ CompleteJob(p, t)
        PROVE  LockInv'
    BY <1>1, <2>1, TickMoves
  <2>2. ASSUME NEW j \in Jobs,
               \/ InsertRow(j) \/ MarkReady(j) \/ MarkAsMigrated(j)
               \/ \E p \in Pods : CheckReadiness(p, j)
               \/ \E p \in Asked : RetryJob(p, j) \/ CancelJob(p, j)
        PROVE  LockInv'
    BY <1>2, <2>2 DEF RetryJob, InsertRow, MarkReady, MarkAsMigrated, CancelJob, CheckReadiness,
                      Operate, planeVars
  <2>3. ASSUME NEW c \in calls, SaveCall(c) \/ ForgetJob(c)
        PROVE  LockInv'
    BY <1>2, <2>3 DEF SaveCall, ForgetJob, planeVars
  <2> QED BY <1>8, <2>1, <2>2, <2>3 DEF JobNext
<1>9. ASSUME NEW s \in Sessions, Reap(s) PROVE LockInv'
  BY <1>9, ReapLockInv
<1>10. ASSUME NEW p \in Pods, Crash(p) PROVE LockInv'
  BY <1>10, CrashLockInv
<1> QED BY <1>3, <1>4, <1>5, <1>6, <1>7, <1>8, <1>9, <1>10 DEF Next

THEOREM LockInvariant == Spec => []LockInv
  BY InitLockInv, NextLockInv, JobInvariant, PTL DEF Spec

(* While no pool closed a session under a user of its lock, two pods are    *)
(* never in their ticks together, nor converging together or beside the     *)
(* migration CLI (acquireLock, releaseLock on pooled sessions).             *)
THEOREM LocksAreExclusive == Spec => []LocksExclude
<1>1. LockInv => LocksExclude
  <2> SUFFICES ASSUME LockInv PROVE LocksExclude
    OBVIOUS
  <2>1. /\ held \in [Locks -> [Sessions \cup {CliSession} -> Nat]]
        /\ "schema" \in Locks /\ "worker" \in Locks
    BY DEF LockInv, LockTypeOK, Locks
  <2>2. \A l \in Locks : \A s, u \in Sessions \cup {CliSession} :
           held[l][s] > 0 /\ held[l][u] > 0 => s = u
    BY <2>1 DEF LockInv, OneHolder, Holders
  <2>3. ASSUME "worker" \notin reaped, NEW p \in Pods, NEW q \in Pods,
               \E t, u \in Ticks : Working(p, t) /\ Working(q, u)
        PROVE  p = q
    <3>1. Workers(p) # {} /\ Workers(q) # {}
      BY <2>3 DEF Workers
    <3>2. ASSUME NEW r \in Pods, Workers(r) # {}
          PROVE  \E s \in SessionsOf[r] : held["worker"][s] > 0
      <4>1. PICK s \in SessionsOf[r] : held["worker"][s] >= Cardinality(Workers(r))
        BY <2>3, <3>2 DEF LockInv, WorkersHold
      <4>2. Cardinality(Workers(r)) \in Nat /\ Cardinality(Workers(r)) > 0
        BY <3>2, WorkersFinite
      <4>3. held["worker"][s] \in Nat
        BY <2>1, PodSessions
      <4> QED BY <4>1, <4>2, <4>3
    <3>3. PICK s \in SessionsOf[p] : held["worker"][s] > 0
      BY <3>1, <3>2
    <3>4. PICK u \in SessionsOf[q] : held["worker"][u] > 0
      BY <3>1, <3>2
    <3> QED BY <2>1, <2>2, <3>3, <3>4, PodSessions
  <2>4. ASSUME "schema" \notin reaped, NEW p \in Pods, Converging(p)
        PROVE  cli # "migrating" /\ \A q \in Pods \ {p} : ~Converging(q)
    <3>1. PICK s \in SessionsOf[p] : held["schema"][s] > 0
      BY <2>4 DEF LockInv, ConvergersHold
    <3>2. cli # "migrating"
      BY <2>1, <2>2, <3>1, PodSessions DEF LockInv
    <3>3. ASSUME NEW q \in Pods \ {p}, Converging(q) PROVE FALSE
      <4>1. PICK u \in SessionsOf[q] : held["schema"][u] > 0
        BY <2>4, <3>3 DEF LockInv, ConvergersHold
      <4> QED BY <2>1, <2>2, <3>1, <4>1, PodSessions
    <3> QED BY <3>2, <3>3
  <2> QED BY <2>3, <2>4 DEF LocksExclude
<1> QED BY <1>1, LockInvariant, PTL

-----------------------------------------------------------------------------
(* The drift analyses of a pod.  One is under way at most, and it started   *)
(* after every one that ended, so the cache holds the report of the newest. *)

Analyses == [seq : Nat, read : BOOLEAN, drift : BOOLEAN, deviates : BOOLEAN]
Caches == [report : {"none", "drift", "clean"}, fresh : BOOLEAN, error : {"none", "recent", "old"}]

DriftTypeOK ==
    /\ focus = "drift" => database \in Databases
    /\ analyses \in [Pods -> SUBSET Analyses]
    /\ cache \in [Pods -> Caches]
    /\ newest \in [Pods -> [seq : Nat, drift : BOOLEAN]]
    /\ spent.analyses \in Nat /\ DOMAIN spent = {"faults", "operations", "analyses", "migrations"}

AnalysisInv(p) ==
    /\ \A a, b \in analyses[p] : a = b
    /\ \A a \in analyses[p] : a.seq <= spent.analyses /\ newest[p].seq < a.seq
    /\ \A a \in analyses[p] : a.deviates => a.drift
    /\ newest[p].seq <= spent.analyses
    /\ cache[p].fresh /\ newest[p].drift => cache[p].report = "drift"

DriftInv == DriftTypeOK /\ \A p \in Pods : AnalysisInv(p)

LEMMA InitDriftInv == Init => DriftInv
<1> SUFFICES ASSUME Init PROVE DriftInv
  OBVIOUS
<1>1. DriftTypeOK
  <2>1. focus = "drift" => database \in Databases
    BY DEF Init, Possible
  <2>2. spent.analyses = 0 /\ DOMAIN spent = {"faults", "operations", "analyses", "migrations"}
    BY DEF Init
  <2> QED BY <2>1, <2>2 DEF Init, DriftTypeOK, FreshCache, Caches
<1>2. ASSUME NEW p \in Pods PROVE AnalysisInv(p)
  BY DEF Init, AnalysisInv, FreshCache
<1> QED BY <1>1, <1>2 DEF DriftInv

(* Nothing of the pods' reports is written, or a pod forgets them.          *)
LEMMA DriftKept ==
  ASSUME DriftInv, UNCHANGED <<focus, analyses, cache, newest>>,
         focus = "drift" => database' \in Databases,
         spent'.analyses = spent.analyses, DOMAIN spent' = DOMAIN spent
  PROVE  DriftInv'
<1>1. DriftTypeOK'
  BY DEF DriftInv, DriftTypeOK
<1>2. ASSUME NEW p \in Pods PROVE AnalysisInv(p)'
  BY DEF DriftInv, AnalysisInv
<1> QED BY <1>1, <1>2 DEF DriftInv

LEMMA DriftForgotten ==
  ASSUME DriftInv, NEW p \in Pods, Exit(p), UNCHANGED <<focus, database>>,
         spent'.analyses = spent.analyses, DOMAIN spent' = DOMAIN spent
  PROVE  DriftInv'
<1>1. /\ analyses' = [analyses EXCEPT ![p] = {}]
      /\ cache' = [cache EXCEPT ![p] = FreshCache]
      /\ newest' = [newest EXCEPT ![p] = [seq |-> 0, drift |-> FALSE]]
  BY DEF Exit
<1>2. FreshCache \in Caches /\ ~FreshCache.fresh
  BY DEF FreshCache, Caches
<1>3. DriftTypeOK'
  BY <1>1, <1>2 DEF DriftInv, DriftTypeOK
<1>4. ASSUME NEW q \in Pods PROVE AnalysisInv(q)'
  <2>1. CASE q = p
    BY <1>1, <1>2, <2>1 DEF DriftInv, DriftTypeOK, AnalysisInv
  <2>2. CASE q # p
    BY <1>1, <2>2 DEF DriftInv, DriftTypeOK, AnalysisInv
  <2> QED BY <2>1, <2>2
<1> QED BY <1>3, <1>4 DEF DriftInv

LEMMA StartAnalysisInv ==
  ASSUME DriftInv, NEW p \in Pods, StartAnalysis(p)
  PROVE  DriftInv'
<1> DEFINE n == spent.analyses + 1
           a == [seq |-> n, read |-> FALSE, drift |-> FALSE, deviates |-> FALSE]
<1>1. spent'.analyses = n /\ DOMAIN spent' = DOMAIN spent /\ n \in Nat
  BY DEF StartAnalysis, DriftInv, DriftTypeOK
<1>2. /\ UNCHANGED <<focus, database, cache, newest>> /\ analyses[p] = {}
      /\ analyses' = [analyses EXCEPT ![p] = {a}]
  BY <1>1 DEF StartAnalysis, MayAnalyse, DriftInv, DriftTypeOK
<1>3. a \in Analyses /\ a.seq = n /\ ~a.deviates
  BY <1>1 DEF Analyses
<1> HIDE DEF a
<1>4. DriftTypeOK'
  BY <1>1, <1>2, <1>3 DEF DriftInv, DriftTypeOK
<1>5. ASSUME NEW q \in Pods PROVE AnalysisInv(q)'
  <2>1. newest[q].seq \in Nat /\ newest[q].seq <= spent.analyses /\ spent.analyses \in Nat
    BY DEF DriftInv, DriftTypeOK, AnalysisInv
  <2>2. CASE q = p
    <3>1. analyses'[q] = {a}
      BY <1>2, <2>2 DEF DriftInv, DriftTypeOK
    <3> QED BY <1>1, <1>2, <1>3, <2>1, <3>1 DEF DriftInv, AnalysisInv
  <2>3. CASE q # p
    <3>1. analyses'[q] = analyses[q] /\ \A b \in analyses[q] : b.seq \in Nat
      BY <1>2, <2>3 DEF DriftInv, DriftTypeOK, Analyses
    <3> QED BY <1>1, <1>2, <2>1, <3>1 DEF DriftInv, AnalysisInv
  <2> QED BY <2>2, <2>3
<1> QED BY <1>4, <1>5 DEF DriftInv

(* The comparison finds every database the entities cannot work with.       *)
LEMMA CheckFullDriftInv ==
  ASSUME DriftInv, NEW p \in Pods, focus = "drift", CheckFullDrift(p)
  PROVE  DriftInv'
<1>1. PICK a \in analyses[p], fails \in BOOLEAN, lists \in BOOLEAN :
         LET waits == pending /\ ~lists
             drift == waits \/ (~fails /\ CompareSchemas(database) # {})
             deviates == waits \/ (~fails /\ database \notin Conforming)
         IN  analyses' = [analyses EXCEPT ![p] = (@ \ {a}) \cup
               {[a EXCEPT !.read = TRUE, !.drift = drift, !.deviates = deviates]}]
  BY DEF CheckFullDrift
<1> DEFINE waits == pending /\ ~lists
           drift == waits \/ (~fails /\ CompareSchemas(database) # {})
           deviates == waits \/ (~fails /\ database \notin Conforming)
           b == [a EXCEPT !.read = TRUE, !.drift = drift, !.deviates = deviates]
<1>2. a \in Analyses /\ database \in Databases /\ analyses[p] = {a}
  BY DEF DriftInv, DriftTypeOK, AnalysisInv
<1>3. deviates => drift
  BY <1>2, ConformingAssumption
<1>4. drift \in BOOLEAN /\ deviates \in BOOLEAN
  OBVIOUS
<1>5. analyses' = [analyses EXCEPT ![p] = {b}]
  <2>1. analyses' = [analyses EXCEPT ![p] = (analyses[p] \ {a}) \cup {b}]
    BY <1>1
  <2>2. (analyses[p] \ {a}) \cup {b} = {b}
    BY <1>2
  <2> QED BY <2>1, <2>2
<1> HIDE DEF drift, deviates
<1>6. b \in Analyses /\ b.seq = a.seq /\ (b.deviates => b.drift)
  BY <1>2, <1>3, <1>4 DEF Analyses
<1> HIDE DEF b
<1>7. UNCHANGED <<focus, database, cache, newest, spent>>
  BY DEF CheckFullDrift
<1>8. DriftTypeOK'
  BY <1>5, <1>6, <1>7 DEF DriftInv, DriftTypeOK
<1>9. ASSUME NEW q \in Pods PROVE AnalysisInv(q)'
  <2>1. CASE q = p
    BY <1>2, <1>5, <1>6, <1>7, <2>1 DEF DriftInv, DriftTypeOK, AnalysisInv
  <2>2. CASE q # p
    BY <1>5, <1>7, <2>2 DEF DriftInv, DriftTypeOK, AnalysisInv
  <2> QED BY <2>1, <2>2
<1> QED BY <1>8, <1>9 DEF DriftInv

(* The analysis that ends is the newest; one that failed keeps the report.  *)
LEMMA EndAnalysisInv ==
  ASSUME DriftInv, NEW p \in Pods, EndAnalysis(p)
  PROVE  DriftInv'
<1>1. PICK a \in analyses[p] :
        /\ analyses' = [analyses EXCEPT ![p] = @ \ {a}]
        /\ \/ /\ a.read
              /\ cache' = [cache EXCEPT ![p] = CacheUpdate(@, IF a.drift THEN "drift" ELSE "clean")]
              /\ newest' = [newest EXCEPT ![p] =
                              IF a.seq > @.seq THEN [seq |-> a.seq, drift |-> a.deviates] ELSE @]
           \/ /\ ~a.read
              /\ cache' = [cache EXCEPT ![p] = CacheMarkFailed(@)]
              /\ UNCHANGED newest
  BY DEF EndAnalysis
<1>2. UNCHANGED <<focus, database, spent>>
  BY DEF EndAnalysis
<1>3. /\ a \in Analyses /\ cache[p] \in Caches /\ newest[p] \in [seq : Nat, drift : BOOLEAN]
      /\ a.seq > newest[p].seq /\ a.seq <= spent.analyses /\ spent.analyses \in Nat
      /\ analyses[p] \ {a} = {} /\ (a.deviates => a.drift)
  BY DEF DriftInv, DriftTypeOK, AnalysisInv, Analyses
<1>4. analyses' = [analyses EXCEPT ![p] = {}]
  BY <1>1, <1>3
<1>5. PICK c \in Caches, n \in [seq : Nat, drift : BOOLEAN] :
        /\ cache' = [cache EXCEPT ![p] = c]
        /\ newest' = [newest EXCEPT ![p] = n]
        /\ n.seq <= spent.analyses
        /\ c.fresh /\ n.drift => c.report = "drift"
  <2>1. CASE a.read
    <3> DEFINE c == CacheUpdate(cache[p], IF a.drift THEN "drift" ELSE "clean")
               n == [seq |-> a.seq, drift |-> a.deviates]
    <3>1. c \in Caches /\ (a.drift => c.report = "drift")
      BY <1>3 DEF CacheUpdate, Caches
    <3>2. n \in [seq : Nat, drift : BOOLEAN] /\ n.seq = a.seq /\ n.drift = a.deviates
      BY <1>3 DEF Analyses
    <3>3. cache' = [cache EXCEPT ![p] = c] /\ newest' = [newest EXCEPT ![p] = n]
      BY <1>1, <1>3, <2>1
    <3> HIDE DEF c, n
    <3> QED BY <1>3, <3>1, <3>2, <3>3
  <2>2. CASE ~a.read
    <3> DEFINE c == CacheMarkFailed(cache[p])
    <3>1. c \in Caches /\ c.fresh = cache[p].fresh /\ c.report = cache[p].report
      BY <1>3 DEF CacheMarkFailed, Caches
    <3>2. cache' = [cache EXCEPT ![p] = c] /\ newest' = [newest EXCEPT ![p] = newest[p]]
      BY <1>1, <2>2 DEF DriftInv, DriftTypeOK
    <3>3. newest[p].seq <= spent.analyses /\ (cache[p].fresh /\ newest[p].drift => cache[p].report = "drift")
      BY DEF DriftInv, AnalysisInv
    <3> HIDE DEF c
    <3> QED BY <1>3, <3>1, <3>2, <3>3
  <2> QED BY <2>1, <2>2
<1>6. DriftTypeOK'
  BY <1>2, <1>4, <1>5 DEF DriftInv, DriftTypeOK
<1>7. ASSUME NEW q \in Pods PROVE AnalysisInv(q)'
  <2>1. CASE q = p
    BY <1>2, <1>4, <1>5, <2>1 DEF DriftInv, DriftTypeOK, AnalysisInv
  <2>2. CASE q # p
    BY <1>2, <1>4, <1>5, <2>2 DEF DriftInv, DriftTypeOK, AnalysisInv
  <2> QED BY <2>1, <2>2
<1> QED BY <1>6, <1>7 DEF DriftInv

LEMMA CacheExpiresInv ==
  ASSUME DriftInv, NEW p \in Pods, CacheExpires(p)
  PROVE  DriftInv'
<1>1. UNCHANGED <<focus, database, analyses, newest, spent>>
  BY DEF CacheExpires
<1>2. cache \in [Pods -> Caches] /\ cache[p] \in Caches
  BY DEF DriftInv, DriftTypeOK
<1>3. PICK c \in Caches : /\ cache' = [cache EXCEPT ![p] = c]
                          /\ c.fresh => cache[p].fresh
                          /\ c.report = cache[p].report
  <2>1. CASE cache' = [cache EXCEPT ![p].fresh = FALSE]
    <3> DEFINE c == [cache[p] EXCEPT !.fresh = FALSE]
    <3>1. c \in Caches /\ ~c.fresh /\ c.report = cache[p].report
      BY <1>2 DEF Caches
    <3>2. cache' = [cache EXCEPT ![p] = c]
      BY <1>2, <2>1
    <3> HIDE DEF c
    <3> QED BY <3>1, <3>2
  <2>2. CASE cache' = [cache EXCEPT ![p].error = "old"]
    <3> DEFINE c == [cache[p] EXCEPT !.error = "old"]
    <3>1. c \in Caches /\ c.fresh = cache[p].fresh /\ c.report = cache[p].report
      BY <1>2 DEF Caches
    <3>2. cache' = [cache EXCEPT ![p] = c]
      BY <1>2, <2>2
    <3> HIDE DEF c
    <3> QED BY <3>1, <3>2
  <2> QED BY <2>1, <2>2 DEF CacheExpires
<1>4. DriftTypeOK'
  BY <1>1, <1>2, <1>3 DEF DriftInv, DriftTypeOK
<1>5. ASSUME NEW q \in Pods PROVE AnalysisInv(q)'
  BY <1>1, <1>2, <1>3 DEF DriftInv, AnalysisInv
<1> QED BY <1>4, <1>5 DEF DriftInv

LEMMA NextDriftInv == DriftInv /\ [Next]_vars => DriftInv'
<1> SUFFICES ASSUME DriftInv, [Next]_vars PROVE DriftInv'
  OBVIOUS
<1>1. DOMAIN spent = {"faults", "operations", "analyses", "migrations"} /\ (focus = "drift" => database \in Databases)
  BY DEF DriftInv, DriftTypeOK
<1>2. ASSUME UNCHANGED <<focus, database, analyses, cache, newest, spent>> PROVE DriftInv'
  BY <1>1, <1>2, DriftKept
<1>3. CASE UNCHANGED vars
  BY <1>2, <1>3 DEF vars, planeVars
<1>4. CASE CliStart \/ CliLock \/ CliMigrate
  <2>1. UNCHANGED <<focus, analyses, cache, newest>>
    BY <1>4 DEF CliStart, CliLock, CliMigrate
  <2>2. spent'.analyses = spent.analyses /\ DOMAIN spent' = DOMAIN spent
    BY <1>1, <1>4 DEF CliStart, CliLock, CliMigrate
  <2>3. focus = "drift" => database' \in Databases
    BY <1>1, <1>4 DEF CliStart, CliLock, CliMigrate, Possible
  <2> QED BY <2>1, <2>2, <2>3, DriftKept
<1>5. ASSUME NEW p \in Pods,
             \/ BootProcess(p) \/ CheckConnection(p) \/ ConvergeLock(p) \/ ConvergeDiff(p)
             \/ ConvergeRelease(p) \/ ConvergeThrew(p) \/ ValidateCriticalSchema(p) \/ Listen(p)
      PROVE  DriftInv'
  <2>1. UNCHANGED <<focus, database, spent>>
    BY <1>5 DEF BootProcess, CheckConnection, ConvergeLock, ConvergeDiff, ConvergeRelease,
                ConvergeThrew, ValidateCriticalSchema, Listen
  <2>2. UNCHANGED <<analyses, cache, newest>> \/ Exit(p)
    BY <1>5 DEF BootProcess, CheckConnection, ConvergeLock, ConvergeDiff, ConvergeRelease,
                ConvergeThrew, ValidateCriticalSchema, Listen, BootFailed, BootStep
  <2> QED BY <1>2, <2>1, <2>2, DriftForgotten
<1>6. ASSUME NEW p \in Pods, focus = "drift",
             StartAnalysis(p) \/ CheckFullDrift(p) \/ EndAnalysis(p) \/ CacheExpires(p)
      PROVE  DriftInv'
  BY <1>6, StartAnalysisInv, CheckFullDriftInv, EndAnalysisInv, CacheExpiresInv
<1>7. ASSUME NEW p, NEW t,
             \/ TickStart(p, t) \/ TickLock(p, t) \/ TickList(p, t) \/ TickEnd(p, t)
             \/ TickUnlock(p, t) \/ Skip(p, t) \/ Claim(p, t) \/ StartJob(p, t)
             \/ JobTimeout(p, t) \/ Batch(p, t) \/ BatchFails(p, t) \/ CompleteJob(p, t)
      PROVE  DriftInv'
  BY <1>2, <1>7 DEF TickStart, TickLock, TickList, TickEnd, TickUnlock, Skip, Claim, StartJob,
                    JobTimeout, Batch, BatchFails, CompleteJob, planeVars
<1>8. ASSUME NEW j, MarkReady(j) \/ MarkAsMigrated(j) \/ \E p \in Pods : CheckReadiness(p, j)
      PROVE  DriftInv'
  BY <1>2, <1>8 DEF MarkReady, MarkAsMigrated, CheckReadiness, planeVars
<1>9. ASSUME Operate PROVE DriftInv'
  <2>1. UNCHANGED <<focus, database, analyses, cache, newest>>
    BY <1>9 DEF Operate
  <2>2. spent'.analyses = spent.analyses /\ DOMAIN spent' = DOMAIN spent
    BY <1>1, <1>9 DEF Operate
  <2> QED BY <1>1, <2>1, <2>2, DriftKept
<1>10. ASSUME NEW s, Reap(s) PROVE DriftInv'
  <2>1. UNCHANGED <<focus, database, analyses, cache, newest>>
    BY <1>10 DEF Reap
  <2>2. spent'.analyses = spent.analyses /\ DOMAIN spent' = DOMAIN spent
    BY <1>1, <1>10 DEF Reap
  <2> QED BY <1>1, <2>1, <2>2, DriftKept
<1>11. ASSUME NEW p \in Pods, Crash(p) PROVE DriftInv'
  <2>1. UNCHANGED <<focus, database>> /\ Exit(p)
    BY <1>11 DEF Crash
  <2>2. spent'.analyses = spent.analyses /\ DOMAIN spent' = DOMAIN spent
    BY <1>1, <1>11 DEF Crash
  <2> QED BY <2>1, <2>2, DriftForgotten
<1>12. CASE focus = "drift" /\ DriftNext
  BY <1>4, <1>6, <1>12, WatchedAssumption DEF DriftNext
<1>13. CASE BootNext
  BY <1>4, <1>5, <1>13 DEF BootNext
<1>14. CASE TickNext \/ \E p \in Pods : \E t \in TicksOf[p] : TickStart(p, t)
  BY <1>7, <1>14 DEF TickNext
<1>15. CASE JobNext
  <2>1. ASSUME NEW j, NEW p, RetryJob(p, j) \/ InsertRow(j) \/ CancelJob(p, j) PROVE DriftInv'
    BY <1>9, <2>1 DEF RetryJob, InsertRow, CancelJob
  <2>2. ASSUME NEW c, SaveCall(c) \/ ForgetJob(c) PROVE DriftInv'
    BY <1>2, <2>2 DEF SaveCall, ForgetJob, planeVars
  <2> QED BY <1>7, <1>8, <1>15, <2>1, <2>2 DEF JobNext
<1> QED BY <1>3, <1>10, <1>11, <1>12, <1>13, <1>14, <1>15 DEF Next

(* A fresh report says what the newest of the analyses that ended found:    *)
(* runBackgroundDriftAnalysis runs one at a time.                           *)
THEOREM DriftReported == Spec => []DriftIsReported
<1>1. DriftInv => DriftIsReported
  <2> SUFFICES ASSUME DriftInv, NEW p \in Pods, cache[p].fresh, newest[p].drift
               PROVE  SchemaStatus(p, FALSE) # "HEALTHY"
    BY DEF DriftIsReported
  <2>1. cache[p].report = "drift"
    BY DEF DriftInv, AnalysisInv
  <2>2. CacheGet(cache[p]) = "DEGRADED"
    BY <2>1 DEF CacheGet
  <2> QED BY <2>2 DEF SchemaStatus
<1>2. Spec => []DriftInv
  BY InitDriftInv, NextDriftInv, PTL DEF Spec
<1> QED BY <1>1, <1>2, PTL
=============================================================================
