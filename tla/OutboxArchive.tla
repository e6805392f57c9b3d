---------------------------- MODULE OutboxArchive ----------------------------
(***************************************************************************)
(* What happens to outbox rows that have grown old: the janitor that runs   *)
(* every five minutes in the worker, the nightly archiver, the monthly hard *)
(* delete and the cleanup of expired dead letters, beside the workers and   *)
(* retriers of Outbox.                                                      *)
(*                                                                          *)
(* None of these jobs uses a transaction.  A job selects its rows, saves    *)
(* copies of them to outbox_archive batch by batch, and deletes the hot     *)
(* rows by id at the end.  outbox_archive has a unique index on             *)
(* idempotency_key, so a copy of a key that is already archived throws.     *)
(***************************************************************************)
EXTENDS Outbox

CONSTANTS
  Janitors,      \* running calls of OutboxJanitorService.cleanup()
  Archivers,     \* running calls of OutboxArchiveService.archiveOldEvents()
  Cleaners,      \* running calls of DeadLetterService.cleanupExpiredEvents()
  ArchiveBatch,  \* rows per save (100 in the code)
  RetentionAge   \* ARCHIVE_RETENTION_DAYS as an age of a copy: 1, or 2 when it is above 90

ASSUME ArchiveBatchAssumption == ArchiveBatch \in Nat \ {0}
ASSUME RetentionAssumption == RetentionAge \in {1, 2}
ASSUME JobsAssumption ==
  Janitors \cap Archivers = {} /\ Cleaners \cap (Janitors \cup Archivers) = {}

VARIABLES
  age,        \* age of a hot row: 1 past an hour, 2 past seven days, 3 past thirty
  archive,    \* outbox_archive: the status copied with row i, "none" without a copy
  archAge,    \* age of the copy: 1 past 90 days, 2 past a longer ARCHIVE_RETENTION_DAYS
  compressed, \* rows whose copy has is_compressed set
  job,        \* the jobs that are running
  expired     \* history: rows the retention rules have removed for good

Jobs == Janitors \cup Archivers \cup Cleaners

copyVars == <<archive, archAge, compressed>>
archiveVars == <<age, copyVars, job, expired>>

IdleJob == [phase |-> "idle", ids |-> {}, todo |-> {}, copy |-> [i \in Ids |-> "none"]]

ArchiveInit ==
  /\ Init
  /\ age = [i \in Ids |-> 0]
  /\ archive = [i \in Ids |-> "none"]
  /\ archAge = [i \in Ids |-> 0]
  /\ compressed = {}
  /\ job = [j \in Jobs |-> IdleJob]
  /\ expired = {}

Archived(i) == archive[i] # "none"

(* DELETE FROM outbox WHERE id IN S.                                        *)
DeleteRows(S) ==
  /\ status' = [i \in Ids |-> IF i \in S THEN "ABSENT" ELSE status[i]]
  /\ lockedBy' = [i \in Ids |-> IF i \in S THEN NoWorker ELSE lockedBy[i]]
  /\ stale' = stale \ S
  /\ due' = due \ S
  /\ retryCount' = [i \in Ids |-> IF i \in S THEN 0 ELSE retryCount[i]]
  /\ UNCHANGED <<key, nextId>>

otherVars == <<workerVars, retry, handled, disturbed>>

-----------------------------------------------------------------------------
(* Time: a row is never younger than a row created after it.                *)
RowAges(i) ==
  /\ Hot(i) /\ age[i] < 3
  /\ \A p \in 1..(i - 1) : Hot(p) => age[p] > age[i]
  /\ age' = [age EXCEPT ![i] = @ + 1]
  /\ UNCHANGED <<vars, copyVars, job, expired>>

CopyAges(i) ==
  /\ Archived(i) /\ archAge[i] < RetentionAge
  /\ archAge' = [archAge EXCEPT ![i] = @ + 1]
  /\ UNCHANGED <<vars, age, archive, compressed, job, expired>>

-----------------------------------------------------------------------------
(* archiveCompletedEvents and archiveOldEvents.                             *)

ToArchive(j) ==
  {i \in Ids : Hot(i) /\ \/ j \in Janitors /\ status[i] = "COMPLETED" /\ age[i] >= 1
                         \/ j \in Archivers /\ age[i] >= 2}

(* A seeded fault: every copy is stamped COMPLETED.                         *)
SelectRows_Stamped(j) ==
  /\ j \in Janitors \cup Archivers
  /\ job[j].phase = "idle" /\ ToArchive(j) # {}
  /\ job' = [job EXCEPT ![j] =
       [phase |-> "saving", ids |-> ToArchive(j), todo |-> ToArchive(j),
        copy |-> [i \in Ids |-> IF i \in ToArchive(j) THEN "COMPLETED" ELSE "none"]]]
  /\ UNCHANGED <<vars, age, copyVars, expired>>

(* getMany(): the job keeps the entities as they are now.  With nothing to  *)
(* archive the archiver returns; the janitor goes on to compress old copies. *)
SelectRows(j) ==
  /\ j \in Janitors \cup Archivers
  /\ job[j].phase = "idle"
  /\ \/ /\ ToArchive(j) # {}
        /\ job' = [job EXCEPT ![j] =
             [phase |-> "saving", ids |-> ToArchive(j), todo |-> ToArchive(j),
              copy |-> [i \in Ids |-> IF i \in ToArchive(j) THEN status[i] ELSE "none"]]]
     \/ /\ ToArchive(j) = {} /\ j \in Janitors
        /\ job' = [job EXCEPT ![j].phase = "compressing"]
  /\ UNCHANGED <<vars, age, copyVars, expired>>

IsArchiveBatch(S, todo) ==
  /\ S \subseteq todo
  /\ Cardinality(S) <= ArchiveBatch
  /\ S # todo => Cardinality(S) = ArchiveBatch
  /\ \A i \in S, p \in todo \ S : i < p

KeyArchived(i) == \E p \in Ids : Archived(p) /\ key[p] = key[i]

(* A seeded fault: the error of a failed save is logged and not rethrown.   *)
SaveBatch_ErrorLogged(j) ==
  /\ job[j].phase = "saving"
  /\ \E S \in SUBSET Ids :
       /\ S # {} /\ IsArchiveBatch(S, job[j].todo)
       /\ IF \E i \in S : KeyArchived(i)
          THEN UNCHANGED <<archive, archAge>>
          ELSE /\ archive' = [i \in Ids |-> IF i \in S THEN job[j].copy[i] ELSE archive[i]]
               /\ archAge' = [i \in Ids |-> IF i \in S THEN 0 ELSE archAge[i]]
       /\ job' = [job EXCEPT ![j].todo = @ \ S,
                             ![j].phase = IF S = job[j].todo THEN "deleting" ELSE "saving"]
  /\ UNCHANGED <<vars, age, compressed, expired>>

(* archiveRepository.save(batch) is one transaction: all of it or an error, *)
(* which ends the job.                                                      *)
SaveBatch(j) ==
  /\ job[j].phase = "saving"
  /\ \E S \in SUBSET Ids :
       /\ S # {} /\ IsArchiveBatch(S, job[j].todo)
       /\ \/ /\ \E i \in S : KeyArchived(i)
             /\ job' = [job EXCEPT ![j] = IdleJob]
             /\ UNCHANGED <<archive, archAge>>
          \/ /\ ~ \E i \in S : KeyArchived(i)
             /\ archive' = [i \in Ids |-> IF i \in S THEN job[j].copy[i] ELSE archive[i]]
             /\ archAge' = [i \in Ids |-> IF i \in S THEN 0 ELSE archAge[i]]
             /\ job' = [job EXCEPT
                          ![j].todo = @ \ S,
                          ![j].phase = IF S = job[j].todo THEN "deleting" ELSE "saving"]
  /\ UNCHANGED <<vars, age, compressed, expired>>

DeleteArchived(j) ==
  /\ job[j].phase = "deleting" /\ j \notin Cleaners
  /\ DeleteRows(job[j].ids)
  /\ age' = [i \in Ids |-> IF i \in job[j].ids THEN 0 ELSE age[i]]
  /\ job' = [job EXCEPT ![j] = IF j \in Janitors THEN [IdleJob EXCEPT !.phase = "compressing"]
                               ELSE IdleJob]
  /\ UNCHANGED <<otherVars, faults, copyVars, expired>>

-----------------------------------------------------------------------------
(* compressOldArchives, the second step of cleanup().                       *)

(* The 30 days of the query lie below the ages told apart here: a younger   *)
(* copy may be past them or not.                                            *)
CompressSelects(j) ==
  /\ job[j].phase = "compressing"
  /\ \E S \in SUBSET {i \in Ids : Archived(i) /\ i \notin compressed} :
       /\ \A i \in Ids \ (S \cup compressed) : archAge[i] = 0
       /\ job' = [job EXCEPT ![j] = IF S = {} THEN [@ EXCEPT !.phase = "purging"]
                                    ELSE [@ EXCEPT !.phase = "updating", !.ids = S]]
  /\ UNCHANGED <<vars, age, copyVars, expired>>

(* One copy after the other.  A payload that cleans to nothing throws, the  *)
(* error is logged and the copy skipped; the id of a copy that is gone      *)
(* matches no row.                                                          *)
CompressUpdates(j) ==
  /\ job[j].phase = "updating"
  /\ \E i \in job[j].ids :
       /\ compressed' \in {compressed, compressed \cup ({i} \cap {p \in Ids : Archived(p)})}
       /\ job' = [job EXCEPT ![j].ids = @ \ {i},
                             ![j].phase = IF job[j].ids = {i} THEN "purging" ELSE "updating"]
  /\ UNCHANGED <<vars, age, archive, archAge, expired>>

-----------------------------------------------------------------------------
(* Retention.                                                               *)

(* DELETE FROM outbox_archive WHERE archived_at < cutoff.                   *)
Purge(cutoff) ==
  LET S == {i \in Ids : Archived(i) /\ archAge[i] >= cutoff}
  IN /\ archive' = [i \in Ids |-> IF i \in S THEN "none" ELSE archive[i]]
     /\ archAge' = [i \in Ids |-> IF i \in S THEN 0 ELSE archAge[i]]
     /\ compressed' = compressed \ S
     /\ expired' = expired \cup S

(* The last step of cleanup().                                              *)
JanitorPurges(j) ==
  /\ job[j].phase = "purging"
  /\ Purge(RetentionAge)
  /\ job' = [job EXCEPT ![j] = IdleJob]
  /\ UNCHANGED <<vars, age>>

HardDelete_Never == FALSE /\ UNCHANGED <<vars, archiveVars>>   \* seeded fault

(* hardDeleteOldArchivedEvents, monthly.                                    *)
HardDelete ==
  /\ \E i \in Ids : Archived(i) /\ archAge[i] >= 1
  /\ Purge(1)
  /\ UNCHANGED <<vars, age, job>>

(* cleanupExpiredEvents: select, then remove one entity after the other.    *)
CleanupSelects(j) ==
  /\ j \in Cleaners
  /\ job[j].phase = "idle"
  /\ LET S == {i \in Ids : status[i] = "FAILED" /\ age[i] >= 3}
     IN S # {} /\ job' = [job EXCEPT ![j].phase = "deleting", ![j].ids = S]
  /\ UNCHANGED <<vars, age, copyVars, expired>>

CleanupRemoves(j) ==
  /\ j \in Cleaners
  /\ job[j].phase = "deleting"
  /\ \E i \in job[j].ids :
       /\ DeleteRows({i})
       /\ age' = [age EXCEPT ![i] = 0]
       /\ expired' = expired \cup {i}
       /\ job' = [job EXCEPT ![j] =
                    IF job[j].ids = {i} THEN IdleJob ELSE [job[j] EXCEPT !.ids = @ \ {i}]]
  /\ UNCHANGED <<otherVars, faults, copyVars>>

(* The process dies, or a statement of the job throws.                      *)
JobDies(j) ==
  /\ job[j].phase # "idle"
  /\ faults < MaxFaults
  /\ faults' = faults + 1
  /\ job' = [job EXCEPT ![j] = IdleJob]
  /\ UNCHANGED <<rowVars, otherVars, age, copyVars, expired>>

-----------------------------------------------------------------------------
JobStep(j) ==
  \/ SelectRows(j) \/ SaveBatch(j) \/ DeleteArchived(j)
  \/ CompressSelects(j) \/ CompressUpdates(j) \/ JanitorPurges(j)
  \/ CleanupSelects(j) \/ CleanupRemoves(j)

ArchiveNext ==
  \/ Next /\ UNCHANGED archiveVars
  \/ \E i \in Ids : RowAges(i) \/ CopyAges(i)
  \/ \E j \in Jobs : JobStep(j) \/ JobDies(j)
  \/ HardDelete

allVars == <<vars, archiveVars>>

ArchiveSpec == ArchiveInit /\ [][ArchiveNext]_allVars

(* Clocks advance, every cron keeps firing and a job that runs goes on.     *)
(* Nothing is asked of the workers: rows are archived by age, handled or    *)
(* not.                                                                     *)
ArchiveFairness ==
  /\ \A i \in Ids : WF_allVars(RowAges(i)) /\ WF_allVars(CopyAges(i))
  /\ \A j \in Jobs : WF_allVars(JobStep(j))
  /\ WF_allVars(HardDelete)

ArchiveFairSpec == ArchiveSpec /\ ArchiveFairness

-----------------------------------------------------------------------------
(* Properties.                                                              *)

(* No published event disappears: it is in the hot table, in the archive,   *)
(* or a retention rule has removed it, whichever job dies between its saves *)
(* and its delete, and however many jobs overlap (archiveCompletedEvents,   *)
(* archiveOldEvents).                                                       *)
NothingLost ==
  \A i \in 1..(nextId - 1) : Hot(i) \/ Archived(i) \/ i \in expired

(* An event whose copy says COMPLETED was handled, also when the copy was   *)
(* taken from a row that late workers still write to (archiveBatch).        *)
ArchivedWasHandled ==
  \A i \in Ids : archive[i] = "COMPLETED" => i \in handled

(* A row that stays COMPLETED is archived in the end, even when a job died  *)
(* between save and delete or its key was archived before: the unique index *)
(* blocks every later job until the hard delete frees the key.              *)
ArchivalHappens ==
  \A i \in Ids : (status[i] = "COMPLETED" /\ age[i] >= 1) ~> ~ Hot(i)
=============================================================================
