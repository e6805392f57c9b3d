-------------------------- MODULE MigrationRegistry --------------------------
(***************************************************************************)
(* A migration from the diff to its record: buildMigrationPlan, the state  *)
(* machine and the guards of migration-state.ts, simulateExecution and     *)
(* executeFastPhases of the execution planner, and the replay engine.  The *)
(* library keeps its records in a map in memory and leaves every call to   *)
(* its caller, so the calls come in any order; what a call throws changes  *)
(* nothing.                                                                *)
(***************************************************************************)
EXTENDS MigrationPolicy

CONSTANTS
    Migrations,     \* migration ids
    Changes,        \* statement sequences TypeORM emits for one entity change
    MaxChanges,     \* bound: entity changes in one diff
    MaxPlans        \* bound: plans built

(* the statements the schema builder writes: none of them updates rows     *)
BuilderVerbs ==
    {"CREATE TABLE", "DROP TABLE", "ADD", "DROP COLUMN", "RENAME COLUMN", "ALTER COLUMN TYPE",
     "SET NOT NULL", "DROP NOT NULL", "CREATE INDEX", "DROP INDEX", "ADD CONSTRAINT",
     "DROP CONSTRAINT", "CREATE TYPE", "RENAME TYPE", "DROP TYPE"}

ASSUME ChangesAssumption ==
    /\ MaxChanges \in Nat
    /\ \A c \in Changes : c \in Seq(ToSet(c)) /\ \A s \in ToSet(c) : s.verb \in BuilderVerbs

VARIABLES
    db,             \* the schema the diff was taken against
    plan,           \* the last plan built, or NoPlan
    plans,          \* plans built so far
    records,        \* stateRecords: id -> record or NoRecord
    exported,       \* the records exportState last returned
    replays,        \* id -> what rebuildWithValidation last returned
    report          \* what validateMigrationPlan, the readiness check, the
                    \* policy engine or a guard last said, or what the last
                    \* execution made of the database; NoReport before

NoPlan == [planHash |-> None]
NoRecord == [state |-> None]
NoReport == [of |-> None]

States == {"PLANNED", "VALIDATED", "SIMULATED", "APPROVED", "REPLAYED",
           "EXECUTING", "COMPLETED", "FAILED", "ROLLED_BACK"}

Exists(id) == records[id] # NoRecord

(* the changes of a diff are distinct and leave a script that executes *)
Diffs(base) ==
    {FlattenSeq(cs) : cs \in {s \in SeqOf(Changes, MaxChanges) :
        /\ s # <<>> /\ IsInjective(s)
        /\ LET stmts == FlattenSeq(s) IN Script(base, stmts)[Len(stmts)].ok}}

(* buildMigrationPlan: the schema builder's diff of the moment, planned *)
BuildPlan ==
    /\ plans < MaxPlans
    /\ plans' = plans + 1
    /\ \E diff \in Diffs(db) : plan' = BuildMigrationPlan(diff)
    /\ report' = NoReport
    /\ UNCHANGED <<db, records, exported, replays>>

(* validateMigrationPlan, its score and getExecutionReadiness *)
ValidateMigrationPlan ==
    /\ plan # NoPlan
    /\ report' = [of |-> "plan", valid |-> IsValidPlan(plan), score |-> CalculatePlanScore(plan),
                  ready |-> ExecutionReady(plan), seconds |-> EstimatedSeconds(plan)]
    /\ UNCHANGED <<db, plan, plans, records, exported, replays>>

(* the policy engine on the diff, at some hour, with some table metadata;  *)
(* a developer may have written the same statements without quotes         *)
EvaluatePolicy ==
    /\ plan # NoPlan
    /\ \E quoted, inWindow \in BOOLEAN, downtime, large \in {{}, {"orders"}} :
          report' = [of |-> "policy",
                     decision |-> Evaluate(plan.planHash[2], quoted, inWindow, downtime, large)]
    /\ UNCHANGED <<db, plan, plans, records, exported, replays>>

(* executeFastPhases stops at the first statement that fails, or dies after *)
(* any; createBackfillJobs follows when all of them went through            *)
ExecuteFastPhases ==
    /\ plan # NoPlan
    /\ LET stmts == FastOrder(plan.phases)
       IN  \E n \in 0 .. Len(stmts) :
             LET run == Script(db, stmts)[n]
             IN  report' = [of |-> "execution", db |-> run.db,
                            jobs |-> IF n = Len(stmts) /\ run.ok THEN BackfillJobs(plan.phases)
                                     ELSE {}]
    /\ UNCHANGED <<db, plan, plans, records, exported, replays>>

-----------------------------------------------------------------------------
(* migration-state.ts *)

Transitions ==
    [PLANNED |-> {"VALIDATED"}, VALIDATED |-> {"SIMULATED"}, SIMULATED |-> {"APPROVED"},
     APPROVED |-> {"REPLAYED"}, REPLAYED |-> {"EXECUTING"},
     EXECUTING |-> {"COMPLETED", "FAILED"}, FAILED |-> {"ROLLED_BACK"},
     COMPLETED |-> {}, ROLLED_BACK |-> {}]

CanTransition_Documented(from, to) ==   \* seeded fault: the transition the error text promises
    to \in Transitions[from] \/ (from = "APPROVED" /\ to = "EXECUTING")

CanTransition(from, to) == to \in Transitions[from]

CanExecute(state) == state = "APPROVED"

IsTerminal(state) == state \in {"COMPLETED", "ROLLED_BACK"}

(* past: the states the record went through, kept for the properties *)
NewRecord(hash) ==
    [state |-> "PLANNED", planHash |-> hash, simulationHash |-> None,
     completed |-> FALSE, past |-> {"PLANNED"}]

Moved(r, to) ==
    [r EXCEPT !.state = to, !.completed = @ \/ IsTerminal(to), !.past = @ \cup {to}]

(* an id that is in use is overwritten *)
CreateMigration(id) ==
    /\ plan # NoPlan
    /\ records' = [records EXCEPT ![id] = NewRecord(plan.planHash)]
    /\ UNCHANGED <<db, plan, plans, exported, replays, report>>

UpdateState(id, to) ==
    /\ Exists(id)
    /\ CanTransition(records[id].state, to)
    /\ records' = [records EXCEPT ![id] = Moved(@, to)]
    /\ UNCHANGED <<db, plan, plans, exported, replays, report>>

(* FAILED, then ROLLED_BACK: refused unless the migration is executing *)
RollbackState(id) ==
    /\ Exists(id)
    /\ CanTransition(records[id].state, "FAILED")
    /\ records' = [records EXCEPT ![id] = Moved(Moved(@, "FAILED"), "ROLLED_BACK")]
    /\ UNCHANGED <<db, plan, plans, exported, replays, report>>

(* completed records older than a day; any of them may be *)
Cleanup ==
    /\ \E old \in SUBSET {id \in Migrations : Exists(id) /\ records[id].completed} :
          /\ old # {}
          /\ records' = [id \in Migrations |-> IF id \in old THEN NoRecord ELSE records[id]]
    /\ UNCHANGED <<db, plan, plans, exported, replays, report>>

ExportState ==
    /\ exported' = records
    /\ UNCHANGED <<db, plan, plans, records, replays, report>>

ImportState ==
    /\ records' = exported
    /\ UNCHANGED <<db, plan, plans, exported, replays, report>>

(* MigrationStateGuard: what its four guards say of a record, a missing one *)
(* refused by all                                                          *)
GuardMigration(id) ==
    /\ plan # NoPlan /\ Exists(id)
    /\ report' = [of |-> "guard",
                  execution |-> CanExecute(records[id].state),
                  simulation |-> records[id].state = "VALIDATED",
                  approval |-> records[id].state = "SIMULATED",
                  consistent |-> records[id].planHash = plan.planHash]
    /\ UNCHANGED <<db, plan, plans, records, exported, replays>>

-----------------------------------------------------------------------------
(* ExecutionPlanner.simulateExecution stores the hash before the move to   *)
(* SIMULATED is checked; a refused move leaves it stored                   *)
SimulateExecution(id) ==
    /\ plan # NoPlan
    /\ Exists(id)
    /\ SimulationSucceeds(plan)
    /\ LET hashed == [records[id] EXCEPT !.simulationHash = plan.planHash]
       IN  records' = [records EXCEPT ![id] =
              IF CanTransition(hashed.state, "SIMULATED") THEN Moved(hashed, "SIMULATED")
              ELSE hashed]
    /\ UNCHANGED <<db, plan, plans, exported, replays, report>>

(* the shadow database is connected to but never created, so the replay    *)
(* fails and the record stays as it is                                     *)
RebuildWithValidation(id) ==
    /\ plan # NoPlan
    /\ replays' = [replays EXCEPT ![id] = "failed"]
    /\ UNCHANGED <<db, plan, plans, records, exported, report>>

-----------------------------------------------------------------------------

RegistryInit(base) ==
    /\ db = base
    /\ plan = NoPlan
    /\ plans = 0
    /\ records = [id \in Migrations |-> NoRecord]
    /\ exported = records
    /\ replays = [id \in Migrations |-> None]
    /\ report = NoReport

ReviewNext ==
    \/ BuildPlan
    \/ ValidateMigrationPlan
    \/ EvaluatePolicy
    \/ ExecuteFastPhases

RegistryNext ==
    \/ BuildPlan
    \/ Cleanup
    \/ ExportState
    \/ ImportState
    \/ \E id \in Migrations :
          \/ CreateMigration(id)
          \/ \E to \in States : UpdateState(id, to)
          \/ RollbackState(id)
          \/ GuardMigration(id)
          \/ SimulateExecution(id)
          \/ RebuildWithValidation(id)

-----------------------------------------------------------------------------
(* Properties *)

(* the data the diff keeps *)
KeptByDiff ==
    LET stmts == plan.planHash[2]
    IN  Held(db) \cap Held(Script(db, stmts)[Len(stmts)].db)

(* the data of the columns that the jobs of a plan are to copy *)
CopiedLater ==
    UNION {db.cols[k].data :
             k \in DOMAIN db.cols \cap {<<s.table, s.to>> : s \in BackfillJobs(plan.phases)}}

(* executeFastPhases contracts before any backfill job has run.  However   *)
(* far it comes, the only data of a diff's own columns it takes away is    *)
(* that of a column a job was to copy first, so for a plan without DATA    *)
(* operations the order of the phases is safe (lifecycle-split.ts,         *)
(* executeFastPhases, createBackfillJobs).                                 *)
DataSurvives ==
    report.of = "execution" => KeptByDiff \ Held(report.db) \subseteq CopiedLater

(* A plan validateMigrationPlan accepts leaves no work to a job and no data *)
(* behind: however far executeFastPhases comes with it, every column's data *)
(* is still held, whatever the split made of its operations.                *)
AcceptedKeepsData ==
    report.of = "execution" /\ IsValidPlan(plan) =>
        Held(db) \subseteq Held(report.db) /\ report.jobs = {}

(* A migration that executes or executed was validated, simulated,         *)
(* approved and replayed first, also after an id was used again, records   *)
(* were cleaned up or an older export was imported; and in the state        *)
(* guardExecution asks for none can be started (migration-state.ts).        *)
ExecutedWasRehearsed ==
    \A id \in Migrations : Exists(id) =>
        /\ records[id].state \in {"EXECUTING", "COMPLETED", "FAILED", "ROLLED_BACK"} =>
              {"VALIDATED", "SIMULATED", "APPROVED", "REPLAYED"} \subseteq records[id].past
        /\ CanExecute(records[id].state) => ~CanTransition(records[id].state, "EXECUTING")
=============================================================================
