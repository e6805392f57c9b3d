--------------------------- MODULE MigrationEngine ---------------------------
(***************************************************************************)
(* The planning library of src/schema/engine: classification, risk and     *)
(* compatibility analysis, the split of a diff into lifecycle phases, the  *)
(* dependency graph, the execution plan and its validation and simulation. *)
(* All of it is pure: operators from statements to plans.                  *)
(***************************************************************************)
EXTENDS SqlStatements

CONSTANT TableSize      \* the size the naming heuristics give a table

-----------------------------------------------------------------------------
(* classify-operations.ts *)

(* /\bALTER\s+COLUMN\b.*TYPE\b/ also finds a column name that ends in type *)
LooksLikeTypeChange(s) ==
    \/ s.verb = "ALTER COLUMN TYPE"
    \/ s.verb \in {"SET NOT NULL", "DROP NOT NULL"} /\ Has(s, "TYPE")

BreakingVerbs == {"DROP TABLE", "DROP COLUMN", "DROP TYPE", "RENAME TYPE",
                  "SET NOT NULL", "RENAME COLUMN"}

(* UPDATE "t" is no DATA statement to /^\s*UPDATE\s+\w/: the quote is no   *)
(* word character, and everything unrecognised is SAFE                     *)
ClassifySqlStatement(s) ==
    IF s.verb \in BreakingVerbs \/ LooksLikeTypeChange(s) THEN "BREAKING" ELSE "SAFE"

(* the table after FROM, INTO, UPDATE or TABLE *)
NamesTable(s) == s.verb \in AlterVerbs \cup {"CREATE TABLE", "DROP TABLE", "UPDATE"}

(* longRunning: the estimate is given in minutes *)
ExtractOperationMetadata(s) ==
    LET size == IF NamesTable(s) THEN TableSize[s.table] ELSE None
        blocking == s.verb \in {"SET NOT NULL", "DROP NOT NULL", "DROP COLUMN"}
    IN  [tableSize |-> size, blocking |-> blocking, requiresDowntime |-> blocking,
         longRunning |-> size \in {"LARGE", "MEDIUM"}]

Operation(s, category, meta) == [sql |-> s, category |-> category, metadata |-> meta]

ClassifyOperations(stmts) ==
    [i \in DOMAIN stmts |->
        Operation(stmts[i], ClassifySqlStatement(stmts[i]), ExtractOperationMetadata(stmts[i]))]

Categories(ops) == {ops[i].category : i \in DOMAIN ops}

-----------------------------------------------------------------------------
(* risk-analyzer.ts *)

When(condition, x) == IF condition THEN {x} ELSE {}
Risk(kind, severity, approval) == [kind |-> kind, severity |-> severity, approval |-> approval]

(* /\bDROP\s+(TABLE|COLUMN|TYPE)\b/ *)
DropsData_TablesOnly(s) == s.verb \in {"DROP TABLE", "DROP TYPE"}   \* seeded fault: columns forgotten
DropsData(s) == s.verb \in {"DROP TABLE", "DROP COLUMN", "DROP TYPE"}

(* an UPDATE or DELETE word of its own, as in ON DELETE ... ON UPDATE *)
WritesRows(s) == s.verb = "UPDATE" \/ Has(s, "REFERENTIAL ACTION")

PerformanceRisks(op) ==
    When(op.metadata.tableSize = "LARGE", Risk("large table", "HIGH", TRUE))
    \cup When(LooksLikeTypeChange(op.sql), Risk("table rewrite", "CRITICAL", TRUE))
    \cup When(op.sql.verb = "CREATE INDEX", Risk("blocking index", "MEDIUM", FALSE))
    \cup When(WritesRows(op.sql), Risk("full scan", "MEDIUM", FALSE))

SetsNotNullBare(s) == s.verb = "SET NOT NULL" /\ ~Has(s, "DEFAULT")

DataLossRisks(op) ==
    When(DropsData(op.sql), Risk("drop", "CRITICAL", TRUE))
    \cup When(SetsNotNullBare(op.sql), Risk("not null", "HIGH", TRUE))

BlockingRisks(op) ==
    When(op.metadata.blocking, Risk("blocking", "HIGH", TRUE))
    \cup When(op.sql.verb \in AlterVerbs, Risk("alter", "MEDIUM", FALSE))
    \cup When(op.metadata.longRunning, Risk("long running", "MEDIUM", FALSE))

CompatibilityRisks(op) ==
    When(op.category = "BREAKING", Risk("breaking", "HIGH", TRUE))
    \cup When(LooksLikeTypeChange(op.sql), Risk("type change", "HIGH", TRUE))
    \cup When(op.sql.verb = "RENAME COLUMN", Risk("rename", "HIGH", TRUE))
    \cup When(op.sql.verb = "DROP CONSTRAINT", Risk("constraint", "MEDIUM", FALSE))

AnalyzeSingleOperation(op) ==
    PerformanceRisks(op) \cup DataLossRisks(op) \cup BlockingRisks(op) \cup CompatibilityRisks(op)

(* one report per operation and rule *)
AnalyzeRisk(ops) ==
    UNION {{[operation |-> i, risk |-> r] : r \in AnalyzeSingleOperation(ops[i])} : i \in DOMAIN ops}

Severities(reports) == {r.risk.severity : r \in reports}

-----------------------------------------------------------------------------
(* compatibility-check.ts *)

BreakingChangesOf(s) ==
    When(DropsData(s) \/ s.verb = "DROP CONSTRAINT", "drop")
    \cup When(LooksLikeTypeChange(s), "type change")
    \cup When(s.verb = "RENAME COLUMN", "rename")
    \cup When(SetsNotNullBare(s), "not null")
    \cup When(s.verb = "DROP CONSTRAINT", "constraint removal")

FindBreakingChanges(ops) ==
    UNION {{[operation |-> i, change |-> c] : c \in BreakingChangesOf(ops[i].sql)} : i \in DOMAIN ops}

EnumTypes == {"status_enum", "status_enum_old"}

(* a quoted type is not what TYPE\s+(\w+) captures *)
BreaksApi(s) ==
    \/ s.verb \in {"RENAME COLUMN", "DROP TABLE", "DROP COLUMN"}
    \/ s.verb = "ALTER COLUMN TYPE" /\ s.type \notin EnumTypes

(* the words the expressions take for tables: an index counts as one, and  *)
(* ON UPDATE NO ACTION names the table "no"                                *)
ExtractTableReferences(s) ==
    When(NamesTable(s), s.table)
    \cup When(s.verb \in {"CREATE INDEX", "DROP INDEX"}, s.col)
    \cup When(Has(s, "REFERENTIAL ACTION"), "no")

OpsOn(ops, t) == {i \in DOMAIN ops : t \in ExtractTableReferences(ops[i].sql)}
TablesOf(ops) == UNION {ExtractTableReferences(ops[i].sql) : i \in DOMAIN ops}

MigrationIssues(ops) ==
    LET cats == Categories(ops)
        issuesOf(t) ==
          LET on == OpsOn(ops, t)
              verb(v) == \E i \in on : ops[i].sql.verb = v
          IN When(verb("ADD COLUMN") /\ verb("SET NOT NULL"), <<t, "separate phases">>)
             \cup When(verb("DROP COLUMN") /\ \E i \in on : ops[i].category = "DATA",
                       <<t, "data before drop">>)
    IN When({"BREAKING", "SAFE"} \subseteq cats, <<None, "expand-contract">>)
       \cup When({"BREAKING", "DATA"} \subseteq cats, <<None, "data before breaking">>)
       \cup UNION {issuesOf(t) : t \in TablesOf(ops)}

CheckCompatibility(ops) ==
    [breakingChanges |-> FindBreakingChanges(ops),
     apiIssues       |-> {i \in DOMAIN ops : BreaksApi(ops[i].sql)},
     migrationIssues |-> MigrationIssues(ops)]

-----------------------------------------------------------------------------
(* lifecycle-split.ts *)

Split(safe, data, breaking) == [safe |-> safe, data |-> data, breaking |-> breaking]
Unsplit(op) == Split(<<op>>, <<>>, <<>>)
Part(op, category, s) == Operation(s, category, op.metadata)

IsNotNullViolation(s) == s.verb = "ADD COLUMN" /\ Has(s, "NOT NULL")
IsColumnRename(s) == s.verb = "RENAME COLUMN"
IsEnumIndexDependency(s) ==
    \/ s.verb \in {"RENAME TYPE", "CREATE TYPE"} /\ s.type = "status_enum"
    \/ s.verb = "DROP TYPE" /\ s.type = "status_enum_old"

(* ADD COLUMN "c" is not what /ADD\s+"([^"]+)"/ captures, and the bare     *)
(* form that it does capture was never found to be a violation             *)
RewriteNotNullViolation(op) == Unsplit(op)

RewriteColumnRename_NoCopy(op) ==       \* seeded fault: the copy is forgotten
    LET s == op.sql
    IN  Split(<<Part(op, "SAFE", AddColumn(s.table, s.to, "varchar"))>>, <<>>,
              <<Part(op, "BREAKING", DropColumn(s.table, s.col))>>)

(* without a type map the new column is a VARCHAR *)
RewriteColumnRename(op) ==
    LET s == op.sql
    IN  Split(<<Part(op, "SAFE", AddColumn(s.table, s.to, "varchar"))>>,
              <<Part(op, "DATA", CopyColumn(s.table, s.to, s.col))>>,
              <<Part(op, "BREAKING", DropColumn(s.table, s.col))>>)

Temp(c) == CASE c = "a" -> "a_v2" [] c = "b" -> "b_v2"
             [] c = "updated_at" -> "updated_at_v2" [] c = "vehicle_type" -> "vehicle_type_v2"
             [] OTHER -> "temp_v2"

(* a quoted type (an enum) and a SET NOT NULL stay whole, among the safe *)
RewriteTypeChange(op) ==
    LET s == op.sql
        temp == Temp(s.col)
    IN  IF s.verb # "ALTER COLUMN TYPE" \/ s.type \in EnumTypes THEN Unsplit(op)
        ELSE Split(<<Part(op, "SAFE", AddColumn(s.table, temp, s.type))>>,
                   <<Part(op, "DATA", CastColumn(s.table, temp, s.col, s.type))>>,
                   <<Part(op, "BREAKING", DropColumn(s.table, s.col)),
                     Part(op, "BREAKING", RenameColumn(s.table, temp, s.col))>>)

(* rename, create and drop of the type are treated alike *)
PartialIndexes == <<"idx_outbox_worker", "idx_outbox_locked">>
RewriteEnumIndexDependency(op) ==
    Split([i \in 1 .. 2 |-> Part(op, "SAFE", DropIndexIfExists(PartialIndexes[i]))],
          <<op>>,
          [i \in 1 .. 2 |-> Part(op, "BREAKING", CreateIndex("outbox", PartialIndexes[i]))])

(* words are searched anywhere in the text *)
ClassifyForSplit(s) ==
    IF s.verb \in {"CREATE TABLE", "CREATE INDEX", "ADD COLUMN"} /\ ~Has(s, "NOT NULL")
    THEN "SAFE"
    ELSE IF s.verb = "UPDATE" \/ s.words \cap {"UPDATE", "REFERENTIAL ACTION"} # {}
    THEN "DATA"
    ELSE "BREAKING"

SplitOperation(op) ==
    IF IsNotNullViolation(op.sql) THEN RewriteNotNullViolation(op)
    ELSE IF IsColumnRename(op.sql) THEN RewriteColumnRename(op)
    ELSE IF LooksLikeTypeChange(op.sql) THEN RewriteTypeChange(op)
    ELSE IF IsEnumIndexDependency(op.sql) THEN RewriteEnumIndexDependency(op)
    ELSE CASE ClassifyForSplit(op.sql) = "SAFE" -> Unsplit(op)
           [] ClassifyForSplit(op.sql) = "DATA" -> Split(<<>>, <<op>>, <<>>)
           [] OTHER                             -> Split(<<>>, <<>>, <<op>>)

Phase(name, ops) == [phase |-> name, operations |-> ops]
NotEmpty(p) == IF p.operations # <<>> THEN <<p>> ELSE <<>>

LifecycleSplit(ops) ==
    LET parts == [i \in DOMAIN ops |-> SplitOperation(ops[i])]
    IN  NotEmpty(Phase("EXPAND", FlattenSeq([i \in DOMAIN ops |-> parts[i].safe])))
        \o NotEmpty(Phase("DATA", FlattenSeq([i \in DOMAIN ops |-> parts[i].data])))
        \o NotEmpty(Phase("CONTRACT", FlattenSeq([i \in DOMAIN ops |-> parts[i].breaking])))

-----------------------------------------------------------------------------
(* operation-graph.ts *)

IsConflictingOperation(p, q) ==
    \/ SaysDrop(p.sql) /\ SaysAdd(q.sql)
    \/ SaysAdd(p.sql) /\ SaysDrop(q.sql)
    \/ SaysAlter(p.sql) /\ SaysAlter(q.sql)
    \/ p.category = "DATA" /\ q.category = "SAFE"

DependsOn(p, q) ==
    /\ ExtractTableReferences(p.sql) \cap ExtractTableReferences(q.sql) # {}
    /\ \/ IsConflictingOperation(p, q)
       \/ p.category = "BREAKING" /\ q.category = "SAFE"
       \/ p.sql.verb = "DROP CONSTRAINT" /\ q.sql.verb = "ADD CONSTRAINT"

PhaseOps(phases) == FlattenSeq([i \in DOMAIN phases |-> phases[i].operations])

(* nodes are keyed by their text: the last operation with a text stays *)
BuildOperationGraph(phases) ==
    LET ops == PhaseOps(phases)
        last(s) == ops[CHOOSE i \in DOMAIN ops :
                         ops[i].sql = s /\ \A j \in DOMAIN ops : ops[j].sql = s => j <= i]
        nodes == {ops[i].sql : i \in DOMAIN ops}
        edges == [s \in nodes |-> {q \in nodes \ {s} : DependsOn(last(s), last(q))}]
    IN  [edges  |-> edges,
         roots  |-> {s \in nodes : \A q \in nodes : s \notin edges[q]},
         leaves |-> {s \in nodes : edges[s] = {}}]

-----------------------------------------------------------------------------
(* migration-execution-plan.ts and schema-planner.ts *)

Sqls(ops) == [i \in DOMAIN ops |-> ops[i].sql]
ExecutionOrder(phases) == Sqls(PhaseOps(phases))
SqlSet(ops) == {ops[i].sql : i \in DOMAIN ops}

(* every phase waits for the one before it *)
PhaseDependencies(phases, own) ==
    [s \in own \cup SqlSet(PhaseOps(phases)) |->
        UNION {SqlSet(phases[i - 1].operations) :
                 i \in {j \in 2 .. Len(phases) : s \in SqlSet(phases[j].operations)}}]

BuildMigrationPlan(diff) ==
    LET ops == ClassifyOperations(diff)
        phases == LifecycleSplit(ops)
    IN  [operations     |-> ops,
         phases         |-> phases,
         graph          |-> BuildOperationGraph(phases),
         risks          |-> AnalyzeRisk(ops),
         compatibility  |-> CheckCompatibility(ops),
         executionOrder |-> ExecutionOrder(phases),
         dependencies   |-> PhaseDependencies(phases, {}),
         planHash       |-> <<[i \in DOMAIN phases |-> <<phases[i].phase, Sqls(phases[i].operations)>>],
                              Sqls(ops)>>]

MixedPhase(p) == "BREAKING" \in Categories(p.operations) /\ Categories(p.operations) # {"BREAKING"}

(* validateMigrationPlan hands validatePlan an empty dependency map and    *)
(* the phase order itself, so its checks cannot fail here                  *)
IsValidPlan(plan) ==
    /\ "CRITICAL" \notin Severities(plan.risks)
    /\ plan.compatibility.breakingChanges = {}
    /\ \A i \in DOMAIN plan.phases : ~MixedPhase(plan.phases[i])

Deduction(severity) ==
    CASE severity = "MEDIUM" -> 15 [] severity = "HIGH" -> 30 [] severity = "CRITICAL" -> 50
DeductionOf(report) == Deduction(report.risk.severity)
LargeOps(plan) == {i \in DOMAIN plan.operations : plan.operations[i].metadata.tableSize = "LARGE"}

CalculatePlanScore(plan) ==
    LET score == 100 - MapThenSumSet(DeductionOf, plan.risks)
                     - 25 * Cardinality(plan.compatibility.breakingChanges)
                     - 20 * Cardinality(LargeOps(plan))
    IN  IF score < 0 THEN 0 ELSE score

-----------------------------------------------------------------------------
(* execution-planner.ts *)

(* depth-first: visiting a node that is being visited is an error *)
TopologicalSort(deps, order) ==
    LET nodes == ToSet(order)
        states == [visiting : SUBSET nodes, result : Seq(nodes), failed : BOOLEAN]
        visit[s \in nodes, st \in states] ==
            IF st.failed \/ s \in ToSet(st.result) THEN st
            ELSE IF s \in st.visiting THEN [st EXCEPT !.failed = TRUE]
            ELSE LET todo == SelectSeq(order, LAMBDA q : q \in deps[s])
                     entered == [st EXCEPT !.visiting = @ \cup {s}]
                     left == FoldLeft(LAMBDA acc, q : visit[q, acc], entered, todo)
                 IN  [left EXCEPT !.visiting = @ \ {s}, !.result = Append(@, s)]
    IN  FoldLeft(LAMBDA st, s : visit[s, st],
                 [visiting |-> {}, result |-> <<>>, failed |-> FALSE], order)

TableNameOf(s) ==
    IF s.verb \in AlterVerbs \cup {"CREATE TABLE", "DROP TABLE", "UPDATE"} THEN s.table ELSE None

(* an operation on a table the plan neither creates nor drops is an error  *)
TablesKnown(ops) ==
    LET own == {ops[i].sql.table : i \in {j \in DOMAIN ops :
                                            ops[j].sql.verb \in {"CREATE TABLE", "DROP TABLE"}}}
    IN  \A i \in DOMAIN ops : TableNameOf(ops[i].sql) \in own \cup {None}

ResolveExecutionOrder(plan) ==
    TopologicalSort(PhaseDependencies(plan.phases, SqlSet(plan.operations)), plan.executionOrder)

SimulationSucceeds(plan) ==
    LET deps == PhaseDependencies(plan.phases, SqlSet(plan.operations))
        sorted == ResolveExecutionOrder(plan)
    IN  /\ ~sorted.failed
        /\ \A s \in DOMAIN deps : deps[s] \subseteq ToSet(sorted.result)
        /\ TablesKnown(plan.operations)

(* executeFastPhases: the statements of every phase but DATA, each          *)
(* committed by itself                                                     *)
FastSqls(phase) ==
    IF phase.phase = "DATA" THEN <<>>
    ELSE FlattenSeq([k \in DOMAIN phase.operations |->
             IF phase.operations[k].category = "DATA" THEN <<>> ELSE <<phase.operations[k].sql>>])
FastOrder(phases) == FlattenSeq([i \in DOMAIN phases |-> FastSqls(phases[i])])

(* createBackfillJobs: what a later job is to run.  An operation the split *)
(* moved into the DATA phase under another category is in neither          *)
BackfillJobs(phases) ==
    {op.sql : op \in {o \in UNION {ToSet(phases[i].operations) :
                                     i \in {j \in DOMAIN phases : phases[j].phase = "DATA"}} :
                       o.category = "DATA" /\ TableNameOf(o.sql) # None}}

(* no estimate matches /(\d+)([smh])/: every operation counts 300 seconds *)
EstimatedSeconds(plan) == 300 * Len(plan.operations)

ExecutionReady(plan) ==
    \A i \in DOMAIN plan.operations :
        ~(plan.operations[i].category = "BREAKING" /\ plan.operations[i].metadata.requiresDowntime)
=============================================================================
