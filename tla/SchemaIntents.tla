---------------------------- MODULE SchemaIntents ----------------------------
(***************************************************************************)
(* Declarative schema intents: the parser and the translator of            *)
(* src/schema/engine/intent, the services and the intent CLI over them,    *)
(* the generator scripts/cli/intent.ts, and the operator who runs the      *)
(* phases it generated and, when something is wrong, their rollbacks,      *)
(* while the application goes on writing rows.                             *)
(***************************************************************************)
EXTENDS SqlStatements

CONSTANTS
    IntentFiles,    \* the intent files developers write
    IntentBase,     \* the schema they are written for
    MaxClock        \* bound: milliseconds that pass

ASSUME IntentBaseAssumption == WellFormed(IntentBase)

VARIABLES
    intent,         \* the file a command was started with, or NoIntent
    step,           \* what the generator did with it
    files,          \* migration files in the output directory
    clock,          \* Date.now()
    idb,            \* the database the phases are run on
    written,        \* values the application has written to it
    applied,        \* phases applied and not rolled back
    rolledBack,     \* some phase was rolled back
    printed         \* what the last command of the intent CLI printed

NoIntent == [type |-> None]
Nothing == [command |-> None]

-----------------------------------------------------------------------------
(* schema-intent.ts *)

IntentTypes ==
    {"RENAME_COLUMN", "CHANGE_COLUMN_TYPE", "ADD_COLUMN", "DROP_COLUMN", "ADD_INDEX",
     "DROP_INDEX", "ADD_CONSTRAINT", "DROP_CONSTRAINT", "RENAME_TABLE", "SPLIT_TABLE",
     "MERGE_TABLES"}

(* the options a file may leave out *)
Intent(type, table, column, new) ==
    [version |-> "1.0", type |-> type, table |-> table, column |-> column, new |-> new,
     priority |-> "MEDIUM", impact |-> "MODERATE",
     backfill |-> FALSE, downtime |-> FALSE, estimatedRows |-> FALSE]

(* column is the column, index or constraint a type needs, new the new     *)
(* column, type or table (the target of a merge, whose source is column)   *)
NeedsNew == {"RENAME_COLUMN", "CHANGE_COLUMN_TYPE", "ADD_COLUMN", "ADD_INDEX",
             "RENAME_TABLE", "SPLIT_TABLE", "MERGE_TABLES"}
NeedsColumn == IntentTypes \ {"RENAME_TABLE"}

PayloadComplete(i) ==
    /\ i.type \in NeedsColumn => i.column # None
    /\ i.type \in NeedsNew => i.new # None
    /\ i.type = "RENAME_COLUMN" => i.column # i.new
    /\ i.type = "RENAME_TABLE" => i.table # i.new

(* any type will do: one that is none of IntentTypes has no payload rules  *)
ParseIntent(i) ==
    /\ i.version = "1.0"
    /\ i.type # None
    /\ i.table # None
    /\ PayloadComplete(i)

CreateTemplate(type) ==
    Intent(type, "your_table_name", IF type \in NeedsColumn THEN "column_name" ELSE None,
           IF type \in NeedsNew \cup {"ADD_CONSTRAINT"} THEN "new_name" ELSE None)

-----------------------------------------------------------------------------
(* intent-translator.ts: the SQL is unquoted *)

Do(s, seconds) == [type |-> "SQL", sql |-> s, approval |-> FALSE, seconds |-> seconds]
DoApproved(s, seconds) == [Do(s, seconds) EXCEPT !.approval = TRUE]
Validate == [Do(Query, 5) EXCEPT !.type = "VALIDATION"]

(* an estimate in minutes is no h:m:s and counts nothing *)
Backfill(i, s, seconds) ==
    [type |-> "BACKFILL", sql |-> s, approval |-> i.downtime,
     seconds |-> IF i.estimatedRows THEN 0 ELSE seconds]

IntentPhase(phase, after, operations, rollback) ==
    [phase |-> phase, dependencies |-> after, operations |-> operations, rollback |-> rollback]

Expand(operations, rollback) == IntentPhase("EXPAND", {}, operations, rollback)
DataPhase(operations, rollback) == IntentPhase("DATA", {"EXPAND"}, operations, rollback)
Contract(after, operations, rollback) == IntentPhase("CONTRACT", {after}, operations, rollback)

ClearColumn(t, c) == Stmt("CLEAR", t, c, None, None, {})

TranslateRenameColumn(i) ==
    <<Expand(<<Do(AddColumn(i.table, i.new, "varchar"), 5)>>, <<DropColumn(i.table, i.new)>>),
      DataPhase(<<Backfill(i, CopyColumn(i.table, i.new, i.column), 300)>>,
                <<ClearColumn(i.table, i.new)>>),
      Contract("DATA", <<DoApproved(DropColumn(i.table, i.column), 5)>>,
               <<AddColumn(i.table, i.column, "varchar"), CopyColumn(i.table, i.column, i.new)>>)>>

TempColumn == "column_temp"

TranslateChangeColumnType(i) ==
    <<Expand(<<Do(AddColumn(i.table, TempColumn, i.new), 5)>>, <<DropColumn(i.table, TempColumn)>>),
      DataPhase(<<Backfill(i, CastColumn(i.table, TempColumn, i.column, i.new), 600)>>,
                <<ClearColumn(i.table, TempColumn)>>),
      Contract("DATA", <<DoApproved(DropColumn(i.table, i.column), 5),
                         Do(RenameColumn(i.table, TempColumn, i.column), 5)>>,
               <<AddColumn(i.table, i.column, "varchar"),
                 CopyColumn(i.table, i.column, TempColumn)>>)>>

TranslateAddColumn(i) ==
    <<Expand(<<Do(AddColumn(i.table, i.column, i.new), 5)>>, <<DropColumn(i.table, i.column)>>)>>
    \o (IF ~i.backfill THEN <<>>
        ELSE <<DataPhase(<<[Backfill(i, FillColumn(i.table, i.column), 120) EXCEPT !.approval = FALSE]>>,
                         <<ClearColumn(i.table, i.column)>>)>>)

TranslateDropColumn(i) ==
    <<Expand(<<Validate>>, <<>>),
      Contract("EXPAND", <<DoApproved(DropColumn(i.table, i.column), 5)>>,
               <<AddColumn(i.table, i.column, "varchar")>>)>>

TranslateAddIndex(i) ==
    <<Expand(<<[Backfill(i, CreateIndex(i.table, i.column), 60) EXCEPT !.type = "SQL"]>>,
             <<DropIndex(i.column)>>)>>

(* without the columns the index is restored on (star) *)
TranslateDropIndex(i) ==
    <<Expand(<<Validate>>, <<>>),
      Contract("EXPAND", <<Do(DropIndex(i.column), 5)>>,
               <<Stmt("CREATE INDEX", i.table, i.column, None, None,
                      IF i.new = None THEN {"MALFORMED"} ELSE {})>>)>>

TranslateAddConstraint(i) ==
    <<Expand(<<[Validate EXCEPT !.seconds = 10]>>, <<>>),
      Contract("EXPAND", <<Do(Stmt("ADD CONSTRAINT", i.table, i.column, None, None, {}), 5)>>,
               <<Stmt("DROP CONSTRAINT", i.table, i.column, None, None, {})>>)>>

TranslateDropConstraint(i) ==
    <<Expand(<<Validate>>, <<>>),
      Contract("EXPAND", <<Do(Stmt("DROP CONSTRAINT", i.table, i.column, None, None, {}), 5)>>,
               <<Stmt("ADD CONSTRAINT", i.table, i.column, None, None, {})>>)>>

RenameTable(t, n) == Stmt("RENAME TABLE", t, None, n, None, {})

TranslateRenameTable(i) ==
    <<Expand(<<Validate>>, <<>>),
      Contract("EXPAND", <<DoApproved(RenameTable(i.table, i.new), 5)>>, <<RenameTable(i.new, i.table)>>)>>

TableAs(t, col, source) == Stmt("CREATE TABLE AS", t, col, source, None, {})
InsertSelect(t, source) == Stmt("INSERT SELECT", t, None, source, None, {})

TranslateSplitTable(i) ==
    <<Expand(<<Do(TableAs(i.new, i.column, i.table), 10)>>, <<DropTable(i.new)>>),
      DataPhase(<<Backfill(i, InsertSelect(i.new, i.table), 300)>>,
                <<Stmt("TRUNCATE", i.new, None, None, None, {})>>),
      Contract("DATA", <<DoApproved(DropColumn(i.table, i.column), 10)>>,
               <<AddColumn(i.table, i.column, "varchar")>>)>>

TranslateMergeTables(i) ==
    <<Expand(<<Validate, Validate>>, <<>>),
      DataPhase(<<Backfill(i, InsertSelect(i.new, i.column), 600)>>,
                <<Stmt("DELETE COPIED", i.new, None, i.column, None, {})>>),
      Contract("DATA", <<DoApproved(DropTable(i.column), 5)>>, <<TableAs(i.column, "a", i.new)>>)>>

Phases(i) ==
    CASE i.type = "RENAME_COLUMN"      -> TranslateRenameColumn(i)
      [] i.type = "CHANGE_COLUMN_TYPE" -> TranslateChangeColumnType(i)
      [] i.type = "ADD_COLUMN"         -> TranslateAddColumn(i)
      [] i.type = "DROP_COLUMN"        -> TranslateDropColumn(i)
      [] i.type = "ADD_INDEX"          -> TranslateAddIndex(i)
      [] i.type = "DROP_INDEX"         -> TranslateDropIndex(i)
      [] i.type = "ADD_CONSTRAINT"     -> TranslateAddConstraint(i)
      [] i.type = "DROP_CONSTRAINT"    -> TranslateDropConstraint(i)
      [] i.type = "RENAME_TABLE"       -> TranslateRenameTable(i)
      [] i.type = "SPLIT_TABLE"        -> TranslateSplitTable(i)
      [] i.type = "MERGE_TABLES"       -> TranslateMergeTables(i)
      [] OTHER                         -> <<>>

(* the columns of a constraint are joined: without them the translator     *)
(* throws                                                                  *)
Translates(i) == i.type = "ADD_CONSTRAINT" => i.new # None

AllOperations(phases) == FlattenSeq([n \in DOMAIN phases |-> phases[n].operations])

EstimatedTime(phases) ==
    FoldLeft(LAMBDA total, op : total + op.seconds, 0, AllOperations(phases))

RequiredApprovals(i, phases) ==
    {who \in {"Database Administrator", "Engineering Manager", "CTO"} :
        CASE who = "Database Administrator" -> \E n \in DOMAIN AllOperations(phases) :
                                                  AllOperations(phases)[n].approval
          [] who = "Engineering Manager"    -> i.priority = "CRITICAL"
          [] who = "CTO"                    -> i.impact = "MASSIVE"}

RollbackPlan(phases) == FlattenSeq([n \in DOMAIN phases |-> Reverse(phases)[n].rollback])

Translate(i) ==
    [phases |-> Phases(i), estimatedTime |-> EstimatedTime(Phases(i)),
     requiredApprovals |-> RequiredApprovals(i, Phases(i)), rollbackPlan |-> RollbackPlan(Phases(i))]

(* intent-translator.service.ts *)
ComplexityOf(type) ==
    CASE type \in {"ADD_COLUMN", "ADD_INDEX"} -> 1
      [] type \in {"DROP_COLUMN", "DROP_INDEX", "ADD_CONSTRAINT"} -> 2
      [] type \in {"RENAME_COLUMN", "DROP_CONSTRAINT"} -> 3
      [] type \in {"CHANGE_COLUMN_TYPE", "RENAME_TABLE"} -> 4
      [] type = "SPLIT_TABLE" -> 5
      [] type = "MERGE_TABLES" -> 6
      [] OTHER -> 0

ComplexityLevel(i) ==
    LET score == ComplexityOf(i.type) + Len(Phases(i))
                 + (IF i.priority = "CRITICAL" THEN 2 ELSE 0)
                 + (CASE i.impact = "MASSIVE" -> 3 [] i.impact = "SIGNIFICANT" -> 2 [] OTHER -> 0)
    IN  CASE score <= 3 -> "LOW" [] score <= 6 -> "MEDIUM" [] score <= 9 -> "HIGH" [] OTHER -> "CRITICAL"

(* the phases a phase waits for exist and it does not wait for itself *)
ValidTranslation(phases) ==
    \A n \in DOMAIN phases :
        /\ phases[n].dependencies \subseteq {phases[m].phase : m \in DOMAIN phases}
        /\ phases[n].phase \notin phases[n].dependencies

-----------------------------------------------------------------------------
(* src/cli/intent-cli.ts: commands that read the file and print *)

Show(command, content) == printed' = [command |-> command, content |-> content]
OnlyPrints == UNCHANGED <<step, files, clock, idb, written, applied, rolledBack>>

CreateCommand(type) ==
    /\ step = "idle"
    /\ intent' = CreateTemplate(type)
    /\ Show("create", type)
    /\ OnlyPrints

LoadIntent(i) ==        \* the developer writes the file
    /\ step = "idle"
    /\ intent' = i
    /\ UNCHANGED printed
    /\ OnlyPrints

ValidateCommand ==
    /\ intent # NoIntent
    /\ Show("validate", ParseIntent(intent))
    /\ UNCHANGED intent
    /\ OnlyPrints

TranslateCommand ==
    /\ intent # NoIntent /\ ParseIntent(intent) /\ Translates(intent)
    /\ Show("translate", [plan |-> Translate(intent), complexity |-> ComplexityLevel(intent)])
    /\ UNCHANGED intent
    /\ OnlyPrints

RehearseCommand ==
    /\ intent # NoIntent /\ ParseIntent(intent) /\ Translates(intent)
    /\ Show("rehearse", ValidTranslation(Phases(intent)))
    /\ UNCHANGED intent
    /\ OnlyPrints

RollbackCommand ==
    /\ intent # NoIntent /\ ParseIntent(intent) /\ Translates(intent)
    /\ Show("rollback", Translate(intent).rollbackPlan)
    /\ UNCHANGED intent
    /\ OnlyPrints

-----------------------------------------------------------------------------
(* scripts/cli/intent.ts generate *)

FilesOf(phases, stamp) == {[stamp |-> stamp, phase |-> n] : n \in DOMAIN phases}

(* the rehearsal only looks whether every phase has operations *)
RehearsalSucceeds(phases) == \A n \in DOMAIN phases : phases[n].operations # <<>>

GenerateMigrationFiles ==
    /\ step = "idle" /\ intent # NoIntent
    /\ ParseIntent(intent) /\ Translates(intent)
    /\ RehearsalSucceeds(Phases(intent))
    /\ files' = files \cup FilesOf(Phases(intent), clock)
    /\ step' = "generated"
    /\ UNCHANGED <<intent, clock, idb, written, applied, rolledBack, printed>>

Drops(s) == s.verb \in {"DROP TABLE", "DROP COLUMN"}

RunIntentGovernanceChecks_NoRollback(phases) ==   \* seeded fault: rollbacks are not asked for
    \A n \in DOMAIN phases :
        LET ops == phases[n].operations
        IN  (\E k \in DOMAIN ops : Drops(ops[k].sql)) => \E k \in DOMAIN ops : ops[k].approval

RunIntentGovernanceChecks(phases) ==
    \A n \in DOMAIN phases :
        LET ops == phases[n].operations
        IN  /\ (\E k \in DOMAIN ops : Drops(ops[k].sql)) => \E k \in DOMAIN ops : ops[k].approval
            /\ phases[n].rollback # <<>>

(* a refusal deletes the files that carry the time of the deletion *)
GovernanceStep ==
    /\ step = "generated"
    /\ IF RunIntentGovernanceChecks(Phases(intent))
       THEN /\ step' = "accepted"
            /\ UNCHANGED files
       ELSE /\ step' = "refused"
            /\ files' = files \ FilesOf(Phases(intent), clock)
    /\ UNCHANGED <<intent, clock, idb, written, applied, rolledBack, printed>>

Tick ==
    /\ clock < MaxClock
    /\ clock' = clock + 1
    /\ UNCHANGED <<intent, step, files, idb, written, applied, rolledBack, printed>>

-----------------------------------------------------------------------------
(* the operator runs a phase in one transaction, or takes the last one back *)

Runs(stmts) == Script(idb, stmts)[Len(stmts)]

ApplyPhase ==
    /\ step = "accepted" /\ ~rolledBack
    /\ applied < Len(Phases(intent))
    /\ LET run == Runs([k \in DOMAIN Phases(intent)[applied + 1].operations |->
                           Phases(intent)[applied + 1].operations[k].sql])
       IN  run.ok /\ idb' = run.db
    /\ applied' = applied + 1
    /\ UNCHANGED <<intent, step, files, clock, written, rolledBack, printed>>

RollbackPhase ==
    /\ step = "accepted" /\ applied > 0
    /\ LET run == Runs(Phases(intent)[applied].rollback)
       IN  run.ok /\ idb' = run.db
    /\ applied' = applied - 1
    /\ rolledBack' = TRUE
    /\ UNCHANGED <<intent, step, files, clock, written, printed>>

(* the application writes a row to a column it has always had; the data    *)
(* phase is the second of the intents that move a column                   *)
Moving(i, k) ==
    i.type \in {"RENAME_COLUMN", "CHANGE_COLUMN_TYPE", "SPLIT_TABLE"} /\ k = <<i.table, i.column>>

WriteRow(k) ==
    LET v == IF ~Moving(intent, k) THEN "written" ELSE IF applied < 2 THEN "moved" ELSE "late"
    IN  /\ step = "accepted" /\ ~rolledBack
        /\ k \in DOMAIN idb.cols
        /\ idb' = SetCols(idb, With(idb.cols, k, Column(idb.cols[k].data \cup {v}, idb.cols[k].type)))
        /\ written' = written \cup {v}
        /\ UNCHANGED <<intent, step, files, clock, applied, rolledBack, printed>>

-----------------------------------------------------------------------------

IntentInit ==
    /\ intent = NoIntent
    /\ step = "idle"
    /\ files = {}
    /\ clock = 0
    /\ idb = IntentBase
    /\ written = {}
    /\ applied = 0
    /\ rolledBack = FALSE
    /\ printed = Nothing

IntentNext ==
    \/ \E type \in IntentTypes : CreateCommand(type)
    \/ \E i \in IntentFiles : LoadIntent(i)
    \/ ValidateCommand
    \/ TranslateCommand
    \/ RehearseCommand
    \/ RollbackCommand
    \/ GenerateMigrationFiles
    \/ GovernanceStep
    \/ Tick
    \/ ApplyPhase
    \/ RollbackPhase
    \/ \E k \in DOMAIN IntentBase.cols : WriteRow(k)

-----------------------------------------------------------------------------
(* Properties *)

(* what an accepted intent loses: rows written to the moving column after  *)
(* the data phase copied it, and texts a narrower type cuts                *)
Exempt(i) == {"late"} \cup (IF i.type = "CHANGE_COLUMN_TYPE" /\ i.new = "narrow" THEN {LongText} ELSE {})

(* Whatever intent the generator accepted, and however many of its phases  *)
(* were run while the application wrote rows, some column still holds      *)
(* every value the database ever held, but for what Exempt names: no       *)
(* accepted intent drops what it has not copied (intent-translator.ts and  *)
(* the governance checks of scripts/cli/intent.ts together).               *)
AcceptedIntentKeepsData ==
    ~rolledBack => (Held(IntentBase) \cup written) \ Exempt(intent) \subseteq Held(idb)
=============================================================================
