--------------------------- MODULE MigrationPolicy ---------------------------
(***************************************************************************)
(* The policy engine of src/schema/engine/policy.  Its expressions expect  *)
(* unquoted names, the schema builder quotes them: quoted says which text  *)
(* a diff is written in.  inWindow says whether the hour lies within the   *)
(* maintenance window, downtime which tables the caller's metadata marks   *)
(* and large which it gives more than a million rows.                      *)
(***************************************************************************)
EXTENDS MigrationEngine

Violation(rule, severity) == [rule |-> rule, severity |-> severity]
Raise(condition, rule, severity) == IF condition THEN {Violation(rule, severity)} ELSE {}

(* operational-rules.ts *)

(* the name after CREATE, ALTER, DROP TABLE, INSERT INTO or UPDATE *)
PolicyTable(s, quoted) ==
    IF ~quoted /\ s.verb \in AlterVerbs \cup {"CREATE TABLE", "DROP TABLE", "UPDATE", "INSERT SELECT"}
    THEN s.table
    ELSE IF Has(s, "REFERENTIAL ACTION") THEN "no" ELSE None

DropsPart(s) == s.verb \in {"DROP COLUMN", "DROP NOT NULL", "DROP CONSTRAINT"}

IsBlockingOperation(s) == DropsPart(s) \/ s.verb = "RENAME COLUMN" \/ LooksLikeTypeChange(s)

IsHighRiskOperation(s) == s.verb = "DROP TABLE" \/ DropsPart(s) \/ LooksLikeTypeChange(s)

CheckMaintenanceWindow(stmts, inWindow) ==
    Raise(~inWindow /\ \E n \in DOMAIN stmts : IsBlockingOperation(stmts[n]), "window", "CRITICAL")

CheckTableSizeLimits(stmts, quoted, large) ==
    LET onLarge == {n \in DOMAIN stmts : PolicyTable(stmts[n], quoted) \in large}
    IN  Raise(\E n \in onLarge : IsHighRiskOperation(stmts[n]), "large table high risk", "CRITICAL")
        \cup Raise(\E n \in onLarge : IsBlockingOperation(stmts[n]) /\ ~IsHighRiskOperation(stmts[n]),
                   "large table blocking", "WARNING")

CheckBlockingOperations(stmts, quoted, downtime) ==
    LET blocking == {n \in DOMAIN stmts : IsBlockingOperation(stmts[n])}
        critical == {n \in blocking : PolicyTable(stmts[n], quoted) \in downtime}
    IN  Raise(critical # {}, "blocking", "CRITICAL")
        \cup Raise(blocking \ critical # {}, "blocking", "WARNING")

(* the last word of an ALTER COLUMN is its type or NULL, and the last word *)
(* of an ADD COLUMN, its type, is never found in a DROP COLUMN             *)
LastWord(s) == IF s.verb = "ALTER COLUMN TYPE" THEN s.type ELSE "NULL"
AltersColumn(s) == s.verb \in {"ALTER COLUMN TYPE", "SET NOT NULL", "DROP NOT NULL"}

IsConflictingOperations(p, q, quoted) ==
    /\ PolicyTable(p, quoted) # None
    /\ PolicyTable(p, quoted) = PolicyTable(q, quoted)
    /\ \/ AltersColumn(p) /\ AltersColumn(q) /\ LastWord(p) = LastWord(q)
       \/ {p.verb, q.verb} = {"ADD CONSTRAINT", "DROP CONSTRAINT"}

CheckOperationConflicts(stmts, quoted) ==
    Raise(\E n, k \in DOMAIN stmts : n < k /\ IsConflictingOperations(stmts[n], stmts[k], quoted),
          "conflict", "WARNING")

OperationalViolations(stmts, quoted, inWindow, downtime, large) ==
    CheckMaintenanceWindow(stmts, inWindow)
    \cup CheckTableSizeLimits(stmts, quoted, large)
    \cup CheckBlockingOperations(stmts, quoted, downtime)
    \cup CheckOperationConflicts(stmts, quoted)

(* compatibility-rules.ts: the rules on columns and constraints want       *)
(* table.column, which no statement has, so only table drops are found     *)
CheckTableDrops(stmts, quoted) ==
    Raise(~quoted /\ \E n \in DOMAIN stmts : stmts[n].verb = "DROP TABLE", "table drop", "CRITICAL")

(* policy-engine.ts *)
Evaluate(stmts, quoted, inWindow, downtime, large) ==
    LET found == {v.severity : v \in CheckTableDrops(stmts, quoted)
                     \cup OperationalViolations(stmts, quoted, inWindow, downtime, large)}
    IN  CASE "CRITICAL" \in found -> "DENY"
          [] "WARNING" \in found  -> "REQUIRE_APPROVAL"
          [] OTHER                -> "ALLOW"
=============================================================================
