------------------------------ MODULE Governance ------------------------------
(***************************************************************************)
(* The checks "migrate --run" makes of the migration files before it looks *)
(* at the database (scripts/migration-*.ts).  They match expressions on    *)
(* the text of a file.  Five look at the latest file only; the others look *)
(* at every file of the checkout, whatever runGovernanceChecks asks for.   *)
(***************************************************************************)
EXTENDS Migrations

HasPrefix(f) == f.prefix # None

(* what an expression finds: a table made by a call is no SQL *)
Visible(f, stmts) ==
    {s \in Range(stmts) : ~(Marked(f, "builder") /\ s.verb \in {"CREATE TABLE", "DROP TABLE"})}

SchemaOp(s) == s.verb \in AlterVerbs \cup {"CREATE TABLE", "CREATE INDEX", "CREATE TYPE", "DROP TABLE",
                                           "DROP INDEX", "DROP TYPE", "REPLACE COLUMN"}
DataOp(f, s) ==
    \/ s.verb \in {"INSERT", "DELETE", "TRUNCATE"}
    \/ s.verb \in {"UPDATE", "CLEAR"} /\ ~Marked(f, "quoted")
ConstraintOp(s) == s.verb \in {"SET NOT NULL", "DROP NOT NULL", "ADD CONSTRAINT", "ALTER COLUMN TYPE", "RENAME TYPE"}

DetectCategories(f) ==
    LET up == Visible(f, f.up)
    IN  {c \in {"schema", "data", "constraint"} :
            \E s \in up : CASE c = "schema" -> SchemaOp(s) [] c = "data" -> DataOp(f, s) [] OTHER -> ConstraintOp(s)}

NamingPolicy(f) == HasPrefix(f)
SizeCheck(f) == f.prefix = "BASELINE" \/ ~Marked(f, "long")
MixedOpsCheck(f) ==
    f.prefix = "BASELINE" \/ Marked(f, "mixed ok") \/ Cardinality(DetectCategories(f)) <= 1
DeleteSafety(f) ==
    f.prefix = "BASELINE" \/ \A s \in Range(f.up) \cup Range(f.down) : s.verb = "DELETE" => Has(s, "WHERE")

ForbiddenInSafe == {"DROP COLUMN", "DROP TABLE", "REPLACE COLUMN", "DELETE", "TRUNCATE"}
BlockedPatterns ==
    {"DROP TABLE", "DROP COLUMN", "REPLACE COLUMN", "RENAME TYPE", "ALTER COLUMN TYPE", "SET NOT NULL", "DROP NOT NULL"}

MigrationGuard(f) ==
    \/ Marked(f, "destructive ok")
    \/ /\ f.prefix = "SAFE" =>
            \A s \in Visible(f, f.up) \cup Visible(f, f.down) : s.verb \notin ForbiddenInSafe
       /\ Marked(f, "comma") \/ \A s \in Visible(f, f.up) : s.verb \notin BlockedPatterns

MigrationIntent(f) == HasPrefix(f)

TransactionCheck(f) ==
    (\E s \in Range(f.up) \cup Range(f.down) : Has(s, "CONCURRENTLY")) => Marked(f, "no transaction")

(* down() has a body; a comment or a throw is one *)
RollbackCheck(f) == "down" \in DOMAIN f

(* the files are sorted by timestamp first, so none is older than the last *)
OrderCheck(n) == n \in DOMAIN Chain

LintForbidden(prefix) ==
    CASE prefix = "SAFE" -> {"DROP TABLE", "DROP COLUMN", "REPLACE COLUMN", "ALTER COLUMN TYPE", "SET NOT NULL",
                             "DROP NOT NULL", "RENAME TYPE", "RENAME COLUMN", "RENAME TABLE"}
      [] prefix = "DATA" -> {"DROP TABLE", "DROP COLUMN", "REPLACE COLUMN", "RENAME TYPE"}
      [] OTHER -> {}

LintMigration(f) ==
    LET up == Visible(f, f.up)
    IN  \/ f.prefix \notin {"SAFE", "DATA", "BREAKING"}
        \/ Marked(f, "unlinted")
        \/ /\ \A s \in up : s.verb \notin LintForbidden(f.prefix)
           /\ f.prefix = "SAFE" /\ (\E s \in up : s.verb \in {"CREATE TABLE", "CREATE INDEX"}) =>
                 \E s \in up : Has(s, "IF NOT EXISTS")
           /\ f.prefix = "SAFE" /\ (\E s \in up : s.verb = "DROP INDEX") =>
                 \E s \in up : Has(s, "IF EXISTS")

(* the first n files of the chain are the checkout *)
RunGovernanceChecks(n) ==
    LET latest == Chain[n]
    IN  /\ NamingPolicy(latest)
        /\ \A k \in 1 .. n : MigrationIntent(Chain[k])
        /\ SizeCheck(latest)
        /\ MixedOpsCheck(latest)
        /\ DeleteSafety(latest)
        /\ MigrationGuard(latest)
        /\ \A k \in 1 .. n : TransactionCheck(Chain[k])
        /\ \A k \in 1 .. n : RollbackCheck(Chain[k])
        /\ OrderCheck(n)
        /\ \A k \in 1 .. n : LintMigration(Chain[k])
=============================================================================
