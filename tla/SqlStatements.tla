---------------------------- MODULE SqlStatements ----------------------------
(***************************************************************************)
(* SQL statements as the migration engine sees them, and what PostgreSQL   *)
(* does with them.  The engine never parses SQL: it matches regular        *)
(* expressions, so a statement is the verb the expressions look for, the   *)
(* names they capture, and the words that occur in its text outside the    *)
(* verb (inside a column name, a type or a referential action).            *)
(***************************************************************************)
EXTENDS Integers, Sequences, FiniteSets, SequencesExt

(* words of a name that an expression without word boundaries also finds *)
NameWords(name) ==
    CASE name \in {"updated_at", "updated_at_v2"}     -> {"UPDATE"}
      [] name \in {"vehicle_type", "vehicle_type_v2"} -> {"TYPE"}
      [] OTHER                                        -> {}

None == "none"

(***************************************************************************)
(* col is the column (or the index or constraint name), to the new name,   *)
(* the source column of a copying UPDATE or the referenced table, type the *)
(* column type; empty fields are None.                                     *)
(***************************************************************************)
Stmt(verb, table, col, to, type, words) ==
    [verb |-> verb, table |-> table, col |-> col, to |-> to, type |-> type,
     words |-> words \cup NameWords(col)]

(* cols: the columns of a new table and their types *)
TableOf(t, cols, words) ==
    [verb |-> "CREATE TABLE", table |-> t, col |-> None, to |-> None, type |-> None,
     words |-> words, cols |-> cols]
CreateTable(t, words) == TableOf(t, <<>>, words)
DropTable(t)          == Stmt("DROP TABLE", t, None, None, None, {})
AddBare(t, c, ty, ws) == Stmt("ADD", t, c, None, ty, ws)
AddColumn(t, c, ty)   == Stmt("ADD COLUMN", t, c, None, ty, {})
DropColumn(t, c)      == Stmt("DROP COLUMN", t, c, None, None, {})
RenameColumn(t, c, n) == Stmt("RENAME COLUMN", t, c, n, None, NameWords(n))
AlterType(t, c, ty)   == Stmt("ALTER COLUMN TYPE", t, c, None, ty, {})
SetNotNull(t, c)      == Stmt("SET NOT NULL", t, c, None, None, {})
CreateIndex(t, i)     == Stmt("CREATE INDEX", t, i, None, None, {})
DropIndex(i)          == Stmt("DROP INDEX", None, i, None, None, {})
DropIndexIfExists(i)  == Stmt("DROP INDEX", None, i, None, None, {"IF EXISTS"})
CopyColumn(t, c, src) == Stmt("UPDATE", t, c, src, None, {})
CastColumn(t, c, src, ty) == Stmt("UPDATE", t, c, src, ty, {"CAST"})
FillColumn(t, c)      == Stmt("UPDATE", t, c, None, None, {})
Query                 == Stmt("SELECT", None, None, None, None, {})

Has(s, word) == word \in s.words

AlterVerbs ==
    {"ADD", "ADD COLUMN", "DROP COLUMN", "RENAME COLUMN", "ALTER COLUMN TYPE",
     "SET NOT NULL", "DROP NOT NULL", "ADD CONSTRAINT", "DROP CONSTRAINT"}

(* text.includes("DROP"), "ADD", "ALTER" *)
SaysDrop(s)  == s.verb \in {"DROP TABLE", "DROP COLUMN", "DROP NOT NULL",
                            "DROP INDEX", "DROP CONSTRAINT", "DROP TYPE"}
SaysAdd(s)   == s.verb \in {"ADD", "ADD COLUMN", "ADD CONSTRAINT"}
SaysAlter(s) == s.verb \in AlterVerbs \cup {"RENAME TYPE"}

-----------------------------------------------------------------------------
(* The database: every column knows whose data it holds, {} when its rows  *)
(* have no value; a placeholder value is "fill".                           *)

(* tables: name -> has rows; cols: <<table, column>> -> [data, type];      *)
(* indexes: name -> table                                                  *)
Database(tables, cols, indexes, types) ==
    [tables |-> tables, cols |-> cols, indexes |-> indexes, types |-> types]
Column(data, type) == [data |-> data, type |-> type]

SetTables(db, tables, cols) == Database(tables, cols, db.indexes, db.types)
SetCols(db, cols) == Database(db.tables, cols, db.indexes, db.types)
SetIndexes(db, indexes) == Database(db.tables, db.cols, indexes, db.types)
SetTypes(db, cols, types) == Database(db.tables, cols, db.indexes, types)

(* a column belongs to a table of the database *)
WellFormed(db) ==
    /\ db = Database(db.tables, db.cols, db.indexes, db.types)
    /\ db.cols = [k \in DOMAIN db.cols |-> Column(db.cols[k].data, db.cols[k].type)]
    /\ \A k \in DOMAIN db.cols : k = <<k[1], k[2]>> /\ k[1] \in DOMAIN db.tables

ColsOf(db, t) == {k \in DOMAIN db.cols : k[1] = t}
Without(f, ks) == [k \in DOMAIN f \ ks |-> f[k]]
With(f, k, v) == [x \in DOMAIN f \cup {k} |-> IF x = k THEN v ELSE f[x]]

(* texts that are no UUID: one that does not look like one, one of 36      *)
(* hexadecimal digits and hyphens, and one longer than "narrow" takes; the *)
(* backfill replaces what does not look like a UUID, and cannot convert    *)
(* what only looks like one                                                *)
FreeForm == "free form"
Malformed == "malformed"
LongText == "long"
NoUuids == {FreeForm, Malformed, LongText}
AsUuid(data) == {IF v \in {FreeForm, LongText} THEN "random" ELSE v : v \in data}

Shortened(data) == {IF v = LongText THEN "cut" ELSE v : v \in data}

(* types the server has built in *)
BuiltIn == {None, "T1", "T2", "uuid", "text", "varchar", "narrow", "other"}

(* the values a column can take over when its type is altered *)
Fits(data, ty) == /\ ty = "uuid" => data \cap NoUuids = {}
                  /\ ty = "narrow" => LongText \notin data
(* an explicit cast cuts a text that is too long                           *)
CastOf(data, ty) == IF ty = "narrow" THEN Shortened(data) ELSE data

(* an added or altered column needs its enum type *)
TypeExists(db, ty) == ty \in BuiltIn \/ ty \in db.types

(* IF EXISTS, IF NOT EXISTS; a migration that looks for the table and the  *)
(* column in information_schema first is GUARDED                           *)
There(db, s) ==
    CASE s.verb \in {"CREATE TABLE", "DROP TABLE"} -> s.table \in DOMAIN db.tables
      [] s.verb \in {"CREATE INDEX", "DROP INDEX"} -> s.col \in DOMAIN db.indexes
      [] s.verb \in {"CREATE TYPE", "DROP TYPE"}   -> s.type \in db.types
      [] s.verb = "RENAME COLUMN" -> <<s.table, s.col>> \in DOMAIN db.cols
                                       /\ <<s.table, s.to>> \notin DOMAIN db.cols
      [] OTHER -> <<s.table, s.col>> \in DOMAIN db.cols
Skipped(db, s) ==
    \/ Has(s, "IF NOT EXISTS") /\ There(db, s)
    \/ /\ Has(s, "IF EXISTS") /\ ~There(db, s)
       /\ s.verb \in {"DROP TABLE", "DROP INDEX", "DROP TYPE"} \/ s.table \in DOMAIN db.tables
    \/ Has(s, "GUARDED") /\ ~There(db, s)

(* the source of an UPDATE is there and its values can be converted        *)
UpdateConverts(db, s, target, source) ==
    /\ source \in DOMAIN db.cols
    /\ Has(s, "CAST") /\ s.type = "uuid" => db.cols[source].data \cap NoUuids = {}
    /\ Has(s, "WHERE NULL") /\ db.cols[target].data = {} => Malformed \notin db.cols[source].data

CanRun(db, s) ==
    LET t == s.table
        k == <<s.table, s.col>>
        has == t \in DOMAIN db.tables
        hasCol == has /\ k \in DOMAIN db.cols
    IN CASE s.verb = "CREATE TABLE" ->
              ~has /\ \A ty \in {s.cols[c] : c \in DOMAIN s.cols} : TypeExists(db, ty)
         [] s.verb = "DROP TABLE"   -> has
         [] s.verb \in {"ADD", "ADD COLUMN"} ->
              /\ has
              /\ ~hasCol
              /\ Has(s, "NOT NULL") => (Has(s, "DEFAULT") \/ ~db.tables[t])
              /\ TypeExists(db, s.type)
         [] s.verb \in {"DROP COLUMN", "DROP NOT NULL"} -> hasCol
         [] s.verb = "ALTER COLUMN TYPE" ->
              /\ hasCol /\ TypeExists(db, s.type)
              /\ Fits(db.cols[k].data, s.type)
         [] s.verb = "RENAME COLUMN" -> hasCol /\ <<t, s.to>> \notin DOMAIN db.cols
         [] s.verb = "SET NOT NULL"  -> hasCol /\ (db.cols[k].data # {} \/ ~db.tables[t])
         [] s.verb = "CLEAR"         -> hasCol
         [] s.verb = "RENAME TABLE"  -> has /\ s.to \notin DOMAIN db.tables
         [] s.verb = "CREATE TABLE AS" -> ~has /\ s.to \in DOMAIN db.tables
         [] s.verb \in {"INSERT SELECT", "DELETE COPIED"} -> has /\ s.to \in DOMAIN db.tables
         [] s.verb = "TRUNCATE"      -> has
         [] s.verb \in {"INSERT", "DELETE"} -> has
         [] s.verb = "REPLACE COLUMN" -> hasCol
         [] s.verb = "THROW"         -> FALSE
         [] s.verb = "UPDATE"        ->
              /\ hasCol
              /\ s.to # None => UpdateConverts(db, s, k, <<t, s.to>>)
         [] s.verb = "CREATE INDEX"  -> has /\ s.col \notin DOMAIN db.indexes /\ ~Has(s, "MALFORMED")
         [] s.verb = "DROP INDEX"    -> s.col \in DOMAIN db.indexes
         [] s.verb = "ADD CONSTRAINT" -> has /\ (s.to # None => s.to \in DOMAIN db.tables)
         [] s.verb = "DROP CONSTRAINT" -> has
         [] s.verb = "CREATE TYPE"   -> s.type \notin db.types
         [] s.verb = "RENAME TYPE"   -> s.type \in db.types /\ s.to \notin db.types
         [] s.verb = "DROP TYPE"     -> s.type \in db.types
                                          /\ \A c \in DOMAIN db.cols : db.cols[c].type # s.type
         [] OTHER -> TRUE            \* a query, a comment

Executes(db, s) == Skipped(db, s) \/ CanRun(db, s)

Change(db, s) ==
    LET t == s.table
        k == <<s.table, s.col>>
        n == <<s.table, s.to>>
        cols == db.cols
    IN CASE s.verb = "CREATE TABLE" ->
              SetTables(db, With(db.tables, t, FALSE),
                        [c \in DOMAIN cols \cup {<<t, m>> : m \in DOMAIN s.cols} |->
                            IF c[1] = t THEN Column({}, s.cols[c[2]]) ELSE cols[c]])
         [] s.verb = "DROP TABLE"   ->
              SetIndexes(SetTables(db, Without(db.tables, {t}), Without(cols, ColsOf(db, t))),
                         Without(db.indexes, {i \in DOMAIN db.indexes : db.indexes[i] = t}))
         [] s.verb \in {"ADD", "ADD COLUMN"} ->
              SetCols(db, With(cols, k, Column(IF Has(s, "DEFAULT") /\ db.tables[t] THEN {"fill"} ELSE {},
                                               s.type)))
         [] s.verb = "DROP COLUMN"  -> SetCols(db, Without(cols, {k}))
         [] s.verb = "RENAME COLUMN" -> SetCols(db, With(Without(cols, {k}), n, cols[k]))
         [] s.verb = "REPLACE COLUMN" ->        \* DROP COLUMN IF EXISTS to; RENAME COLUMN col TO to
              SetCols(db, With(Without(cols, {k}), n, cols[k]))
         [] s.verb = "ALTER COLUMN TYPE" -> SetCols(db, With(cols, k, Column(cols[k].data, s.type)))
         [] s.verb = "UPDATE" ->
              LET old == cols[k].data
                  new == IF Has(s, "WHERE NULL") THEN (IF old = {} THEN AsUuid(cols[n].data) ELSE old)
                         ELSE IF s.to = None THEN (IF old = {} /\ db.tables[t] THEN {"fill"} ELSE old)
                         ELSE IF Has(s, "CAST") THEN CastOf(cols[n].data, s.type) ELSE cols[n].data
              IN  SetCols(db, With(cols, k, Column(new, cols[k].type)))
         [] s.verb = "CLEAR" -> SetCols(db, With(cols, k, Column({}, cols[k].type)))
         [] s.verb = "RENAME TABLE" ->
              SetTables(db, With(Without(db.tables, {t}), s.to, db.tables[t]),
                        [c \in {<<IF k2[1] = t THEN s.to ELSE k2[1], k2[2]>> : k2 \in DOMAIN cols} |->
                            IF c[1] = s.to THEN cols[<<t, c[2]>>] ELSE cols[c]])
         [] s.verb = "CREATE TABLE AS" ->       \* the selected column, no rows
              SetTables(db, With(db.tables, t, FALSE), With(cols, k, Column({}, s.type)))
         [] s.verb = "INSERT SELECT" ->         \* rows of table to, column by column
              SetTables(db, With(db.tables, t, db.tables[t] \/ db.tables[s.to]),
                        [c \in DOMAIN cols |->
                            IF c[1] = t /\ <<s.to, c[2]>> \in DOMAIN cols
                            THEN Column(cols[c].data \cup cols[<<s.to, c[2]>>].data, cols[c].type)
                            ELSE cols[c]])
         [] s.verb = "DELETE COPIED" ->         \* the rows that table to has as well
              SetCols(db, [c \in DOMAIN cols |->
                            IF c[1] = t /\ <<s.to, c[2]>> \in DOMAIN cols
                            THEN Column(cols[c].data \ cols[<<s.to, c[2]>>].data, cols[c].type)
                            ELSE cols[c]])
         [] s.verb = "TRUNCATE" ->
              SetTables(db, With(db.tables, t, FALSE),
                        [c \in DOMAIN cols |-> IF c[1] = t THEN Column({}, cols[c].type) ELSE cols[c]])
         [] s.verb = "CREATE INDEX" -> SetIndexes(db, With(db.indexes, s.col, t))
         [] s.verb = "DROP INDEX"   -> SetIndexes(db, Without(db.indexes, {s.col}))
         [] s.verb = "CREATE TYPE"  -> SetTypes(db, cols, db.types \cup {s.type})
         [] s.verb = "RENAME TYPE"  ->
              SetTypes(db, [c \in DOMAIN cols |->
                              Column(cols[c].data, IF cols[c].type = s.type THEN s.to ELSE cols[c].type)],
                       (db.types \ {s.type}) \cup {s.to})
         [] s.verb = "DROP TYPE"    -> SetTypes(db, cols, db.types \ {s.type})
         [] OTHER -> db

Effect(db, s) == IF Skipped(db, s) THEN db ELSE Change(db, s)

(***************************************************************************)
(* A script stops at its first error.  after[n] is the database after the  *)
(* first n statements, ok whether all of them were executed.               *)
(***************************************************************************)
Script(db, stmts) ==
    LET after[n \in 0 .. Len(stmts)] ==
          IF n = 0 THEN [db |-> db, ok |-> TRUE]
          ELSE LET before == after[n - 1]
               IN IF before.ok /\ Executes(before.db, stmts[n])
                  THEN [db |-> Effect(before.db, stmts[n]), ok |-> TRUE]
                  ELSE [before EXCEPT !.ok = FALSE]
    IN after
Whole(db, stmts) == Script(db, stmts)[Len(stmts)]

(* the data some column holds *)
Held(db) == UNION {db.cols[k].data : k \in DOMAIN db.cols}
=============================================================================
