-------------------------- MODULE MigrationGenerate --------------------------
(***************************************************************************)
(* scripts/cli/migrate.ts --generate: TypeORM writes one migration file    *)
(* with the statements of a diff in up() and their inverses in down(); the *)
(* CLI rewrites required columns into three files, guards the partial      *)
(* indexes of a rebuilt enum and may take the file apart around them.  Its *)
(* expressions search the text of the whole file, down() included.         *)
(***************************************************************************)
EXTENDS MigrationEngine

CONSTANTS
    BaseDb,         \* the schema a diff is taken against
    EntityChanges,  \* statement sequences TypeORM emits for one entity change
    MaxGenerated,   \* bound: entity changes in one diff
    RequiredCols,   \* <<table, column>> pairs that are NOT NULL
    EnumIndexes     \* enum type -> indexes whose WHERE names it

ASSUME BaseAssumption == WellFormed(BaseDb)

VARIABLE gen        \* what --generate has done: its step, the diff, the
                    \* prefix for the first file, and the files [prefix, up]

NothingGenerated == [step |-> "none"]
GeneratedFile(prefix, up) == [prefix |-> prefix, up |-> up]

-----------------------------------------------------------------------------
(* The file of TypeORM *)

Opposite ==
    ("SET NOT NULL" :> "DROP NOT NULL") @@ ("DROP NOT NULL" :> "SET NOT NULL") @@
    ("CREATE TYPE" :> "DROP TYPE") @@ ("DROP TYPE" :> "CREATE TYPE") @@
    ("ADD CONSTRAINT" :> "DROP CONSTRAINT") @@ ("DROP CONSTRAINT" :> "ADD CONSTRAINT")

Reverted(s) ==
    CASE s.verb = "CREATE TABLE" -> DropTable(s.table)
      [] s.verb = "DROP TABLE"   -> CreateTable(s.table, {"NOT NULL", "DEFAULT"})
      [] s.verb = "ADD"          -> DropColumn(s.table, s.col)
      [] s.verb = "DROP COLUMN"  ->
           AddBare(s.table, s.col, None, IF <<s.table, s.col>> \in RequiredCols THEN {"NOT NULL"} ELSE {})
      [] s.verb = "CREATE INDEX" -> DropIndex(s.col)
      [] s.verb = "DROP INDEX"   -> CreateIndex(s.table, s.col)
      [] s.verb = "RENAME TYPE"  -> [s EXCEPT !.type = s.to, !.to = s.type]
      [] s.verb = "RENAME COLUMN" -> RenameColumn(s.table, s.to, s.col)
      [] s.verb \in DOMAIN Opposite -> [s EXCEPT !.verb = Opposite[s.verb]]
      [] OTHER -> s

FileText(up) == up \o Reverse([i \in DOMAIN up |-> Reverted(up[i])])

-----------------------------------------------------------------------------
(* Classification *)

SqlCategory(s) ==
    IF s.verb \in BreakingVerbs \cup {"RENAME TABLE"} \/ LooksLikeTypeChange(s) THEN "BREAKING" ELSE "SAFE"

DominantPrefix(text) ==
    IF \E i \in DOMAIN text : SqlCategory(text[i]) = "BREAKING" THEN "BREAKING" ELSE "SAFE"

-----------------------------------------------------------------------------
(* rewriteNotNullViolations.  From ADD "column" the expression runs on to  *)
(* the next NOT of the file, in whichever statement it stands; NOT NULL    *)
(* DEFAULT stops it.                                                       *)

NotOf(s) ==
    CASE s.verb \in {"SET NOT NULL", "DROP NOT NULL"} -> "plain"
      [] Has(s, "NOT NULL") -> IF Has(s, "DEFAULT") THEN "default" ELSE "plain"
      [] OTHER -> "absent"

(* ALTER COLUMN ... SET is no statement any more *)
WithoutNotNull(s) ==
    IF s.verb \in {"SET NOT NULL", "DROP NOT NULL"} THEN [s EXCEPT !.verb = "THROW"]
    ELSE [s EXCEPT !.words = @ \ {"NOT NULL"}]

Scan(acc, s) ==
    LET opened == IF acc.open = None /\ s.verb = "ADD" THEN s.col ELSE acc.open
    IN  IF opened = None \/ NotOf(s) = "absent"
        THEN [acc EXCEPT !.text = Append(@, s), !.open = opened]
        ELSE IF NotOf(s) = "default" THEN [acc EXCEPT !.text = Append(@, s), !.open = None]
        ELSE [text |-> Append(acc.text, WithoutNotNull(s)), open |-> None,
              columns |-> Append(acc.columns, opened)]

RewriteNotNullViolations(text) ==
    FoldLeft(Scan, [text |-> <<>>, open |-> None, columns |-> <<>>], text)

(* the table all companions are written for: the first one altered in the  *)
(* file.  There is one, for the expression matches from an ADD on.         *)
CompanionTable(text) == SelectSeq(text, LAMBDA s : s.verb \in AlterVerbs)[1].table

(* values for the existing rows, then the constraint *)
Companions(t, columns) ==
    <<GeneratedFile("DATA", [i \in DOMAIN columns |-> FillColumn(t, columns[i])]),
      GeneratedFile("BREAKING", [i \in DOMAIN columns |-> SetNotNull(t, columns[i])])>>

-----------------------------------------------------------------------------
(* Enums: a partial index that names the type blocks its rebuild *)

DependentIndexes(text) ==
    UNION {EnumIndexes[e] : e \in {ty \in DOMAIN EnumIndexes :
        \E i \in DOMAIN text : text[i].verb = "RENAME TYPE" /\ text[i].type = ty}}

Mentions(text, verb, i) == \E n \in DOMAIN text : text[n].verb = verb /\ text[n].col = i

(* the dependent indexes the whole file drops, or creates, nowhere *)
Unguarded(text, verb) == {i \in DependentIndexes(text) : ~Mentions(text, verb, i)}

InjectDependentIndexGuards(text, up) ==
    LET drops == SetToSeq(Unguarded(text, "DROP INDEX"))
        creates == SetToSeq(Unguarded(text, "CREATE INDEX"))
    IN  [i \in DOMAIN drops |-> DropIndexIfExists(drops[i])]
        \o up
        \o [i \in DOMAIN creates |-> CreateIndex(BaseDb.indexes[creates[i]], creates[i])]

EnumFiles_NoPost(before, rewrite, after) ==   \* seeded fault: the third file is not written
    <<GeneratedFile("SAFE", before), GeneratedFile("BREAKING", rewrite)>>
EnumFiles(before, rewrite, after) ==
    <<GeneratedFile("SAFE", before), GeneratedFile("BREAKING", rewrite), GeneratedFile("SAFE", after)>>

AppendUnseen(seen, s) == IF s \in ToSet(seen) THEN seen ELSE Append(seen, s)

(* three files around the rewrite, or the file as it is *)
DecomposeEnumIndexedMigration(up, indexes, files) ==
    LET is(s, verb) == s.verb = verb /\ s.col \in indexes
        before == FoldLeft(AppendUnseen, <<>>, SelectSeq(up, LAMBDA s : is(s, "DROP INDEX")))
        after == FoldLeft(AppendUnseen, <<>>, SelectSeq(up, LAMBDA s : is(s, "CREATE INDEX")))
        rewrite == SelectSeq(up, LAMBDA s : ~is(s, "DROP INDEX") /\ ~is(s, "CREATE INDEX"))
    IN  IF <<>> \in {before, rewrite, after} THEN files ELSE EnumFiles(before, rewrite, after)

-----------------------------------------------------------------------------
(* runGenerate.  A name with "baseline" in it and an empty diff end it     *)
(* before a file is written.                                               *)

GenerateInit == gen = NothingGenerated

TypeormGenerates ==
    /\ gen = NothingGenerated
    /\ \E changes \in SeqOf(EntityChanges, MaxGenerated) :
          /\ changes # <<>> /\ IsInjective(changes)
          /\ LET up == FlattenSeq(changes)
             IN  gen' = [step |-> "generated", diff |-> up, files |-> <<GeneratedFile("SAFE", up)>>,
                         prefix |-> DominantPrefix(FileText(up))]

AutoSafetyRewrites ==
    /\ gen.step = "generated"
    /\ LET text == FileText(gen.diff)
           scanned == RewriteNotNullViolations(text)
           up == SubSeq(scanned.text, 1, Len(gen.diff))
           guarded == InjectDependentIndexGuards(scanned.text, up)
           rewritten == <<GeneratedFile("SAFE", guarded)>>
       IN  gen' = [gen EXCEPT
                     !.step = IF scanned.columns = <<>> /\ guarded # up THEN "guarded" ELSE "rewritten",
                     !.files = IF scanned.columns = <<>> THEN rewritten
                               ELSE rewritten \o Companions(CompanionTable(text), scanned.columns)]

Decompose ==
    /\ gen.step = "guarded"
    /\ LET files == DecomposeEnumIndexedMigration(gen.files[1].up,
                        DependentIndexes(FileText(gen.diff)), gen.files)
       IN  gen' = [gen EXCEPT !.files = files,
                              !.step = IF files = gen.files THEN "rewritten" ELSE "done"]

RenameWithPrefix ==
    /\ gen.step = "rewritten"
    /\ gen' = [gen EXCEPT !.files[1].prefix = gen.prefix, !.step = "done"]

(* the files are taken away and the command runs again *)
NextInvocation ==
    /\ gen.step = "done"
    /\ gen' = NothingGenerated

GenerateNext ==
    \/ TypeormGenerates \/ AutoSafetyRewrites \/ Decompose \/ RenameWithPrefix
    \/ NextInvocation

-----------------------------------------------------------------------------
(* names and types, without the rows *)
Shape(d) ==
    [tables |-> DOMAIN d.tables, cols |-> [k \in DOMAIN d.cols |-> d.cols[k].type],
     indexes |-> d.indexes, types |-> d.types]

(* The generated files, applied one after the other, leave the tables,     *)
(* columns, types and indexes TypeORM's diff asks for and hold the data it *)
(* keeps, or they fail: taking a file apart, guarding indexes and moving   *)
(* constraints never makes a run that quietly does something else          *)
(* (rewriteNotNullViolations, injectDependentIndexGuards,                  *)
(* decomposeEnumIndexedMigration).                                         *)
GeneratedDoesTheDiff ==
    gen.step = "done" =>
        LET relaxed == [i \in DOMAIN gen.diff |->
                          IF gen.diff[i].verb = "ADD" THEN WithoutNotNull(gen.diff[i]) ELSE gen.diff[i]]
            wanted == Whole(BaseDb, relaxed)
            got == Whole(BaseDb, FlattenSeq([i \in DOMAIN gen.files |-> gen.files[i].up]))
        IN  wanted.ok /\ got.ok =>
               Shape(got.db) = Shape(wanted.db) /\ Held(wanted.db) \subseteq Held(got.db)
=============================================================================
