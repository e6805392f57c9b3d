------------------------- MODULE MCMigrationTools -------------------------
EXTENDS MigrationTools

CONSTANT m1

MCTableSize == [orders |-> "MEDIUM", outbox |-> "SMALL", ratings |-> "SMALL"]

(* orders has rows, outbox holds the enum column *)
MCBaseDb ==
    LET cols == [orders_a |-> <<"orders", "a">>, orders_b |-> <<"orders", "b">>,
                 orders_v |-> <<"orders", "vehicle_type">>, orders_u |-> <<"orders", "updated_at">>,
                 outbox_s |-> <<"outbox", "status">>]
        name(k) == CHOOSE n \in DOMAIN cols : cols[n] = k
    IN  Database([t \in {"orders", "outbox"} |-> TRUE],
                 [k \in {cols[n] : n \in DOMAIN cols} |->
                     [data |-> {name(k)}, type |-> IF k[1] = "outbox" THEN "status_enum" ELSE "T1"]],
                 [i \in {"idx_outbox_worker", "idx_outbox_locked"} |-> "outbox"],
                 {"status_enum"})

(* what TypeORM's schema builder emits for one entity change *)
NewTable == <<CreateTable("ratings", {"NOT NULL"}), CreateIndex("ratings", "idx_ratings")>>
NewAuditedTable ==
    <<CreateTable("ratings", {"NOT NULL", "UPDATE"}),
      Stmt("ADD CONSTRAINT", "ratings", "fk", "orders", None, {"REFERENTIAL ACTION"})>>
NewColumn == <<AddBare("orders", "c", "T1", {})>>
NewRequiredColumn == <<AddBare("orders", "d", "T1", {"NOT NULL", "DEFAULT"})>>
DroppedColumn == <<DropColumn("orders", "b")>>
RenamedColumn == <<RenameColumn("orders", "a", "c")>>
Retyped(c) == <<AlterType("orders", c, "T2")>>
Required == <<SetNotNull("orders", "vehicle_type")>>
Optional == <<Stmt("DROP NOT NULL", "orders", "b", None, None, {})>>
Recreated == <<DropColumn("orders", "a"), AddBare("orders", "a", "T2", {})>>
DroppedTable == <<Stmt("DROP CONSTRAINT", "orders", "fk2", None, None, {}), DropTable("outbox")>>
NewIndex == <<CreateIndex("orders", "idx_updated_at")>>
EnumRebuild ==
    <<DropIndex("idx_outbox_worker"),
      Stmt("RENAME TYPE", None, None, "status_enum_old", "status_enum", {}),
      Stmt("CREATE TYPE", None, None, None, "status_enum", {}),
      AlterType("outbox", "status", "status_enum"),
      Stmt("DROP TYPE", None, None, None, "status_enum_old", {}),
      CreateIndex("outbox", "idx_outbox_worker")>>

MCChanges ==
    {NewTable, NewAuditedTable, NewColumn, NewRequiredColumn, DroppedColumn, RenamedColumn,
     Retyped("a"), Retyped("updated_at"), Required, Optional, Recreated, DroppedTable,
     NewIndex, EnumRebuild}

(* the generator also meets required columns without a default; b is one   *)
Remark(t) == <<AddBare(t, "remark", "T1", {"NOT NULL"})>>
DroppedIndex == <<DropIndex("idx_outbox_locked")>>
MCEntityChanges ==
    {NewTable, NewColumn, NewRequiredColumn, Remark("orders"), Remark("outbox"), DroppedColumn,
     Retyped("a"), Required, Optional, DroppedTable, NewIndex, DroppedIndex, EnumRebuild}
MCRequiredCols == {<<"orders", "b">>}
MCEnumIndexes == [status_enum |-> {"idx_outbox_worker", "idx_outbox_locked"}]

(* a table to split columns from and a table to merge into it *)
MCIntentBase ==
    LET cols == [orders_a |-> <<"orders", "a">>, orders_b |-> <<"orders", "b">>,
                 legacy_a |-> <<"legacy", "a">>]
        name(k) == CHOOSE n \in DOMAIN cols : cols[n] = k
    IN  Database([t \in {"orders", "legacy"} |-> TRUE],
                 [k \in {cols[n] : n \in DOMAIN cols} |->
                     [data |-> {name(k)} \cup (IF k = <<"orders", "a">> THEN {LongText} ELSE {}),
                      type |-> "T1"]],
                 [i \in {"idx_a"} |-> "orders"], {})

MCIntentFiles ==
    {Intent("RENAME_COLUMN", "orders", "a", "c"),
     Intent("RENAME_COLUMN", "orders", "a", "a"),           \* invalid
     [Intent("RENAME_COLUMN", "orders", "a", "c") EXCEPT !.version = "2.0"],
     [Intent("CHANGE_COLUMN_TYPE", "orders", "a", "T2") EXCEPT !.downtime = TRUE, !.priority = "CRITICAL"],
     [Intent("ADD_COLUMN", "orders", "c", "T1") EXCEPT !.backfill = TRUE, !.estimatedRows = TRUE],
     Intent("ADD_COLUMN", "orders", "c", "T1"),
     Intent("DROP_COLUMN", "orders", "b", None),
     Intent("ADD_INDEX", "orders", "idx_b", "b"),
     Intent("DROP_INDEX", "orders", "idx_a", None),
     Intent("ADD_CONSTRAINT", "orders", "uq_b", "b"),
     Intent("ADD_CONSTRAINT", "orders", "uq_b", None),      \* no columns: the translator throws
     Intent("CHANGE_COLUMN_TYPE", "orders", "a", "narrow"),
     Intent("add-index", "driver_locations", None, None),   \* no known type
     Intent("DROP_CONSTRAINT", "orders", "uq_a", None),
     Intent("RENAME_TABLE", "orders", None, "purchases"),
     [Intent("SPLIT_TABLE", "orders", "b", "order_notes") EXCEPT !.impact = "MASSIVE"],
     [Intent("MERGE_TABLES", "orders", "legacy", "orders") EXCEPT !.impact = "SIGNIFICANT"]}
=============================================================================
