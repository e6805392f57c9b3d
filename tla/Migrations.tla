------------------------------ MODULE Migrations ------------------------------
(***************************************************************************)
(* The migrations of src/migrations in the order of their timestamps, each *)
(* as the statements of its up() and of its down().  A table carries the   *)
(* columns a later migration names; defaults, comments and foreign keys    *)
(* are left out, since no statement of the chain fails for one; of several *)
(* indexes that come and go together one stands for all.  The files of no  *)
(* lines (VerifyZeroDrift) define no migration.                            *)
(***************************************************************************)
EXTENDS SqlStatements

INE == {"IF NOT EXISTS"}
IE  == {"IF EXISTS"}

(* one statement for each name *)
Each(names, Op(_)) == [n \in DOMAIN names |-> Op(names[n])]

NewType(ty)         == Stmt("CREATE TYPE", None, None, None, ty, {})
NewTypeOrDup(ty)    == Stmt("CREATE TYPE", None, None, None, ty, INE)   \* EXCEPTION WHEN duplicate_object
GoneType(ty)        == Stmt("DROP TYPE", None, None, None, ty, IE)
GoneTable(t)        == Stmt("DROP TABLE", t, None, None, None, IE)
Table(t, cols)      == TableOf(t, cols, INE)
Untyped(cols)       == [c \in cols |-> "other"]
Index(t, i)         == Stmt("CREATE INDEX", t, i, None, None, INE)
Concurrently(s)     == [s EXCEPT !.words = @ \cup {"CONCURRENTLY"}]
Add(t, c, ty)       == Stmt("ADD", t, c, None, ty, INE)
Gone(t, c)          == Stmt("DROP COLUMN", t, c, None, None, IE)
AddRequired(t, c)   == AddBare(t, c, "varchar", {"NOT NULL"})
Nullable(t, c)      == Stmt("DROP NOT NULL", t, c, None, None, {})
IfThere(s)          == [s EXCEPT !.words = @ \cup {"GUARDED"}]
Constraint(t, c)    == Stmt("ADD CONSTRAINT", t, c, None, None, {})
NoConstraint(t, c)  == Stmt("DROP CONSTRAINT", t, c, None, None, {})

(* TypeORM's rebuild of an enum and the way back *)
RetypeEnum(t, c, ty, old) ==
    <<Stmt("RENAME TYPE", None, None, old, ty, {}), NewType(ty), AlterType(t, c, ty),
      Stmt("DROP TYPE", None, None, None, old, {})>>
RestoreEnum(t, c, ty, old) ==
    <<NewType(old), AlterType(t, c, old), GoneType(ty), Stmt("RENAME TYPE", None, None, ty, old, {})>>

-----------------------------------------------------------------------------
(* 1000000000000 BASELINE_Initial *)

BaselineEnums ==
    <<"driver_status_enum", "admin_role_enum", "outbox_status_enum", "delivery_status_enum",
      "delivery_event_type_enum", "driver_offer_status_enum", "notification_method_enum",
      "auth_provider_enum">>

BaselineTables ==
    <<Table("cities", Untyped({"id"})),
      Table("zones", Untyped({"id"})),
      Index("zones", "idx_zones_city_id"),
      Table("admin_users", [id |-> "uuid", role |-> "admin_role_enum"]),
      Index("admin_users", "idx_admin_users_is_active"),
      Table("drivers",
            [id |-> "uuid", name |-> "varchar", phone |-> "varchar", status |-> "driver_status_enum",
             city_id |-> "varchar", zone_id |-> "varchar", auth_provider |-> "auth_provider_enum"]),
      Index("drivers", "idx_drivers_city_id")>>

BaselineDeliveries ==
    <<Table("deliveries", [id |-> "uuid", seller_order_id |-> "varchar", channel_id |-> "varchar",
                           driver_id |-> "uuid", status |-> "delivery_status_enum"]),
      Index("deliveries", "idx_delivery_active_driver"),
      Table("delivery_events", [id |-> "uuid", seller_order_id |-> "varchar",
                                event_type |-> "delivery_event_type_enum"]),
      Index("delivery_events", "idx_delivery_events_seller_order_id"),
      Index("delivery_events", "idx_delivery_pending"),
      Table("assignments", [id |-> "uuid", driver_id |-> "varchar"])>>

BaselineQueues ==
    <<Table("driver_offers", [id |-> "uuid", status |-> "driver_offer_status_enum",
                              notification_method |-> "notification_method_enum"]),
      Index("driver_offers", "idx_delivery_pending"),        \* the name is taken: nothing happens
      Table("outbox", [id |-> "other", status |-> "outbox_status_enum", idempotency_key |-> "varchar"]),
      Index("outbox", "idx_outbox_worker"),
      Index("outbox", "idx_outbox_locked"),
      Table("outbox_archive", [id |-> "other", status |-> "outbox_status_enum", idempotency_key |-> "varchar"]),
      Table("audit_logs", Untyped({"id"}))>>

BaselineUp == Each(BaselineEnums, NewType) \o BaselineTables \o BaselineDeliveries \o BaselineQueues

BaselineDown ==
    Each(<<"audit_logs", "outbox_archive", "outbox", "driver_offers", "assignments",
           "delivery_events", "deliveries", "drivers", "admin_users", "zones", "cities">>, GoneTable)
    \o Each(BaselineEnums, GoneType)

(* 1753920000000: outside a transaction *)
DuplicateIndexUp == <<Concurrently(Index("driver_offers", "idx_driver_offers_delivery_id"))>>
DuplicateIndexDown == <<Concurrently(DropIndexIfExists("idx_driver_offers_delivery_id"))>>

(* 1753920001000 *)
CityZoneUuidUp == <<AlterType("drivers", "city_id", "uuid"), AlterType("drivers", "zone_id", "uuid")>>
CityZoneUuidDown == <<AlterType("drivers", "city_id", "varchar"), AlterType("drivers", "zone_id", "varchar")>>

-----------------------------------------------------------------------------
(* 1774093828154 .. 157: seller_order_id becomes a UUID in three phases *)

RealignExpandUp ==
    <<Add("deliveries", "seller_order_id_uuid", "uuid"), Add("assignments", "driver_id_uuid", "uuid"),
      Index("deliveries", "idx_deliveries_seller_uuid"), Index("assignments", "idx_assignments_driver_uuid")>>
RealignExpandDown == <<>>

(* the rows without a value; an id that is no UUID gets a random one *)
NewExtension == Stmt("CREATE EXTENSION", None, None, None, None, INE)     \* pgcrypto
RealignBackfillUp_Overwrites ==         \* seeded fault: only the fallback is written
    <<NewExtension,
      IfThere(FillColumn("deliveries", "seller_order_id_uuid"))>>
RealignBackfillUp ==
    <<NewExtension,
      IfThere(Stmt("UPDATE", "deliveries", "seller_order_id_uuid", "seller_order_id", None, {"WHERE NULL"})),
      IfThere(Stmt("UPDATE", "assignments", "driver_id_uuid", "driver_id", None, {"WHERE NULL"}))>>
RealignBackfillDown ==
    <<Stmt("CLEAR", "deliveries", "seller_order_id_uuid", None, None, {}),
      Stmt("CLEAR", "assignments", "driver_id_uuid", None, None, {})>>

(* one DO block: all of it if the uuid column is there *)
RealignContractUp ==
    <<Stmt("REPLACE COLUMN", "deliveries", "seller_order_id_uuid", "seller_order_id", None, {"GUARDED"})>>
RealignContractDown == <<Add("deliveries", "seller_order_id_uuid", "uuid")>>

RealignIndexNames ==
    <<<<"drivers", "idx_drivers_city_uuid">>, <<"drivers", "idx_drivers_zone_uuid">>,
      <<"deliveries", "idx_deliveries_driver_status">>, <<"delivery_events", "idx_delivery_events_delivery">>>>
RealignIndexesUp_NotIdempotent ==       \* seeded fault: no IF NOT EXISTS
    Each(RealignIndexNames, LAMBDA i : CreateIndex(i[1], i[2]))
RealignIndexesUp == Each(RealignIndexNames, LAMBDA i : Concurrently(Index(i[1], i[2])))
RealignIndexesDown == Each(RealignIndexNames, LAMBDA i : Concurrently(DropIndexIfExists(i[2])))

-----------------------------------------------------------------------------
(* 1774166664498 *)

ArchiveColumns == <<"is_compressed", "compressed_payload", "original_payload_size", "compressed_payload_size">>

OutboxPriorityUp ==
    <<NewTypeOrDup("outbox_priority_enum"),
      Stmt("ADD", "outbox", "priority", None, "outbox_priority_enum", INE \cup {"NOT NULL", "DEFAULT"}),
      Table("outbox_archive", [id |-> "other", status |-> "outbox_status_enum", idempotency_key |-> "varchar"])>>
    \o Each(ArchiveColumns, LAMBDA c : Stmt("ADD", "outbox_archive", c, None, "other", INE))
    \o <<NewTypeOrDup("idempotency_status_enum"),
         Table("idempotency_tracker", [id |-> "other", status |-> "idempotency_status_enum"]),
         Index("idempotency_tracker", "idx_idempotency_key")>>
OutboxPriorityDown ==
    <<GoneTable("idempotency_tracker"), GoneType("idempotency_status_enum")>>
    \o Each(ArchiveColumns, LAMBDA c : Gone("outbox_archive", c))
    \o <<Gone("outbox", "priority"), GoneType("outbox_priority_enum")>>

(* 1774400000000; its down() keeps the table *)
BackfillIndexes == <<"idx_backfill_jobs_status", "idx_backfill_jobs_table_name", "idx_backfill_jobs_created_at">>
BackfillJobColumns ==
    <<"processed_rows", "last_processed_id", "status", "batch_size", "retry_count",
      "max_retries", "metadata", "created_at", "updated_at">>

BackfillJobsUp ==
    <<Table("backfill_jobs", Untyped({"id", "table_name", "migration_name"} \cup Range(BackfillJobColumns)))>>
    \o Each(BackfillIndexes, LAMBDA i : Index("backfill_jobs", i))
BackfillJobsDown == <<>>

(* 1774416000000, before the table exists in this chain *)
DifferenceJobIdUp == <<IfThere(AlterType("schema_differences", "backfill_job_id", "uuid"))>>
DifferenceJobIdDown == <<IfThere(AlterType("schema_differences", "backfill_job_id", "varchar"))>>

(* 1774417018743 *)
DifferenceColumns == <<"readiness", "validation_status", "metadata", "created_at", "updated_at">>

CriticalAlignmentUp ==
    <<IfThere(AlterType("deliveries", "seller_order_id", "uuid")),
      IfThere(SetNotNull("deliveries", "seller_order_id"))>>
    \o Each(BackfillJobColumns, LAMBDA c : IfThere(SetNotNull("backfill_jobs", c)))
    \o Each(DifferenceColumns, LAMBDA c : IfThere(SetNotNull("schema_differences", c)))
CriticalAlignmentDown ==
    <<IfThere(AlterType("deliveries", "seller_order_id", "varchar"))>>
    \o Each(BackfillJobColumns, LAMBDA c : IfThere(Nullable("backfill_jobs", c)))
    \o Each(DifferenceColumns, LAMBDA c : IfThere(Nullable("schema_differences", c)))

(* 1774417280000 *)
SellerOrderNotNullUp == <<SetNotNull("deliveries", "seller_order_id")>>
SellerOrderNotNullDown == <<Nullable("deliveries", "seller_order_id")>>

-----------------------------------------------------------------------------
(* 1774425000000, 1774425100000: nothing when the table is there *)

DriverStatsUp ==
    <<Table("driver_stats", Untyped({"id", "driver_id"})), Index("driver_stats", "idx_driver_stats_driver_id")>>
DriverStatsDown == <<DropIndexIfExists("idx_driver_stats_driver_id"), GoneTable("driver_stats")>>

MetricsIndexes ==
    <<"idx_delivery_metrics_delivery_id", "idx_delivery_metrics_seller_order_id",
      "idx_delivery_metrics_driver_id", "idx_delivery_metrics_zone_id">>

DeliveryMetricsUp ==
    <<Table("delivery_metrics", Untyped({"id", "delivery_id"}))>>
    \o Each(MetricsIndexes, LAMBDA i : Index("delivery_metrics", i))
DeliveryMetricsDown == Each(MetricsIndexes, DropIndexIfExists) \o <<GoneTable("delivery_metrics")>>

(* 1774425300000 *)
ScoringEnums ==
    <<"dispatch_scores_score_type_enum", "dispatch_scores_score_source_enum",
      "dispatch_configs_config_type_enum", "dispatch_configs_config_scope_enum">>

DispatchScoresUp ==
    <<Table("dispatch_scores", [id |-> "uuid", score_type |-> "dispatch_scores_score_type_enum",
                                score_source |-> "dispatch_scores_score_source_enum"]),
      Index("dispatch_scores", "idx_dispatch_scores_driver_type")>>
DispatchConfigsUp ==
    <<Table("dispatch_configs", [id |-> "uuid", config_type |-> "dispatch_configs_config_type_enum",
                                 config_scope |-> "dispatch_configs_config_scope_enum"]),
      Index("dispatch_configs", "idx_dispatch_configs_type_scope")>>
DispatchScoringUp ==
    Each(ScoringEnums, NewTypeOrDup) \o DispatchScoresUp \o DispatchConfigsUp
    \o <<Stmt("INSERT", "dispatch_configs", None, None, None, {})>>
DispatchScoringDown ==
    <<GoneTable("dispatch_scores"), GoneTable("dispatch_configs")>> \o Each(ScoringEnums, GoneType)

(* 1774425400000 *)
DecisionEnums ==
    <<"dispatch_decisions_cohort_enum", "dispatch_decisions_dispatch_method_enum",
      "dispatch_decisions_dispatch_status_enum">>

SafeDispatchUp ==
    Each(DecisionEnums, NewTypeOrDup)
    \o <<Table("dispatch_decisions", [id |-> "uuid", cohort |-> DecisionEnums[1],
                                      dispatch_method |-> DecisionEnums[2], dispatch_status |-> DecisionEnums[3]]),
         Index("dispatch_decisions", "idx_dispatch_decisions_delivery_id")>>
SafeDispatchDown == <<GoneTable("dispatch_decisions")>> \o Each(DecisionEnums, GoneType)

(* 1774425600000, 1774425700000, 1774598000000 *)
ActivityColumns ==
    <<<<"drivers", "last_location_update_at">>, <<"drivers", "last_status_update_at">>,
      <<"deliveries", "last_activity_update_at">>>>
ActivityTrackingUp == [n \in 1 .. 3 |-> Add(ActivityColumns[n][1], ActivityColumns[n][2], "other")]
ActivityTrackingDown ==
    [n \in 1 .. 3 |-> IfThere(DropColumn(ActivityColumns[n][1], ActivityColumns[n][2]))]

CleanupUp == Each(<<"current_lat_v2", "current_lon_v2", "last_lat_v2", "last_lon_v2">>,
                  LAMBDA c : IfThere(DropColumn("drivers", c)))
CleanupDown == <<>>

ActiveDriverIndexUp == <<Index("deliveries", "idx_delivery_active_driver")>>
ActiveDriverIndexDown == <<DropIndexIfExists("idx_delivery_active_driver")>>

-----------------------------------------------------------------------------
(* 1774762625054 .. 056: the schema builder's diff, edited by hand *)

SyncedIndexes ==
    BackfillIndexes \o <<"idx_delivery_active_driver", "idx_driver_stats_driver_id">> \o MetricsIndexes
TableOfIndex(i) ==
    CASE i \in Range(BackfillIndexes) -> "backfill_jobs"
      [] i \in Range(MetricsIndexes)  -> "delivery_metrics"
      [] i = "idx_driver_stats_driver_id" -> "driver_stats"
      [] OTHER -> "deliveries"

(* dropped and added again, without the rows' values *)
Recreate(t, c) == <<Gone(t, c), AddRequired(t, c)>>

SyncExpandUp ==
    Each(SyncedIndexes, DropIndexIfExists)
    \o <<Table("schema_differences", Untyped({"id", "backfill_job_id"} \cup Range(DifferenceColumns))),
         Stmt("ADD", "outbox", "updated_at", None, "other", INE \cup {"DEFAULT"}),
         Add("drivers", "last_lat", "other"), Add("drivers", "last_lon", "other"),
         Add("assignments", "driver_id_uuid", "uuid")>>
    \o Recreate("backfill_jobs", "table_name") \o Recreate("backfill_jobs", "migration_name")
    \o <<DropIndexIfExists("idx_delivery_events_seller_order_id")>>
    \o Recreate("delivery_events", "seller_order_id")
    \o Recreate("deliveries", "channel_id")
    \o <<SetNotNull("outbox", "idempotency_key"), SetNotNull("outbox_archive", "idempotency_key")>>
SyncExpandDown ==
    Recreate("deliveries", "channel_id")
    \o Recreate("delivery_events", "seller_order_id")
    \o <<CreateIndex("delivery_events", "idx_delivery_events_seller_order_id")>>
    \o Recreate("backfill_jobs", "migration_name") \o Recreate("backfill_jobs", "table_name")
    \o <<Gone("assignments", "driver_id_uuid"), Gone("drivers", "last_lon"), Gone("drivers", "last_lat"),
         Gone("outbox", "updated_at"), GoneTable("schema_differences")>>
    \o Each(Reverse(SyncedIndexes), LAMBDA i : CreateIndex(TableOfIndex(i), i))

OutboxTables == <<"outbox", "outbox_archive">>
StatusTypes(ty) == Each(OutboxTables, LAMBDA t : AlterType(t, "status", ty))

SyncOutboxEnumsUp ==
    <<DropIndexIfExists("idx_outbox_worker"), DropIndexIfExists("idx_outbox_locked")>>
    \o StatusTypes("text")
    \o <<Stmt("RENAME TYPE", None, None, "outbox_status_enum_old", "outbox_status_enum", {}),
         NewType("outbox_status_enum")>>
    \o StatusTypes("outbox_status_enum")
    \o <<Stmt("DROP TYPE", None, None, None, "outbox_status_enum_old", {})>>
    \o RetypeEnum("outbox", "priority", "outbox_priority_enum", "outbox_priority_enum_old")
    \o <<Gone("drivers", "auth_provider"), NewType("auth_provider_enum"),
         AddBare("drivers", "auth_provider", "auth_provider_enum", {"NOT NULL", "DEFAULT"}),
         CreateIndex("outbox", "idx_outbox_worker"), CreateIndex("outbox", "idx_outbox_locked"),
         CreateIndex("delivery_events", "idx_delivery_events_seller_order_id")>>
SyncOutboxEnumsDown ==
    Each(<<"idx_delivery_events_seller_order_id", "idx_outbox_locked", "idx_outbox_worker">>, DropIndexIfExists)
    \o <<Gone("drivers", "auth_provider"), GoneType("auth_provider_enum"),
         AddBare("drivers", "auth_provider", "varchar", {"NOT NULL", "DEFAULT"})>>
    \o RestoreEnum("outbox", "priority", "outbox_priority_enum", "outbox_priority_enum_old")
    \o <<NewType("outbox_status_enum_old")>> \o StatusTypes("text")
    \o <<GoneType("outbox_status_enum")>> \o StatusTypes("outbox_status_enum_old")
    \o <<Stmt("RENAME TYPE", None, None, "outbox_status_enum", "outbox_status_enum_old", {}),
         CreateIndex("outbox", "idx_outbox_locked"), CreateIndex("outbox", "idx_outbox_worker")>>

DispatchEnums ==
    <<<<"dispatch_decisions", "cohort">>, <<"dispatch_decisions", "dispatch_method">>,
      <<"dispatch_decisions", "dispatch_status">>, <<"dispatch_scores", "score_type">>,
      <<"dispatch_scores", "score_source">>, <<"dispatch_configs", "config_type">>,
      <<"dispatch_configs", "config_scope">>>>
EnumNames == DecisionEnums \o ScoringEnums
OldNames ==
    <<"cohort_enum_old", "method_enum_old", "status_enum_old2", "type_enum_old", "source_enum_old",
      "config_type_enum_old", "scope_enum_old">>
DispatchIndexes ==
    <<<<"dispatch_scores", "idx_dispatch_scores_driver_type">>,
      <<"dispatch_configs", "idx_dispatch_configs_type_scope">>>>

SyncDispatchEnumsUp ==
    Each(DispatchIndexes, LAMBDA i : DropIndexIfExists(i[2]))
    \o FlattenSeq([n \in 1 .. 7 |-> RetypeEnum(DispatchEnums[n][1], DispatchEnums[n][2], EnumNames[n], OldNames[n])])
    \o Each(DispatchIndexes, LAMBDA i : CreateIndex(i[1], i[2]))
    \o <<CreateIndex("deliveries", "idx_delivery_active_driver"),
         Constraint("schema_differences", "fk_job"), Constraint("dispatch_decisions", "fk_driver"),
         Constraint("dispatch_decisions", "fk_delivery")>>
SyncDispatchEnumsDown ==
    <<NoConstraint("dispatch_decisions", "fk_delivery"), NoConstraint("dispatch_decisions", "fk_driver"),
      NoConstraint("schema_differences", "fk_job"), DropIndexIfExists("idx_delivery_active_driver")>>
    \o Each(Reverse(DispatchIndexes), LAMBDA i : DropIndexIfExists(i[2]))
    \o FlattenSeq(Reverse([n \in 1 .. 7 |->
          RestoreEnum(DispatchEnums[n][1], DispatchEnums[n][2], EnumNames[n], OldNames[n])]))
    \o Each(Reverse(DispatchIndexes), LAMBDA i : CreateIndex(i[1], i[2]))

-----------------------------------------------------------------------------
(* 1774773500000 *)
PhoneCityNullableUp == <<Nullable("drivers", "phone"), Nullable("drivers", "city_id")>>
PhoneCityNullableDown == <<SetNotNull("drivers", "phone"), SetNotNull("drivers", "city_id")>>

(* 1774800000000 *)
RegistrationColumns == <<"approved_at", "approved_by_id", "rejection_reason">>
RegistrationStatusUp ==
    <<NewType("driver_registration_status_enum"),
      AddBare("drivers", "registration_status", "driver_registration_status_enum", {"NOT NULL", "DEFAULT"})>>
    \o Each(RegistrationColumns, LAMBDA c : AddBare("drivers", c, "other", {}))
    \o <<FillColumn("drivers", "registration_status")>>
RegistrationStatusDown ==
    Each(Reverse(RegistrationColumns), LAMBDA c : Gone("drivers", c))
    \o <<Gone("drivers", "registration_status"), GoneType("driver_registration_status_enum")>>

(* 1774800000001: renames only when the old name is there *)
RegistrationNameUp == <<IfThere(RenameColumn("drivers", "registrationStatus", "registration_status"))>>
RegistrationNameDown == <<IfThere(RenameColumn("drivers", "registration_status", "registrationStatus"))>>

(* 1774800000002: nothing; its down() throws *)
RegistrationStubUp == <<>>
RegistrationStubDown == <<Stmt("THROW", None, None, None, None, {})>>

(* 1774801000000 *)
LoginLockColumns == <<"failed_login_attempts", "locked_until">>
LoginLockUp == Each(LoginLockColumns, LAMBDA c : Add("admin_users", c, "other"))
LoginLockDown == Each(Reverse(LoginLockColumns), LAMBDA c : Gone("admin_users", c))

(* 1776662590120 *)
DriverNameNullableUp == <<Nullable("drivers", "name")>>
DriverNameNullableDown == <<FillColumn("drivers", "name"), SetNotNull("drivers", "name")>>

(* 1777462769161: keeps the newest delivery of an order *)
UniqueSellerOrderUp ==
    <<Stmt("DELETE", "dispatch_decisions", None, None, None, {"WHERE"}),
      Stmt("DELETE", "deliveries", None, None, None, {"WHERE"}),
      Constraint("deliveries", "UQ_deliveries_seller_order_id")>>
UniqueSellerOrderDown == <<NoConstraint("deliveries", "UQ_deliveries_seller_order_id")>>

(* 1777900000000 *)
SellerColumns == <<"seller_name", "seller_address">>
SellerNameAddressUp == Each(SellerColumns, LAMBDA c : Add("deliveries", c, "other"))
SellerNameAddressDown == Each(Reverse(SellerColumns), LAMBDA c : Gone("deliveries", c))

-----------------------------------------------------------------------------
(***************************************************************************)
(* A file: the prefix of its name, its statements, and what else its text  *)
(* says: "no transaction", the comments the checks look for, "builder" for *)
(* tables made by calls instead of SQL, "comma" where a query ends in a    *)
(* comma the guard's expression does not expect, "quoted" for UPDATE "t".  *)
(***************************************************************************)
File(prefix, up, down, marks) == [prefix |-> prefix, up |-> up, down |-> down, marks |-> marks]

Chain ==
    <<File("BASELINE", BaselineUp, BaselineDown, {"mixed ok", "destructive ok"}),
      File("SAFE", DuplicateIndexUp, DuplicateIndexDown, {"no transaction"}),
      File("BREAKING", CityZoneUuidUp, CityZoneUuidDown, {"mixed ok", "destructive ok"}),
      File("SAFE", RealignExpandUp, RealignExpandDown, {}),
      File("DATA", RealignBackfillUp, RealignBackfillDown, {"no transaction"}),
      File("BREAKING", RealignContractUp, RealignContractDown, {}),
      File("FIX", RealignIndexesUp, RealignIndexesDown, {"no transaction"}),
      File("SAFE", OutboxPriorityUp, OutboxPriorityDown, {"mixed ok", "destructive ok", "unlinted"}),
      File("SAFE", BackfillJobsUp, BackfillJobsDown, {}),
      File("SAFE", DifferenceJobIdUp, DifferenceJobIdDown, {"unlinted"}),
      File("SAFE", CriticalAlignmentUp, CriticalAlignmentDown, {"unlinted", "long"}),
      File("SAFE", SellerOrderNotNullUp, SellerOrderNotNullDown, {"unlinted"}),
      File("SAFE", DriverStatsUp, DriverStatsDown, {}),
      File("SAFE", DeliveryMetricsUp, DeliveryMetricsDown, {}),
      File("SAFE", DispatchScoringUp, DispatchScoringDown, {"builder"}),
      File("SAFE", SafeDispatchUp, SafeDispatchDown, {"builder"}),
      File("SAFE", ActivityTrackingUp, ActivityTrackingDown, {"destructive ok"}),
      File("BREAKING", CleanupUp, CleanupDown, {"destructive ok"}),
      File("SAFE", ActiveDriverIndexUp, ActiveDriverIndexDown, {}),
      File("BREAKING", SyncExpandUp, SyncExpandDown, {"destructive ok"}),
      File("BREAKING", SyncOutboxEnumsUp, SyncOutboxEnumsDown, {"destructive ok"}),
      File("BREAKING", SyncDispatchEnumsUp, SyncDispatchEnumsDown, {"mixed ok", "destructive ok"}),
      File("BREAKING", PhoneCityNullableUp, PhoneCityNullableDown, {"mixed ok", "comma"}),
      File("SAFE", RegistrationStatusUp, RegistrationStatusDown, {"destructive ok", "quoted"}),
      File("FIX", RegistrationNameUp, RegistrationNameDown, {"destructive ok"}),
      File("FIX", RegistrationStubUp, RegistrationStubDown, {"mixed ok"}),
      File("SAFE", LoginLockUp, LoginLockDown, {}),
      File("FIX", DriverNameNullableUp, DriverNameNullableDown, {"mixed ok", "destructive ok"}),
      File(None, UniqueSellerOrderUp, UniqueSellerOrderDown, {}),
      File("SAFE", SellerNameAddressUp, SellerNameAddressDown, {})>>

Marked(f, mark) == mark \in f.marks
Transactional(n) == ~Marked(Chain[n], "no transaction")
=============================================================================
