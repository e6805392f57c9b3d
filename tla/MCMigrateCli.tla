---------------------------- MODULE MCMigrateCli ----------------------------
EXTENDS MigrateCli

CONSTANTS o1, o2

Empty == Database(<<>>, <<>>, <<>>, {})

(* a database made by an earlier baseline, without the enum of             *)
(* auth_provider, which 1774762625055 expects and restores                 *)
Legacy ==
    LET base == Whole(Empty, BaselineUp).db
    IN  [base EXCEPT !.types = @ \ {"auth_provider_enum"},
                     !.cols[<<"drivers", "auth_provider">>].type = "varchar"]
Records(n) == [k \in 1 .. n |-> k]

MCInstallations ==
    {[db |-> Empty, recorded |-> <<>>, releases |-> {5, 8}],
     [db |-> Legacy, recorded |-> <<1>>, releases |-> {5, 8}],
     [db |-> Migrated(Legacy, 19, 2 .. 19).db, recorded |-> Records(19), releases |-> {22, 28}],
     [db |-> Migrated(Empty, 19, 1 .. 19).db, recorded |-> Records(19), releases |-> {22}]}
=============================================================================
