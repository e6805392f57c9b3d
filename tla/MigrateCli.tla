------------------------------ MODULE MigrateCli ------------------------------
(***************************************************************************)
(* scripts/cli/migrate.ts --run and --revert.  An operator's process makes *)
(* the static checks, takes the advisory lock, rehearses the pending       *)
(* migrations in a transaction it rolls back, and starts TypeORM in a      *)
(* child process that applies them.  A revert takes no lock.  The lock     *)
(* ends with the process that took it; its child may outlive it.  The      *)
(* server cuts off what takes longer than the statement_timeout.           *)
(***************************************************************************)
EXTENDS Governance

CONSTANTS
    Operators,      \* processes of the CLI
    Installations,  \* databases to begin with, and the checkouts they pass
                    \* through: [db, recorded, releases]
    MaxCommands,    \* bound: commands
    MaxCrashes      \* bound: crashes and statements the server cuts off

ASSUME OperatorsAssumption == None \notin Operators

(* what the migrations without a transaction work on, from the baseline on *)
OnlineTables == {"drivers", "driver_offers", "deliveries", "delivery_events", "assignments"}
CopiedColumns == {<<"deliveries", "seller_order_id">>, <<"assignments", "driver_id">>}
HasCopied(db) == \A c \in CopiedColumns : c[1] \in DOMAIN db.tables => c \in DOMAIN db.cols

(* an id to be copied looks like a UUID and is none                        *)
Unfit(db) == \E c \in CopiedColumns : c \in DOMAIN db.cols /\ Malformed \in db.cols[c].data

(* rows of deliveries know their order; the copy of its id has it or has   *)
(* no value yet, and has it once the backfill is over                      *)
OrderId   == <<"deliveries", "seller_order_id">>
OrderUuid == <<"deliveries", "seller_order_id_uuid">>
HasRows(db) == "deliveries" \in DOMAIN db.tables /\ db.tables["deliveries"]
Traced(db) ==
    HasRows(db) =>
        /\ OrderId \in DOMAIN db.cols /\ "order" \in db.cols[OrderId].data
        /\ OrderUuid \in DOMAIN db.cols =>
             db.cols[OrderUuid].data = {} \/ "order" \in db.cols[OrderUuid].data
Filled(db) == HasRows(db) /\ OrderUuid \in DOMAIN db.cols => "order" \in db.cols[OrderUuid].data

(* migrations are applied in the order of the chain *)
ASSUME InstallationsAssumption ==
    \A d \in Installations :
        /\ d.recorded \in Seq(Nat) /\ \A k \in 1 .. Len(d.recorded) : d.recorded[k] = k
        /\ d.releases \subseteq DOMAIN Chain
        /\ 1 \in Range(d.recorded) => OnlineTables \subseteq DOMAIN d.db.tables
        /\ HasCopied(d.db)
        /\ Traced(d.db) /\ (Len(d.recorded) = 5 => Filled(d.db))

VARIABLES
    mdb,            \* the database
    recorded,       \* _migrations, in the order of its ids
    releases,       \* checkouts, by the number of files of the chain they hold
    checkout,       \* the files on disk are the first checkout of the chain
    cli,            \* operator -> step of its command
    child,          \* operator -> the TypeORM process it started
    lock,           \* holder of the advisory lock, or None
    outcome,        \* operator -> how its last command ended, and where
    clean,          \* operator -> nobody wrote since its rehearsal succeeded
    commands, crashes,
    reverted,       \* a migration was reverted
    raced           \* the row was written after the backfill of its order id, or
                    \* a run began while the orphan of another was applying

cliVars == <<mdb, recorded, releases, checkout, cli, child, lock, outcome, clean, commands, crashes, reverted, raced>>

NoChild == [does |-> "nothing", todo |-> <<>>, at |-> 0]
Ended(how, n) == [how |-> how, at |-> n, unfit |-> FALSE]

(* getPendingMigrations, and TypeORM's own list *)
Pending == FlattenSeq([n \in 1 .. checkout |-> IF n \in Range(recorded) THEN <<>> ELSE <<n>>])

(* of the first m files, the migrations ns in their order, until one fails *)
Migrated(db, m, ns) ==
    LET after[n \in 0 .. m] ==
          IF n = 0 THEN [db |-> db, ok |-> TRUE]
          ELSE LET before == after[n - 1]
               IN  IF before.ok /\ n \in ns THEN Whole(before.db, Chain[n].up) ELSE before
    IN  after[m]

Exit(o, how) ==
    /\ cli' = [cli EXCEPT ![o] = "idle"]
    /\ outcome' = [outcome EXCEPT ![o] = how]
    /\ lock' = IF lock = o THEN None ELSE lock

(* someone else's rehearsal no longer speaks of this database *)
Wrote(o) == clean' = [p \in Operators |-> p = o /\ clean[p]]

-----------------------------------------------------------------------------
(* runMigrate *)

RunMigrate(o) ==
    /\ cli[o] = "idle" /\ child[o] = NoChild /\ commands < MaxCommands
    /\ commands' = commands + 1
    /\ IF RunGovernanceChecks(checkout)
       THEN cli' = [cli EXCEPT ![o] = "governed"] /\ UNCHANGED <<outcome, lock>>
       ELSE Exit(o, Ended("refused", checkout))
    /\ UNCHANGED <<mdb, recorded, checkout, child, clean, crashes, reverted, raced, releases>>

CheckOrphanedMigrations(o) ==
    /\ cli[o] = "governed"
    /\ IF Range(recorded) \subseteq 1 .. checkout
       THEN cli' = [cli EXCEPT ![o] = "waiting"] /\ UNCHANGED <<outcome, lock>>
       ELSE Exit(o, Ended("refused", checkout))
    /\ UNCHANGED <<mdb, recorded, checkout, child, clean, commands, crashes, reverted, raced, releases>>

AcquireAdvisoryLock_NoWait(o) ==    \* seeded fault: goes on without the lock
    /\ cli[o] = "waiting"
    /\ lock' = o
    /\ cli' = [cli EXCEPT ![o] = "locked"]
    /\ UNCHANGED <<mdb, recorded, checkout, child, outcome, clean, commands, crashes, reverted, raced, releases>>

AcquireAdvisoryLock(o) ==
    /\ cli[o] = "waiting"
    /\ lock = None
    /\ lock' = o
    /\ cli' = [cli EXCEPT ![o] = "locked"]
    /\ UNCHANGED <<mdb, recorded, checkout, child, outcome, clean, commands, crashes, reverted, raced, releases>>

(* simulate.ts: the transactional migrations one after another, rolled back *)
Rehearsal_FirstOnly ==      \* seeded fault: only the next migration is tried
    LET tx == SelectSeq(Pending, Transactional)
    IN  tx = <<>> \/ Whole(mdb, Chain[Head(tx)].up).ok

Rehearsed == {n \in 1 .. checkout : n \notin Range(recorded) /\ Transactional(n)}
Rehearsal == Migrated(mdb, checkout, Rehearsed).ok

RunSimulation(o) ==
    /\ cli[o] = "locked"
    /\ IF Rehearsal
       THEN /\ cli' = [cli EXCEPT ![o] = "rehearsed"]
            /\ clean' = [clean EXCEPT ![o] = TRUE]
            /\ UNCHANGED <<outcome, lock>>
       ELSE /\ Exit(o, Ended("rehearsal failed", checkout))
            /\ UNCHANGED clean
    /\ UNCHANGED <<mdb, recorded, checkout, child, commands, crashes, reverted, raced, releases>>

SkipSimulation(o) ==
    /\ cli[o] = "locked"
    /\ cli' = [cli EXCEPT ![o] = "rehearsed"]
    /\ clean' = [clean EXCEPT ![o] = FALSE]
    /\ UNCHANGED <<mdb, recorded, checkout, child, lock, outcome, commands, crashes, reverted, raced, releases>>

StartApply(o) ==
    /\ cli[o] = "rehearsed"
    /\ cli' = [cli EXCEPT ![o] = "applying"]
    /\ child' = [child EXCEPT ![o] = [does |-> "run", todo |-> Pending, at |-> 0]]
    /\ raced' = (raced \/ \E p \in Operators : child[p].does = "run")
    /\ UNCHANGED <<mdb, recorded, checkout, lock, outcome, clean, commands, crashes, reverted, releases>>

(* the child ended: verification, whose result is only printed, and unlock *)
FinishApply(o) ==
    /\ cli[o] = "applying" /\ child[o].todo = <<>>
    /\ child' = [child EXCEPT ![o] = NoChild]
    /\ Exit(o, Ended("applied", checkout))
    /\ UNCHANGED <<mdb, recorded, checkout, clean, commands, crashes, reverted, raced, releases>>

-----------------------------------------------------------------------------
(* the TypeORM child: one transaction for a migration and its record, or   *)
(* statement by statement without one                                      *)

Fails(o, n) ==
    /\ child' = [child EXCEPT ![o] = NoChild]
    /\ IF cli[o] = "idle" THEN UNCHANGED <<cli, outcome, lock>>
       ELSE Exit(o, [how |-> IF child[o].does = "run" THEN "failed" ELSE "revert failed", at |-> n,
                     unfit |-> Unfit(mdb)])
    /\ UNCHANGED <<mdb, recorded, clean, reverted>>

Recorded(o, n) ==
    /\ recorded' = Append(recorded, n)
    /\ child' = [child EXCEPT ![o].todo = Tail(@), ![o].at = 0]

ApplyMigration(o) ==
    /\ child[o].does = "run" /\ child[o].todo # <<>>
    /\ LET n == Head(child[o].todo)
           up == Chain[n].up
           whole == Whole(mdb, up)
           at == child[o].at
       IN  IF Transactional(n)
           THEN IF whole.ok
                THEN /\ mdb' = whole.db /\ Recorded(o, n) /\ Wrote(o)
                     /\ UNCHANGED <<cli, outcome, lock, reverted>>
                ELSE Fails(o, n)
           ELSE IF at = Len(up)
                THEN /\ Recorded(o, n)
                     /\ UNCHANGED <<mdb, cli, outcome, lock, clean, reverted>>
                ELSE IF Executes(mdb, up[at + 1])
                     THEN /\ mdb' = Effect(mdb, up[at + 1])
                          /\ child' = [child EXCEPT ![o].at = @ + 1]
                          /\ Wrote(o)
                          /\ UNCHANGED <<recorded, cli, outcome, lock, reverted>>
                     ELSE Fails(o, n)
    /\ UNCHANGED <<checkout, commands, crashes, raced, releases>>

(* runRevert: migration:revert, the last record first *)
RunRevert(o) ==
    /\ cli[o] = "idle" /\ child[o] = NoChild /\ commands < MaxCommands
    /\ commands' = commands + 1
    /\ recorded # <<>>
    /\ cli' = [cli EXCEPT ![o] = "reverting"]
    /\ child' = [child EXCEPT ![o] = [does |-> "revert", todo |-> <<Last(recorded)>>, at |-> 0]]
    /\ UNCHANGED <<mdb, recorded, checkout, lock, outcome, clean, crashes, reverted, raced, releases>>

(* the undo and the record are one transaction, which no CONCURRENTLY can  *)
(* be part of                                                              *)
Undoes(n) == \A k \in DOMAIN Chain[n].down : ~Has(Chain[n].down[k], "CONCURRENTLY")

RevertMigration(o) ==
    /\ child[o].does = "revert" /\ child[o].todo # <<>>
    /\ LET n == Head(child[o].todo)
           down == Chain[n].down
           whole == Whole(mdb, down)
       IN  IF n <= checkout /\ Undoes(n) /\ whole.ok
           THEN /\ mdb' = whole.db
                /\ recorded' = SelectSeq(recorded, LAMBDA k : k # n)
                /\ child' = [child EXCEPT ![o] = NoChild]
                /\ IF cli[o] = "reverting" THEN Exit(o, Ended("reverted", n)) ELSE UNCHANGED <<cli, outcome, lock>>
                /\ Wrote(o)
                /\ reverted' = TRUE
           ELSE Fails(o, n)
    /\ UNCHANGED <<checkout, commands, crashes, raced, releases>>

-----------------------------------------------------------------------------
(* the CLI process is killed, with its child or without it *)
Crash(o) ==
    /\ cli[o] # "idle" /\ crashes < MaxCrashes
    /\ crashes' = crashes + 1
    /\ Exit(o, Ended("killed", 0))
    /\ \/ child' = [child EXCEPT ![o] = NoChild]
       \/ child[o] # NoChild /\ UNCHANGED child
    /\ UNCHANGED <<mdb, recorded, checkout, clean, commands, reverted, raced, releases>>

(* the server ends a statement of the child, for its time or because the   *)
(* user may not create an extension: a transaction leaves nothing, an      *)
(* index made CONCURRENTLY keeps its name                                  *)
ChildCutOff(o) ==
    /\ child[o].todo # <<>>
    /\ LET n == Head(child[o].todo)
           k == child[o].at + 1
       IN  \/ UNCHANGED <<mdb, clean>>
           \/ /\ child[o].does = "run" /\ ~Transactional(n) /\ k <= Len(Chain[n].up)
              /\ Has(Chain[n].up[k], "CONCURRENTLY") /\ Executes(mdb, Chain[n].up[k])
              /\ mdb' = Effect(mdb, Chain[n].up[k])
              /\ Wrote(o)
    /\ child' = [child EXCEPT ![o] = NoChild]
    /\ IF cli[o] = "idle" THEN UNCHANGED <<cli, outcome, lock>> ELSE Exit(o, Ended("cut off", 0))

(* it ends the wait for the lock, or the rehearsal                         *)
CommandCutOff(o) ==
    /\ cli[o] \in {"waiting", "locked"}
    /\ Exit(o, Ended("cut off", 0))
    /\ UNCHANGED <<mdb, child, clean>>

CutOff(o) ==
    /\ crashes < MaxCrashes
    /\ crashes' = crashes + 1
    /\ ChildCutOff(o) \/ CommandCutOff(o)
    /\ UNCHANGED <<recorded, checkout, commands, reverted, raced, releases>>

(* an orphan that has finished *)
OrphanEnds(o) ==
    /\ cli[o] = "idle" /\ child[o].does = "run" /\ child[o].todo = <<>>
    /\ child' = [child EXCEPT ![o] = NoChild]
    /\ UNCHANGED <<mdb, recorded, checkout, cli, lock, outcome, clean, commands, crashes, reverted, raced, releases>>

Quiet == \A o \in Operators : cli[o] = "idle" /\ child[o] = NoChild

(* another release is checked out *)
Deploy(n) ==
    /\ Quiet /\ n # checkout
    /\ checkout' = n
    /\ UNCHANGED <<mdb, recorded, cli, child, lock, outcome, clean, commands, crashes, reverted, raced, releases>>

(* the application writes a row of every table, once; it fills the columns *)
(* its entities have, not the ones a migration adds for its own use        *)
BackfillDone ==
    \/ 5 \in Range(recorded)
    \/ \E o \in Operators : child[o].todo # <<>> /\ Head(child[o].todo) = 5 /\ child[o].at > 1
OrderIds(type) ==
    IF type = "uuid" THEN {{"order"}} ELSE {{"order", FreeForm}, {"order", FreeForm, Malformed}}
ApplicationWrites ==
    /\ \A t \in DOMAIN mdb.tables : ~mdb.tables[t]
    /\ "deliveries" \in DOMAIN mdb.tables
    /\ \E ids \in OrderIds(mdb.cols[OrderId].type) :
         mdb' = SetTables(mdb, [t \in DOMAIN mdb.tables |-> TRUE],
           [k \in DOMAIN mdb.cols |->
              Column(IF k = OrderId THEN ids
                     ELSE IF k[2] \in {"seller_order_id_uuid", "driver_id_uuid"} THEN {} ELSE {"row"},
                     mdb.cols[k].type)])
    /\ clean' = [p \in Operators |-> FALSE]
    /\ raced' = (raced \/ (BackfillDone /\ 6 \notin Range(recorded)))
    /\ UNCHANGED <<recorded, checkout, cli, child, lock, outcome, commands, crashes, reverted, releases>>

-----------------------------------------------------------------------------

CliInit ==
    /\ \E d \in Installations : mdb = d.db /\ recorded = d.recorded /\ releases = d.releases
    /\ checkout \in releases
    /\ cli = [o \in Operators |-> "idle"]
    /\ child = [o \in Operators |-> NoChild]
    /\ lock = None
    /\ outcome = [o \in Operators |-> Ended("nothing", 0)]
    /\ clean = [o \in Operators |-> FALSE]
    /\ commands = 0
    /\ crashes = 0
    /\ reverted = FALSE
    /\ raced = FALSE

CliNext ==
    \/ \E o \in Operators :
        \/ RunMigrate(o)
        \/ CheckOrphanedMigrations(o)
        \/ AcquireAdvisoryLock(o)
        \/ RunSimulation(o)
        \/ SkipSimulation(o)
        \/ StartApply(o)
        \/ ApplyMigration(o)
        \/ FinishApply(o)
        \/ RunRevert(o)
        \/ RevertMigration(o)
        \/ Crash(o)
        \/ CutOff(o)
        \/ OrphanEnds(o)
    \/ \E n \in releases : Deploy(n)
    \/ ApplicationWrites

CliSpec == CliInit /\ [][CliNext]_cliVars

-----------------------------------------------------------------------------
(* Properties *)

(* A migration that runs without a transaction can be repeated, wherever   *)
(* an earlier run of it was killed or cut off and whatever the orphan of   *)
(* that run still does.  What fails is the backfill of 1774093828155, when *)
(* an order id looks like a UUID and is none.  (A revert takes no lock and *)
(* may take the tables away under it.)                                     *)
RerunResumes ==
    ~reverted => \A o \in Operators :
        outcome[o].how = "failed" /\ ~Transactional(outcome[o].at) =>
            outcome[o].at = 5 /\ outcome[o].unfit

(* Two processes apply migrations at the same time only when one of them   *)
(* has outlived the command that took the lock.                            *)
OneRun ==
    \A o, p \in Operators :
        o # p /\ child[o].does = "run" /\ child[p].does = "run" =>
            cli[o] # "applying" \/ cli[p] # "applying"

(* What was rehearsed can be applied: unless the server cuts it off, a run *)
(* fails only when someone else wrote to the database after its rehearsal, *)
(* or at the backfill, which the rehearsal leaves out like every migration *)
(* without a transaction, for an order id that only looks like a UUID.     *)
RehearsedApplies ==
    \A o \in Operators :
        cli[o] = "idle" /\ outcome[o].how = "failed" /\ ~reverted =>
            ~clean[o] \/ (outcome[o].at = 5 /\ outcome[o].unfit)

(* The order a delivery belongs to is still known after any run, crash or  *)
(* failure, when its id was a UUID.  Three things do lose it: a revert, a  *)
(* row written between the backfill and the contraction, and a run that    *)
(* repeats the expansion beside the orphan of a killed one.                *)
OrderIdsSurvive ==
    ~reverted /\ ~raced /\ "deliveries" \in DOMAIN mdb.tables /\ mdb.tables["deliveries"] =>
        \E k \in ColsOf(mdb, "deliveries") : "order" \in mdb.cols[k].data
=============================================================================
