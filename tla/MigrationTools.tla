---------------------------- MODULE MigrationTools ----------------------------
(***************************************************************************)
(* The tools a developer takes a schema change through.  One session uses  *)
(* one tool: a review of the plan (its validation and the policy engine),  *)
(* the registry that takes it through its states, the intents, or the      *)
(* generator of migration files.                                           *)
(***************************************************************************)
EXTENDS MigrationRegistry, SchemaIntents, MigrationGenerate

VARIABLE tool           \* the tool of the session, "none" before it starts

toolVars == <<tool, db, plan, plans, records, exported, replays, report,
              intent, step, files, clock, idb, written, applied, rolledBack, printed, gen>>

ToolsInit ==
    /\ tool = "none"
    /\ RegistryInit(BaseDb)
    /\ IntentInit
    /\ GenerateInit

Start(t) ==
    /\ tool = "none"
    /\ tool' = t
    /\ UNCHANGED <<db, plan, plans, records, exported, replays, report,
                   intent, step, files, clock, idb, written, applied, rolledBack, printed, gen>>

ToolsNext ==
    \/ \E t \in {"review", "registry", "intent", "generate"} : Start(t)
    \/ /\ \/ tool = "review" /\ ReviewNext
          \/ tool = "registry" /\ RegistryNext
       /\ UNCHANGED <<tool, intent, step, files, clock, idb, written, applied, rolledBack, printed, gen>>
    \/ /\ tool = "intent"
       /\ IntentNext
       /\ UNCHANGED <<tool, db, plan, plans, records, exported, replays, report, gen>>
    \/ /\ tool = "generate"
       /\ GenerateNext
       /\ UNCHANGED <<tool, db, plan, plans, records, exported, replays, report,
                      intent, step, files, clock, idb, written, applied, rolledBack, printed>>

ToolsSpec == ToolsInit /\ [][ToolsNext]_toolVars
=============================================================================
