-------------------------- MODULE MigrationProofs --------------------------
(***************************************************************************)
(* Proofs about the migrations: the runner, for every number of operators, *)
(* commands and crashes and every database it is started on; the planner,  *)
(* for every diff of the verbs the schema builder writes; the registry,    *)
(* for any calls in any order; and the intents, for every intent file.     *)
(* What a script does is proved by induction on its length, in the form of *)
(* a least counterexample (Least).                                         *)
(***************************************************************************)
EXTENDS MigrateCli, MigrationTools, WellFoundedInduction, TLAPS

USE OperatorsAssumption

Holding == {"locked", "rehearsed", "applying"}

(* A command past the lock still has it.                                    *)
LockInv ==
    /\ cli \in [Operators -> {"idle", "governed", "waiting", "reverting"} \cup Holding]
    /\ \A o \in Operators : cli[o] \in Holding => lock = o

(* A command that ends (Exit) gives back the lock if it is the holder.      *)
LEMMA ExitKeeps ==
    ASSUME LockInv, NEW o \in Operators, NEW how, Exit(o, how)
    PROVE  LockInv'
BY DEF LockInv, Exit, Holding

(* A command goes on to a step before the lock.                             *)
LEMMA StepKeeps ==
    ASSUME LockInv, NEW o \in Operators, NEW stage \in {"governed", "waiting", "reverting"},
           cli' = [cli EXCEPT ![o] = stage], lock' = lock
    PROVE  LockInv'
BY DEF LockInv, Holding

(* A command that has the lock goes on with it.                             *)
LEMMA HoldingKeeps ==
    ASSUME LockInv, NEW o \in Operators, cli[o] \in Holding, NEW stage \in Holding,
           cli' = [cli EXCEPT ![o] = stage], lock' = lock
    PROVE  LockInv'
BY DEF LockInv

LEMMA FailsKeeps ==
    ASSUME LockInv, NEW o \in Operators, NEW n, Fails(o, n)
    PROVE  LockInv'
<1>1. CASE cli[o] = "idle"
  BY <1>1 DEF Fails, LockInv
<1>2. CASE cli[o] # "idle"
  BY <1>2, ExitKeeps DEF Fails
<1> QED
  BY <1>1, <1>2

(* Whatever operators run, revert, kill and deploy, a command past the lock *)
(* holds it.                                                                *)
THEOREM LockInvariant == CliSpec => []LockInv
<1>1. CliInit => LockInv
  BY DEF CliInit, LockInv, Holding
<1>2. ASSUME LockInv, [CliNext]_cliVars
      PROVE  LockInv'
  <2> USE <1>2
  <2>1. ASSUME NEW o \in Operators, RunMigrate(o)
        PROVE  LockInv'
    BY <2>1, StepKeeps, ExitKeeps DEF RunMigrate
  <2>2. ASSUME NEW o \in Operators, CheckOrphanedMigrations(o)
        PROVE  LockInv'
    BY <2>2, StepKeeps, ExitKeeps DEF CheckOrphanedMigrations
  <2>3. ASSUME NEW o \in Operators, AcquireAdvisoryLock(o)
        PROVE  LockInv'
    BY <2>3 DEF AcquireAdvisoryLock, LockInv, Holding
  <2>4. ASSUME NEW o \in Operators, RunSimulation(o) \/ SkipSimulation(o)
        PROVE  LockInv'
    BY <2>4, HoldingKeeps, ExitKeeps DEF RunSimulation, SkipSimulation, Holding
  <2>5. ASSUME NEW o \in Operators, StartApply(o)
        PROVE  LockInv'
    BY <2>5, HoldingKeeps DEF StartApply, Holding
  <2>6. ASSUME NEW o \in Operators, ApplyMigration(o)
        PROVE  LockInv'
    <3>1. UNCHANGED <<cli, lock>> \/ Fails(o, Head(child[o].todo))
      BY <2>6 DEF ApplyMigration
    <3> QED
      BY <3>1, FailsKeeps DEF LockInv
  <2>7. ASSUME NEW o \in Operators, FinishApply(o) \/ Crash(o)
        PROVE  LockInv'
    BY <2>7, ExitKeeps DEF FinishApply, Crash
  <2>8. ASSUME NEW o \in Operators, RunRevert(o)
        PROVE  LockInv'
    BY <2>8, StepKeeps DEF RunRevert
  <2>9. ASSUME NEW o \in Operators, RevertMigration(o)
        PROVE  LockInv'
    <3>1. \/ UNCHANGED <<cli, lock>>
          \/ Exit(o, Ended("reverted", Head(child[o].todo)))
          \/ Fails(o, Head(child[o].todo))
      BY <2>9 DEF RevertMigration
    <3> QED
      BY <3>1, FailsKeeps, ExitKeeps DEF LockInv
  <2>10. ASSUME NEW o \in Operators, OrphanEnds(o)
         PROVE  LockInv'
    BY <2>10 DEF OrphanEnds, LockInv
  <2>11. ASSUME NEW n \in releases, Deploy(n)
         PROVE  LockInv'
    BY <2>11 DEF Deploy, LockInv
  <2>12. CASE ApplicationWrites
    BY <2>12 DEF ApplicationWrites, LockInv
  <2>13. CASE UNCHANGED cliVars
    BY <2>13 DEF cliVars, LockInv
  <2>14. ASSUME NEW o \in Operators, CutOff(o)
         PROVE  LockInv'
    <3>1. UNCHANGED <<cli, lock>> \/ Exit(o, Ended("cut off", 0))
      BY <2>14 DEF CutOff, ChildCutOff, CommandCutOff
    <3> QED
      BY <3>1, ExitKeeps DEF LockInv
  <2> QED
    BY <2>1, <2>2, <2>3, <2>4, <2>5, <2>6, <2>7, <2>8, <2>9, <2>10, <2>11, <2>12, <2>13, <2>14 DEF CliNext
<1> QED
  BY <1>1, <1>2, PTL DEF CliSpec

(* Two processes apply migrations at the same time only when one of them is *)
(* the orphan of a killed command (migrate.ts: the lock belongs to the      *)
(* command, the migrations to its child).                                   *)
THEOREM RunsAreAlone == CliSpec => []OneRun
<1>1. LockInv => OneRun
  BY DEF LockInv, OneRun, Holding
<1> QED
  BY <1>1, LockInvariant, PTL

-----------------------------------------------------------------------------
(* The registry: what a record went through before the state it is in.      *)
WentThrough ==
    [PLANNED |-> {}, VALIDATED |-> {"VALIDATED"}, SIMULATED |-> {"VALIDATED", "SIMULATED"},
     APPROVED |-> {"VALIDATED", "SIMULATED", "APPROVED"},
     REPLAYED |-> {"VALIDATED", "SIMULATED", "APPROVED", "REPLAYED"},
     EXECUTING |-> {"VALIDATED", "SIMULATED", "APPROVED", "REPLAYED"},
     COMPLETED |-> {"VALIDATED", "SIMULATED", "APPROVED", "REPLAYED"},
     FAILED |-> {"VALIDATED", "SIMULATED", "APPROVED", "REPLAYED"},
     ROLLED_BACK |-> {"VALIDATED", "SIMULATED", "APPROVED", "REPLAYED"}]

GoodRecord(r) ==
    /\ {"state", "simulationHash", "completed", "past"} \subseteq DOMAIN r
    /\ r.state \in States /\ WentThrough[r.state] \subseteq r.past

Register(rs) ==
    /\ DOMAIN rs = Migrations
    /\ \A id \in Migrations : rs[id] = NoRecord \/ GoodRecord(rs[id])

(* The records in use, and the ones an import may bring back.               *)
RegistryInv == Register(records) /\ Register(exported)

LEMMA MovedIsGood ==
    ASSUME NEW r, GoodRecord(r), NEW to \in States, CanTransition(r.state, to)
    PROVE  GoodRecord(Moved(r, to)) /\ Moved(r, to).state = to
<1>1. /\ Moved(r, to).state = to /\ Moved(r, to).past = r.past \cup {to}
      /\ DOMAIN Moved(r, to) = DOMAIN r
  BY DEF Moved, GoodRecord
<1>2. WentThrough[to] \subseteq WentThrough[r.state] \cup {to}
  BY DEF GoodRecord, CanTransition, Transitions, States, WentThrough
<1> QED
  BY <1>1, <1>2 DEF GoodRecord

LEMMA SetRecord ==
    ASSUME RegistryInv, NEW id \in Migrations, NEW r, GoodRecord(r),
           records' = [records EXCEPT ![id] = r], exported' = exported
    PROVE  RegistryInv'
BY DEF RegistryInv, Register

LEMMA RegistryStep == ASSUME RegistryInv, RegistryNext PROVE RegistryInv'
<1>1. ASSUME NEW id \in Migrations, CreateMigration(id)
      PROVE  RegistryInv'
  <2>1. GoodRecord(NewRecord(plan.planHash))
    BY DEF GoodRecord, NewRecord, States, WentThrough
  <2> QED
    BY <1>1, <2>1, SetRecord DEF CreateMigration
<1>2. ASSUME NEW id \in Migrations, NEW to \in States, UpdateState(id, to)
      PROVE  RegistryInv'
  <2>1. GoodRecord(records[id])
    BY <1>2 DEF UpdateState, Exists, RegistryInv, Register
  <2>2. GoodRecord(Moved(records[id], to))
    BY <1>2, <2>1, MovedIsGood DEF UpdateState
  <2> QED
    BY <1>2, <2>2, SetRecord DEF UpdateState
<1>3. ASSUME NEW id \in Migrations, RollbackState(id)
      PROVE  RegistryInv'
  <2>1. GoodRecord(records[id])
    BY <1>3 DEF RollbackState, Exists, RegistryInv, Register
  <2>2. /\ GoodRecord(Moved(records[id], "FAILED"))
        /\ Moved(records[id], "FAILED").state = "FAILED"
    BY <1>3, <2>1, MovedIsGood DEF RollbackState, States
  <2>3. GoodRecord(Moved(Moved(records[id], "FAILED"), "ROLLED_BACK"))
    <3>1. CanTransition("FAILED", "ROLLED_BACK") /\ "ROLLED_BACK" \in States
      BY DEF CanTransition, Transitions, States
    <3> QED
      BY <2>2, <3>1, MovedIsGood
  <2> QED
    BY <1>3, <2>3, SetRecord DEF RollbackState
<1>4. ASSUME NEW id \in Migrations, SimulateExecution(id)
      PROVE  RegistryInv'
  <2> DEFINE hashed == [records[id] EXCEPT !.simulationHash = plan.planHash]
             next == IF CanTransition(hashed.state, "SIMULATED") THEN Moved(hashed, "SIMULATED")
                     ELSE hashed
  <2>1. GoodRecord(records[id])
    BY <1>4 DEF SimulateExecution, Exists, RegistryInv, Register
  <2>2. GoodRecord(hashed)
    BY <2>1 DEF GoodRecord
  <2> HIDE DEF hashed
  <2>3. GoodRecord(next)
    BY <2>2, MovedIsGood DEF States
  <2>4. records' = [records EXCEPT ![id] = next] /\ exported' = exported
    BY <1>4 DEF SimulateExecution, hashed
  <2> HIDE DEF next
  <2> QED
    BY <2>3, <2>4, SetRecord
<1>5. CASE Cleanup
  BY <1>5 DEF Cleanup, RegistryInv, Register
<1>6. CASE ExportState \/ ImportState
  BY <1>6 DEF ExportState, ImportState, RegistryInv, Register
<1>7. CASE BuildPlan \/ \E id \in Migrations : GuardMigration(id) \/ RebuildWithValidation(id)
  BY <1>7 DEF BuildPlan, GuardMigration, RebuildWithValidation, RegistryInv, Register
<1> QED
  BY <1>1, <1>2, <1>3, <1>4, <1>5, <1>6, <1>7 DEF RegistryNext

(* Whatever calls are made in whatever order, with ids used again, records  *)
(* cleaned up and older exports imported, a migration that executes or      *)
(* executed was validated, simulated, approved and replayed before, and     *)
(* none can be started in the state guardExecution asks for                 *)
(* (migration-state.ts).                                                    *)
THEOREM ExecutedAfterRehearsal == ToolsSpec => []ExecutedWasRehearsed
<1>1. ToolsInit => RegistryInv
  BY DEF ToolsInit, RegistryInit, RegistryInv, Register
<1>2. ASSUME RegistryInv, [ToolsNext]_toolVars
      PROVE  RegistryInv'
  <2>1. CASE RegistryNext
    BY <1>2, <2>1, RegistryStep
  <2>2. CASE UNCHANGED <<records, exported>>
    BY <1>2, <2>2 DEF RegistryInv, Register
  <2> QED
    BY <1>2, <2>1, <2>2 DEF ToolsNext, toolVars, Start, ReviewNext, BuildPlan,
       ValidateMigrationPlan, EvaluatePolicy, ExecuteFastPhases
<1>3. RegistryInv => ExecutedWasRehearsed
  <2>1. \A state \in States : CanExecute(state) => ~CanTransition(state, "EXECUTING")
    BY DEF CanExecute, CanTransition, Transitions
  <2> QED
    BY <2>1 DEF RegistryInv, Register, GoodRecord, ExecutedWasRehearsed, Exists, WentThrough
<1> QED
  BY <1>1, <1>2, <1>3, PTL DEF ToolsSpec

-----------------------------------------------------------------------------
(* Induction, as a set of counterexamples without a least member.           *)
LEMMA Least ==
  ASSUME NEW T, T \subseteq Nat, T # {}
  PROVE  \E m \in T : \A n \in T : m <= n
<1>1. \E m \in T : \A n \in T : ~(<<n, m>> \in OpToRel(<, Nat))
  BY NatLessThanWellFounded, WFMin
<1>2. PICK m \in T : \A n \in T : ~(<<n, m>> \in OpToRel(<, Nat))
  BY <1>1
<1>3. ASSUME NEW n \in T, ~ (m <= n) PROVE FALSE
  <2>1. <<n, m>> \in Nat \X Nat /\ n < m
    BY <1>3
  <2>2. <<n, m>> \in OpToRel(<, Nat)
    BY <2>1 DEF OpToRel
  <2> QED BY <1>2, <2>2
<1> QED BY <1>3

(* The recursion of Script, one statement at a time.                        *)
ScriptStart(db0) == [db |-> db0, ok |-> TRUE]
ScriptStep(before, s) ==
    IF before.ok /\ Executes(before.db, s) THEN [db |-> Effect(before.db, s), ok |-> TRUE]
    ELSE [before EXCEPT !.ok = FALSE]

LEMMA ScriptIs ==
  ASSUME NEW db0, NEW stmts, Len(stmts) \in Nat
  PROVE  Script(db0, stmts) = [n \in 0 .. Len(stmts) |->
            IF n = 0 THEN ScriptStart(db0) ELSE ScriptStep(Script(db0, stmts)[n - 1], stmts[n])]
<1> DEFINE Is(f, m) == f = [n \in 0 .. m |-> IF n = 0 THEN ScriptStart(db0) ELSE ScriptStep(f[n - 1], stmts[n])]
           T == {m \in Nat : ~ \E f : Is(f, m)}
<1>1. ASSUME T # {} PROVE FALSE
  <2>1. PICK m \in T : \A n \in T : m <= n
    <3> T \subseteq Nat OBVIOUS
    <3> HIDE DEF T
    <3> QED BY <1>1, Least
  <2>2. CASE m = 0
    <3>1. Is([n \in 0 .. 0 |-> ScriptStart(db0)], 0)
      OBVIOUS
    <3> QED BY <2>1, <2>2, <3>1
  <2>3. CASE m # 0
    <3>1. m - 1 \in Nat /\ m - 1 \notin T
      <4> m \in Nat OBVIOUS
      <4> HIDE DEF T
      <4> QED BY <2>1, <2>3
    <3>2. PICK f : Is(f, m - 1)
      BY <3>1
    <3> DEFINE g == [n \in 0 .. m |-> IF n = m THEN ScriptStep(f[m - 1], stmts[m]) ELSE f[n]]
    <3>3. \A n \in 0 .. m : g[n] = IF n = 0 THEN ScriptStart(db0) ELSE ScriptStep(g[n - 1], stmts[n])
      <4> TAKE n \in 0 .. m
      <4> HIDE DEF ScriptStart, ScriptStep
      <4>1. \A k \in 0 .. (m - 1) : f[k] = IF k = 0 THEN ScriptStart(db0) ELSE ScriptStep(f[k - 1], stmts[k])
        BY <3>1, <3>2
      <4> QED BY <2>3, <3>1, <4>1
    <3>4. Is(g, m)
      BY <3>3
    <3> QED BY <2>1, <3>4
  <2> QED BY <2>2, <2>3
<1>2. \E f : Is(f, Len(stmts))
  BY <1>1
<1>3. Script(db0, stmts) = CHOOSE f : Is(f, Len(stmts))
  BY DEF Script, ScriptStart, ScriptStep
<1> HIDE DEF Is
<1>4. Is(Script(db0, stmts), Len(stmts))
  BY <1>2, <1>3
<1> QED BY <1>4 DEF Is

(* A sequence of sequences over S, one after the other, is one over S,      *)
(* and begins as the first of them does.                                    *)
BeginsAs(s, r) == r # <<>> => s # <<>> /\ s[1] = r[1]

LEMMA ConcatBegins ==
    ASSUME NEW S, NEW a \in Seq(S), NEW b \in Seq(S), a # <<>>
    PROVE  a \o b # <<>> /\ (a \o b)[1] = a[1]
<1>1. Len(a) \in Nat \ {0} /\ Len(a \o b) = Len(a) + Len(b) /\ Len(b) \in Nat
  OBVIOUS
<1>2. (a \o b)[1] = a[1]
  BY <1>1
<1>3. a \o b # <<>>
  BY <1>1
<1> QED BY <1>2, <1>3

LEMMA FlattenFolds ==
    ASSUME NEW S, NEW ss \in Seq(Seq(S)), Len(ss) # 0
    PROVE  \E f : /\ FlattenSeq(ss) = f[Len(ss)]
                  /\ \A i \in 1 .. Len(ss) : f[i] = IF i = 1 THEN ss[i] ELSE f[i - 1] \o ss[i]
                  /\ \A i \in 1 .. Len(ss) : f[i] \in Seq(S) /\ BeginsAs(f[i], ss[1])
<1> DEFINE Is(f, m) == f = [i \in 1 .. m |-> IF i = 1 THEN ss[i] ELSE f[i - 1] \o ss[i]]
           T == {m \in 1 .. Len(ss) : ~ \E f : Is(f, m) /\ \A i \in 1 .. m : f[i] \in Seq(S) /\ BeginsAs(f[i], ss[1])}
<1>1. ASSUME T # {} PROVE FALSE
  <2>1. PICK m \in T : \A n \in T : m <= n
    <3> HIDE DEF Is
    <3>1. T \subseteq 1 .. Len(ss) /\ 1 .. Len(ss) \subseteq Nat
      OBVIOUS
    <3> HIDE DEF T
    <3> QED BY <1>1, <3>1, Least
  <2>2. m \in 1 .. Len(ss) /\ Len(ss) \in Nat
    OBVIOUS
  <2>3. CASE m = 1
    <3>1. Is([i \in 1 .. 1 |-> ss[1]], 1)
      OBVIOUS
    <3>2. ss[1] \in Seq(S) /\ BeginsAs(ss[1], ss[1])
      BY <2>2, <2>3 DEF BeginsAs
    <3> QED BY <2>1, <2>3, <3>1, <3>2
  <2>4. CASE m # 1
    <3>1. m - 1 \in 1 .. Len(ss) /\ m - 1 \notin T
      <4> HIDE DEF T
      <4> QED BY <2>1, <2>2, <2>4
    <3>2. PICK f : Is(f, m - 1) /\ \A i \in 1 .. (m - 1) : f[i] \in Seq(S) /\ BeginsAs(f[i], ss[1])
      BY <3>1
    <3> DEFINE g == [i \in 1 .. m |-> IF i = m THEN f[m - 1] \o ss[m] ELSE f[i]]
    <3>3. \A i \in 1 .. (m - 1) : f[i] = IF i = 1 THEN ss[i] ELSE f[i - 1] \o ss[i]
      BY <3>2
    <3>4. \A i \in 1 .. m : g[i] = IF i = 1 THEN ss[i] ELSE g[i - 1] \o ss[i]
      BY <2>2, <2>4, <3>3
    <3>5. Is(g, m)
      BY <3>4
    <3>6. f[m - 1] \o ss[m] \in Seq(S) /\ BeginsAs(f[m - 1] \o ss[m], ss[1])
      <4>1. f[m - 1] \in Seq(S) /\ ss[m] \in Seq(S) /\ BeginsAs(f[m - 1], ss[1])
        BY <2>2, <2>4, <3>1, <3>2
      <4>2. f[m - 1] # <<>> => f[m - 1] \o ss[m] # <<>> /\ (f[m - 1] \o ss[m])[1] = f[m - 1][1]
        BY <4>1, ConcatBegins
      <4>3. f[m - 1] \o ss[m] \in Seq(S)
        BY <4>1
      <4> QED BY <4>1, <4>2, <4>3 DEF BeginsAs
    <3>7. \A i \in 1 .. m : g[i] \in Seq(S) /\ BeginsAs(g[i], ss[1])
      BY <2>2, <3>2, <3>6
    <3> QED BY <2>1, <3>5, <3>7
  <2> QED BY <2>3, <2>4
<1> QED
  <2>1. Len(ss) \in 1 .. Len(ss)
    OBVIOUS
  <2>2. PICK f : Is(f, Len(ss)) /\ \A i \in 1 .. Len(ss) : f[i] \in Seq(S) /\ BeginsAs(f[i], ss[1])
    BY <1>1, <2>1
  <2> DEFINE F == CHOOSE f0 : Is(f0, Len(ss))
  <2>3. FlattenSeq(ss) = F[Len(ss)]
    BY DEF FlattenSeq
  <2>4. Is(F, Len(ss))
    <3> HIDE DEF Is
    <3> QED BY <2>2
  <2> HIDE DEF F
  <2>5. F[Len(ss)] = f[Len(ss)]
    <3> DEFINE D == {i \in 1 .. Len(ss) : F[i] # f[i]}
    <3>1. ASSUME D # {} PROVE FALSE
      <4>1. PICK m \in D : \A n \in D : m <= n
        <5> D \subseteq Nat OBVIOUS
        <5> HIDE DEF D
        <5> QED BY <3>1, Least
      <4>2. m \in 1 .. Len(ss) /\ Len(ss) \in Nat
        OBVIOUS
      <4>3. m # 1 => m - 1 \in 1 .. Len(ss) /\ m - 1 \notin D
        <5> HIDE DEF D
        <5> QED BY <4>1, <4>2
      <4>4. /\ F[m] = IF m = 1 THEN ss[m] ELSE F[m - 1] \o ss[m]
            /\ f[m] = IF m = 1 THEN ss[m] ELSE f[m - 1] \o ss[m]
        BY <2>2, <2>4, <4>2
      <4> QED BY <4>1, <4>3, <4>4
    <3> QED BY <2>1, <3>1
  <2>6. \A i \in 1 .. Len(ss) : f[i] = IF i = 1 THEN ss[i] ELSE f[i - 1] \o ss[i]
    BY <2>2
  <2> HIDE DEF Is
  <2> QED BY <2>2, <2>3, <2>5, <2>6

LEMMA FlattenIsSeq ==
    ASSUME NEW S, NEW ss \in Seq(Seq(S))
    PROVE  /\ FlattenSeq(ss) \in Seq(S)
           /\ Len(ss) # 0 => BeginsAs(FlattenSeq(ss), ss[1])
<1>1. CASE Len(ss) = 0
  <2>1. FlattenSeq(ss) = ss /\ ss = << >>
    BY <1>1 DEF FlattenSeq
  <2> QED BY <1>1, <2>1
<1>2. CASE Len(ss) # 0
  <2>1. Len(ss) \in 1 .. Len(ss)
    BY <1>2
  <2> QED BY <1>2, <2>1, FlattenFolds
<1> QED BY <1>1, <1>2

-----------------------------------------------------------------------------
(* What a statement may do without a loss: every column stays, with its     *)
(* data, and the columns belong to tables.                                  *)
Kept(d, e) ==
    /\ DOMAIN d.cols \subseteq DOMAIN e.cols
    /\ \A k \in DOMAIN d.cols : e.cols[k].data = d.cols[k].data

LEMMA KeptIsHeld == ASSUME NEW d, NEW e, Kept(d, e) PROVE Held(d) \subseteq Held(e)
BY DEF Kept, Held

(* Well-formedness, of a database given by its parts.                       *)
LEMMA Formed ==
    ASSUME NEW ts, NEW cs, NEW is, NEW ys, cs = [k \in DOMAIN cs |-> cs[k]],
           \A k \in DOMAIN cs : /\ k = <<k[1], k[2]>> /\ k[1] \in DOMAIN ts
                                /\ cs[k] = Column(cs[k].data, cs[k].type)
    PROVE  WellFormed(Database(ts, cs, is, ys))
<1>1. cs = [k \in DOMAIN cs |-> Column(cs[k].data, cs[k].type)]
  OBVIOUS
<1>2. /\ Database(ts, cs, is, ys).tables = ts /\ Database(ts, cs, is, ys).cols = cs
      /\ Database(ts, cs, is, ys).indexes = is /\ Database(ts, cs, is, ys).types = ys
  BY DEF Database
<1> QED BY <1>1, <1>2 DEF WellFormed

LEMMA ColumnsOf ==
    ASSUME NEW d, WellFormed(d), NEW k \in DOMAIN d.cols
    PROVE  /\ k = <<k[1], k[2]>> /\ k[1] \in DOMAIN d.tables
           /\ d.cols[k] = Column(d.cols[k].data, d.cols[k].type)
BY DEF WellFormed

LEMMA ColumnIs ==
    ASSUME NEW data, NEW type
    PROVE  /\ Column(data, type).data = data
           /\ Column(data, type) = Column(Column(data, type).data, Column(data, type).type)
BY DEF Column

AdditiveVerbs ==
    {"CREATE TABLE", "ADD", "ADD COLUMN", "SET NOT NULL", "DROP NOT NULL", "CREATE INDEX", "DROP INDEX",
     "ADD CONSTRAINT", "CREATE TYPE", "RENAME TYPE"}

(* A new column of a table.                                                 *)
LEMMA WithColumn ==
    ASSUME NEW d, WellFormed(d), NEW ts, DOMAIN d.tables \subseteq DOMAIN ts, NEW t \in DOMAIN ts, NEW c, NEW data, NEW type
    PROVE  /\ WellFormed(SetTables(d, ts, With(d.cols, <<t, c>>, Column(data, type))))
           /\ <<t, c>> \notin DOMAIN d.cols => Kept(d, SetTables(d, ts, With(d.cols, <<t, c>>, Column(data, type))))
<1> DEFINE k == <<t, c>>
           cs == With(d.cols, k, Column(data, type))
           e == SetTables(d, ts, cs)
<1>1. /\ DOMAIN cs = DOMAIN d.cols \cup {k} 
      /\ cs = [x \in DOMAIN cs |-> cs[x]]
      /\ cs[k] = Column(data, type)
      /\ \A x \in DOMAIN d.cols : x # k => cs[x] = d.cols[x]
  BY DEF With
<1> HIDE DEF cs
<1>2. e = Database(ts, cs, d.indexes, d.types) /\ e.cols = cs
  BY DEF SetTables, Database
<1>3. \A x \in DOMAIN cs : cs[x] = Column(cs[x].data, cs[x].type)
  BY <1>1, ColumnsOf, ColumnIs
<1>4. \A x \in DOMAIN cs : x = <<x[1], x[2]>> /\ x[1] \in DOMAIN ts
  BY <1>1, ColumnsOf
<1> HIDE DEF e
<1>6. WellFormed(e)
  BY <1>1, <1>2, <1>3, <1>4, Formed
<1>7. k \notin DOMAIN d.cols => Kept(d, e)
  BY <1>1, <1>2 DEF Kept
<1> QED BY <1>6, <1>7 DEF e, cs

LEMMA SameColumns ==
    ASSUME NEW d, WellFormed(d), NEW is, NEW ys
    PROVE  /\ WellFormed(Database(d.tables, d.cols, is, ys))
           /\ Kept(d, Database(d.tables, d.cols, is, ys))
<1>1. d.cols = [k \in DOMAIN d.cols |-> d.cols[k]]
  BY DEF WellFormed
<1>2. \A k \in DOMAIN d.cols : /\ k = <<k[1], k[2]>> /\ k[1] \in DOMAIN d.tables
                                /\ d.cols[k] = Column(d.cols[k].data, d.cols[k].type)
  BY ColumnsOf
<1>3. Database(d.tables, d.cols, is, ys).cols = d.cols
  BY DEF Database
<1> QED BY <1>1, <1>2, <1>3, Formed DEF Kept

(* A statement that only adds loses nothing.                                *)
LEMMA AdditiveKeeps ==
    ASSUME NEW d, WellFormed(d), NEW s, s.verb \in AdditiveVerbs, Executes(d, s)
    PROVE  WellFormed(Effect(d, s)) /\ Kept(d, Effect(d, s))
<1>1. CASE Skipped(d, s)
  BY <1>1 DEF Effect, Kept
<1>2. CASE ~Skipped(d, s)
  <2>0. CanRun(d, s) /\ Effect(d, s) = Change(d, s)
    BY <1>2 DEF Executes, Effect
  <2> DEFINE t == s.table
  <2>1. CASE s.verb = "CREATE TABLE"
    <3> DEFINE cs == [c \in DOMAIN d.cols \cup {<<t, m>> : m \in DOMAIN s.cols} |->
                        IF c[1] = t THEN Column({}, s.cols[c[2]]) ELSE d.cols[c]]
               ts == With(d.tables, t, FALSE)
    <3>1. Change(d, s) = Database(ts, cs, d.indexes, d.types)
      BY <2>1 DEF Change, SetTables
    <3>2. t \notin DOMAIN d.tables
      BY <2>0, <2>1 DEF CanRun
    <3>3. DOMAIN ts = DOMAIN d.tables \cup {t}
      BY DEF With
    <3>4. /\ DOMAIN cs = DOMAIN d.cols \cup {<<t, m>> : m \in DOMAIN s.cols}
          /\ cs = [c \in DOMAIN cs |-> cs[c]]
          /\ \A c \in DOMAIN cs : cs[c] = IF c[1] = t THEN Column({}, s.cols[c[2]]) ELSE d.cols[c]
      OBVIOUS
    <3> HIDE DEF cs, ts
    <3>5. \A c \in DOMAIN d.cols : c[1] # t
      BY <3>2, ColumnsOf
    <3>6. \A c \in DOMAIN cs : c = <<c[1], c[2]>> /\ c[1] \in DOMAIN ts
      BY <3>3, <3>4, ColumnsOf
    <3>7. \A c \in DOMAIN cs : cs[c] = Column(cs[c].data, cs[c].type)
      BY <3>4, <3>5, ColumnsOf, ColumnIs
    <3>8. WellFormed(Change(d, s))
      BY <3>1, <3>4, <3>6, <3>7, Formed
    <3>9. Change(d, s).cols = cs
      BY <3>1 DEF Database
    <3> QED BY <2>0, <3>4, <3>5, <3>8, <3>9 DEF Kept
  <2>2. CASE s.verb \in {"ADD", "ADD COLUMN"}
    <3>1. PICK data : Change(d, s) = SetTables(d, d.tables, With(d.cols, <<t, s.col>>, Column(data, s.type)))
      BY <2>2 DEF Change, SetTables, SetCols
    <3>2. t \in DOMAIN d.tables /\ <<t, s.col>> \notin DOMAIN d.cols
      BY <2>0, <2>2 DEF CanRun
    <3> QED BY <2>0, <3>1, <3>2, WithColumn
  <2>3. CASE s.verb \in {"CREATE INDEX", "DROP INDEX", "CREATE TYPE"}
    <3>1. \E is, ys : Change(d, s) = Database(d.tables, d.cols, is, ys)
      BY <2>3 DEF Change, SetIndexes, SetTypes
    <3> QED BY <2>0, <3>1, SameColumns
  <2>4. CASE s.verb \in {"SET NOT NULL", "DROP NOT NULL", "ADD CONSTRAINT"}
    <3>1. Change(d, s) = d
      BY <2>4 DEF Change
    <3> QED BY <2>0, <3>1 DEF Kept
  <2>5. CASE s.verb = "RENAME TYPE"
    <3> DEFINE cs == [c \in DOMAIN d.cols |->
                        Column(d.cols[c].data, IF d.cols[c].type = s.type THEN s.to ELSE d.cols[c].type)]
    <3>1. \E ys : Change(d, s) = Database(d.tables, cs, d.indexes, ys)
      BY <2>5 DEF Change, SetTypes
    <3>2. /\ DOMAIN cs = DOMAIN d.cols /\ cs = [c \in DOMAIN cs |-> cs[c]]
          /\ \A c \in DOMAIN cs :
               cs[c] = Column(d.cols[c].data, IF d.cols[c].type = s.type THEN s.to ELSE d.cols[c].type)
      OBVIOUS
    <3> HIDE DEF cs
    <3>3. \A c \in DOMAIN cs : cs[c] = Column(cs[c].data, cs[c].type) /\ cs[c].data = d.cols[c].data
      BY <3>2, ColumnIs
    <3>4. \A c \in DOMAIN cs : c = <<c[1], c[2]>> /\ c[1] \in DOMAIN d.tables
      BY <3>2, ColumnsOf
    <3>5. WellFormed(Change(d, s))
      BY <3>1, <3>2, <3>3, <3>4, Formed
    <3>6. Change(d, s).cols = cs
      BY <3>1 DEF Database
    <3> QED BY <2>0, <3>2, <3>3, <3>5, <3>6 DEF Kept
  <2> QED BY <2>1, <2>2, <2>3, <2>4, <2>5 DEF AdditiveVerbs
<1> QED BY <1>1, <1>2

(* A script of statements that only add, run as far as it goes.             *)
LEMMA AdditiveScript ==
    ASSUME NEW d, WellFormed(d), NEW S, NEW stmts \in Seq(S),
           \A s \in S : s.verb \in AdditiveVerbs
    PROVE  /\ DOMAIN Script(d, stmts) = 0 .. Len(stmts)
           /\ \A n \in 0 .. Len(stmts) : Held(d) \subseteq Held(Script(d, stmts)[n].db)
<1> DEFINE A == Script(d, stmts)
           Good(n) == /\ WellFormed(A[n].db) /\ Held(d) \subseteq Held(A[n].db)
                      /\ DOMAIN A[n] = {"db", "ok"}
           T == {n \in 0 .. Len(stmts) : ~Good(n)}
<1>1. /\ DOMAIN A = 0 .. Len(stmts)
      /\ \A n \in 0 .. Len(stmts) : A[n] = IF n = 0 THEN ScriptStart(d) ELSE ScriptStep(A[n - 1], stmts[n])
  <2>1. A = [n \in 0 .. Len(stmts) |-> IF n = 0 THEN ScriptStart(d) ELSE ScriptStep(A[n - 1], stmts[n])]
    BY ScriptIs
  <2> HIDE DEF A
  <2> QED BY <2>1
<1> HIDE DEF A
<1>2. ASSUME T # {} PROVE FALSE
  <2>1. PICK n \in T : \A m \in T : n <= m
    <3> HIDE DEF Good
    <3>1. T \subseteq 0 .. Len(stmts) /\ 0 .. Len(stmts) \subseteq Nat
      OBVIOUS
    <3> HIDE DEF T
    <3> QED BY <1>2, <3>1, Least
  <2>2. n \in 0 .. Len(stmts) /\ Len(stmts) \in Nat /\ ~Good(n)
    OBVIOUS
  <2>3. n # 0
    BY <1>1, <2>2 DEF ScriptStart
  <2>4. Good(n - 1) /\ stmts[n] \in S
    <3> HIDE DEF Good
    <3>1. n - 1 \in 0 .. Len(stmts) /\ n \in 1 .. Len(stmts)
      BY <2>2, <2>3
    <3>2. n - 1 \notin T
      <4> HIDE DEF T
      <4> QED BY <2>1, <2>2
    <3> QED BY <3>1, <3>2
  <2>5. A[n] = ScriptStep(A[n - 1], stmts[n])
    BY <1>1, <2>2, <2>3
  <2>6. CASE A[n - 1].ok /\ Executes(A[n - 1].db, stmts[n])
    <3>1. A[n].db = Effect(A[n - 1].db, stmts[n]) /\ DOMAIN A[n] = {"db", "ok"}
      BY <2>5, <2>6 DEF ScriptStep
    <3>2. WellFormed(A[n].db) /\ Kept(A[n - 1].db, A[n].db)
      BY <2>4, <2>6, <3>1, AdditiveKeeps
    <3>3. Held(A[n - 1].db) \subseteq Held(A[n].db)
      BY <3>2, KeptIsHeld
    <3> QED BY <2>2, <2>4, <3>1, <3>2, <3>3
  <2>7. CASE ~(A[n - 1].ok /\ Executes(A[n - 1].db, stmts[n]))
    <3>1. A[n].db = A[n - 1].db /\ DOMAIN A[n] = {"db", "ok"}
      BY <2>4, <2>5, <2>7 DEF ScriptStep
    <3> QED BY <2>2, <2>4, <3>1
  <2> QED BY <2>6, <2>7
<1> QED BY <1>1, <1>2 DEF A

-----------------------------------------------------------------------------
(* The planner: what is left of a diff without breaking changes only adds,  *)
(* however the operations are split and ordered.                            *)

LEMMA NotBreaking ==
    ASSUME NEW s, s.verb \in BuilderVerbs, BreakingChangesOf(s) = {}
    PROVE  s.verb \in AdditiveVerbs /\ s.verb # "RENAME COLUMN" /\ ~LooksLikeTypeChange(s)
<1>1. /\ ~DropsData(s) /\ s.verb # "DROP CONSTRAINT" /\ s.verb # "RENAME COLUMN"
      /\ ~LooksLikeTypeChange(s)
  BY DEF BreakingChangesOf, When
<1> QED
  BY <1>1 DEF DropsData, LooksLikeTypeChange, BuilderVerbs, AdditiveVerbs

Rebuilt == {"idx_outbox_worker", "idx_outbox_locked"}

LEMMA IsSeqOf ==
    ASSUME NEW S, NEW n \in Nat, NEW f, f = [i \in 1 .. n |-> f[i]], \A i \in 1 .. n : f[i] \in S
    PROVE  f \in Seq(S)
<1>1. [i \in 1 .. n |-> f[i]] \in Seq(S)
  OBVIOUS
<1> QED BY <1>1

(* The operations an additive operation may be split into, none of them     *)
(* one of category DATA.                                                    *)
Pieces(op) ==
    {op} \cup {Part(op, "SAFE", DropIndexIfExists(i)) : i \in Rebuilt}
         \cup {Part(op, "BREAKING", CreateIndex("outbox", i)) : i \in Rebuilt}

LEMMA PiecesAreAdditive ==
    ASSUME NEW op, op.sql.verb \in AdditiveVerbs, op.category # "DATA", NEW o \in Pieces(op)
    PROVE  o.sql.verb \in AdditiveVerbs /\ o.category # "DATA"
<1>1. \A i \in Rebuilt : /\ Part(op, "SAFE", DropIndexIfExists(i)).sql.verb = "DROP INDEX"
                         /\ Part(op, "SAFE", DropIndexIfExists(i)).category = "SAFE"
                         /\ Part(op, "BREAKING", CreateIndex("outbox", i)).sql.verb = "CREATE INDEX"
                         /\ Part(op, "BREAKING", CreateIndex("outbox", i)).category = "BREAKING"
  BY DEF Part, Operation, DropIndexIfExists, CreateIndex, Stmt
<1>2. "DROP INDEX" \in AdditiveVerbs /\ "CREATE INDEX" \in AdditiveVerbs
  BY DEF AdditiveVerbs
<1> QED
  BY <1>1, <1>2 DEF Pieces

(* Neither of the two rewrites that copy a column applies.                  *)
Plain(op) == op.sql.verb # "RENAME COLUMN" /\ ~LooksLikeTypeChange(op.sql)

LEMMA SplitIntoPieces ==
    ASSUME NEW op, Plain(op)
    PROVE  /\ SplitOperation(op).safe \in Seq(Pieces(op))
           /\ SplitOperation(op).data \in Seq(Pieces(op))
           /\ SplitOperation(op).breaking \in Seq(Pieces(op))
<1> DEFINE S == Pieces(op)
<1>1. /\ op \in S
      /\ \A j \in Rebuilt : /\ Part(op, "SAFE", DropIndexIfExists(j)) \in S
                            /\ Part(op, "BREAKING", CreateIndex("outbox", j)) \in S
  BY DEF Pieces
<1> HIDE DEF S
<1>2. << >> \in Seq(S) /\ <<op>> \in Seq(S)
  BY <1>1
<1> SUFFICES /\ SplitOperation(op).safe \in Seq(S)
             /\ SplitOperation(op).data \in Seq(S)
             /\ SplitOperation(op).breaking \in Seq(S)
  BY DEF S
<1>3. CASE SplitOperation(op) = Unsplit(op) \/ SplitOperation(op) = Split(<< >>, <<op>>, << >>)
           \/ SplitOperation(op) = Split(<< >>, << >>, <<op>>)
  <2>1. \A a, b, c : Split(a, b, c).safe = a /\ Split(a, b, c).data = b /\ Split(a, b, c).breaking = c
    BY DEF Split
  <2>2. Unsplit(op) = Split(<<op>>, << >>, << >>)
    BY DEF Unsplit
  <2>3. PICK a \in Seq(S), b \in Seq(S), c \in Seq(S) : SplitOperation(op) = Split(a, b, c)
    <3>1. \E a, b, c \in {<< >>, <<op>>} : SplitOperation(op) = Split(a, b, c)
      BY <1>3, <2>2
    <3> QED BY <1>2, <3>1
  <2> QED BY <2>1, <2>3
<1>4. CASE SplitOperation(op) = RewriteEnumIndexDependency(op)
  <2>1. PartialIndexes[1] \in Rebuilt /\ PartialIndexes[2] \in Rebuilt
    BY DEF PartialIndexes, Rebuilt
  <2> DEFINE safe == [i \in 1 .. 2 |-> Part(op, "SAFE", DropIndexIfExists(PartialIndexes[i]))]
             breaking == [i \in 1 .. 2 |-> Part(op, "BREAKING", CreateIndex("outbox", PartialIndexes[i]))]
  <2>2. /\ safe = [i \in 1 .. 2 |-> safe[i]] /\ breaking = [i \in 1 .. 2 |-> breaking[i]]
        /\ safe[1] \in S /\ safe[2] \in S /\ breaking[1] \in S /\ breaking[2] \in S
    BY <1>1, <2>1
  <2>3. SplitOperation(op) = Split(safe, <<op>>, breaking)
    BY <1>4 DEF RewriteEnumIndexDependency
  <2> HIDE DEF safe, breaking
  <2>4. \A i \in 1 .. 2 : safe[i] \in S /\ breaking[i] \in S
    BY <2>2
  <2>5. safe \in Seq(S) /\ breaking \in Seq(S)
    BY <2>2, <2>4, IsSeqOf
  <2> QED BY <1>2, <2>3, <2>5 DEF Split
<1> QED
  BY <1>3, <1>4 DEF SplitOperation, IsColumnRename, RewriteNotNullViolation, Plain

PlanPhases(S) == [phase : {"EXPAND", "DATA", "CONTRACT"}, operations : Seq(S)]

LEMMA PhaseIsPlanned ==
    ASSUME NEW S, NEW name \in {"EXPAND", "DATA", "CONTRACT"}, NEW ops \in Seq(S)
    PROVE  NotEmpty(Phase(name, ops)) \in Seq(PlanPhases(S))
<1>1. Phase(name, ops) \in PlanPhases(S)
  BY DEF Phase, PlanPhases
<1> QED BY <1>1 DEF NotEmpty

LEMMA SplitIsPlanned ==
    ASSUME NEW O, NEW ops \in Seq(O), NEW S,
           \A i \in 1 .. Len(ops) : /\ SplitOperation(ops[i]).safe \in Seq(S)
                                    /\ SplitOperation(ops[i]).data \in Seq(S)
                                    /\ SplitOperation(ops[i]).breaking \in Seq(S)
    PROVE  LifecycleSplit(ops) \in Seq(PlanPhases(S))
<1> DEFINE parts == [i \in DOMAIN ops |-> SplitOperation(ops[i])]
           safe == [i \in DOMAIN ops |-> parts[i].safe]
           data == [i \in DOMAIN ops |-> parts[i].data]
           breaking == [i \in DOMAIN ops |-> parts[i].breaking]
<1>1. Len(ops) \in Nat /\ DOMAIN ops = 1 .. Len(ops)
  OBVIOUS
<1>2. safe \in Seq(Seq(S)) /\ data \in Seq(Seq(S)) /\ breaking \in Seq(Seq(S))
  <2>1. \A i \in 1 .. Len(ops) : parts[i].safe \in Seq(S) /\ parts[i].data \in Seq(S) /\ parts[i].breaking \in Seq(S)
    BY <1>1
  <2> HIDE DEF parts
  <2> QED BY <1>1, <2>1
<1>3. LifecycleSplit(ops) = NotEmpty(Phase("EXPAND", FlattenSeq(safe)))
                            \o NotEmpty(Phase("DATA", FlattenSeq(data)))
                            \o NotEmpty(Phase("CONTRACT", FlattenSeq(breaking)))
  BY DEF LifecycleSplit
<1> HIDE DEF parts, safe, data, breaking
<1>4. FlattenSeq(safe) \in Seq(S) /\ FlattenSeq(data) \in Seq(S) /\ FlattenSeq(breaking) \in Seq(S)
  BY <1>2, FlattenIsSeq
<1>5. LifecycleSplit(ops) \in Seq(PlanPhases(S))
  <2> DEFINE e == NotEmpty(Phase("EXPAND", FlattenSeq(safe)))
             f == NotEmpty(Phase("DATA", FlattenSeq(data)))
             g == NotEmpty(Phase("CONTRACT", FlattenSeq(breaking)))
  <2>1. e \in Seq(PlanPhases(S)) /\ f \in Seq(PlanPhases(S)) /\ g \in Seq(PlanPhases(S))
    BY <1>4, PhaseIsPlanned
  <2>2. LifecycleSplit(ops) = e \o f \o g
    BY <1>3
  <2> HIDE DEF e, f, g
  <2> QED BY <2>1, <2>2
<1> QED BY <1>5

(* What executeFastPhases runs and leaves to jobs, of phases of operations  *)
(* of S.                                                                    *)
LEMMA FastIsPlanned ==
    ASSUME NEW S, NEW phases \in Seq(PlanPhases(S))
    PROVE  FastOrder(phases) \in Seq({o.sql : o \in S})
<1> DEFINE U == {o.sql : o \in S}
           lists == [i \in DOMAIN phases |-> FastSqls(phases[i])]
<1>1. \A i \in DOMAIN phases : FastSqls(phases[i]) \in Seq(U)
  <2> TAKE i \in DOMAIN phases
  <2> DEFINE ops == phases[i].operations
             one(k) == IF ops[k].category = "DATA" THEN <<>> ELSE <<ops[k].sql>>
             ones == [k \in DOMAIN ops |-> one(k)]
  <2>1. ops \in Seq(S)
    <3>1. phases[i] \in PlanPhases(S)
      OBVIOUS
    <3> QED BY <3>1 DEF PlanPhases
  <2>2. FastSqls(phases[i]) = IF phases[i].phase = "DATA" THEN <<>> ELSE FlattenSeq(ones)
    BY DEF FastSqls
  <2> HIDE DEF ops
  <2>3. \A k \in DOMAIN ops : one(k) \in Seq(U)
    <3> TAKE k \in DOMAIN ops
    <3>1. ops[k].sql \in U
      BY <2>1
    <3> HIDE DEF U
    <3> QED BY <3>1
  <2> HIDE DEF U, one
  <2>4. ones \in Seq(Seq(U))
    BY <2>1, <2>3
  <2> HIDE DEF ones
  <2>5. FlattenSeq(ones) \in Seq(U) /\ <<>> \in Seq(U)
    BY <2>4, FlattenIsSeq
  <2> QED BY <2>2, <2>5
<1> HIDE DEF U
<1>2. lists \in Seq(Seq(U))
  BY <1>1
<1>3. FastOrder(phases) = FlattenSeq(lists)
  BY DEF FastOrder
<1> HIDE DEF lists
<1>4. FastOrder(phases) \in Seq(U)
  BY <1>2, <1>3, FlattenIsSeq
<1> QED BY <1>4 DEF U

LEMMA NoJobs ==
    ASSUME NEW S, NEW phases \in Seq(PlanPhases(S)), \A o \in S : o.category # "DATA"
    PROVE  BackfillJobs(phases) = {}
<1>1. ASSUME NEW i \in DOMAIN phases, NEW o \in ToSet(phases[i].operations)
      PROVE  o.category # "DATA"
  <2>1. phases[i].operations \in Seq(S)
    <3>1. phases[i] \in PlanPhases(S)
      OBVIOUS
    <3> QED BY <3>1 DEF PlanPhases
  <2>2. o \in S
    BY <1>1, <2>1 DEF ToSet
  <2> QED BY <2>2
<1> QED BY <1>1 DEF BackfillJobs

LEMMA AcceptedIsAdditive ==
    ASSUME NEW S, NEW diff \in Seq(S), \A s \in S : s.verb \in BuilderVerbs,
           IsValidPlan(BuildMigrationPlan(diff))
    PROVE  /\ \E U : /\ FastOrder(BuildMigrationPlan(diff).phases) \in Seq(U)
                     /\ \A s \in U : s.verb \in AdditiveVerbs
           /\ BackfillJobs(BuildMigrationPlan(diff).phases) = {}
<1> DEFINE ops == ClassifyOperations(diff)
           O == {ops[i] : i \in DOMAIN ops}
           P == UNION {Pieces(ops[i]) : i \in DOMAIN ops}
<1>1. /\ BuildMigrationPlan(diff).phases = LifecycleSplit(ops)
      /\ BuildMigrationPlan(diff).compatibility = CheckCompatibility(ops)
  BY DEF BuildMigrationPlan
<1>2. FindBreakingChanges(ops) = {}
  BY <1>1 DEF IsValidPlan, CheckCompatibility
<1>3. /\ DOMAIN ops = 1 .. Len(diff) /\ Len(diff) \in Nat /\ ops = [i \in 1 .. Len(diff) |-> ops[i]]
      /\ \A i \in 1 .. Len(diff) : /\ ops[i].sql = diff[i] /\ diff[i].verb \in BuilderVerbs
                                   /\ ops[i].category # "DATA"
  BY DEF ClassifyOperations, Operation, ClassifySqlStatement
<1> HIDE DEF ops
<1>4. ASSUME NEW i \in 1 .. Len(diff)
      PROVE  /\ ops[i].sql.verb \in AdditiveVerbs /\ ops[i].sql.verb # "RENAME COLUMN"
             /\ ~LooksLikeTypeChange(ops[i].sql)
  <2>1. BreakingChangesOf(ops[i].sql) = {}
    <3> SUFFICES ASSUME NEW c \in BreakingChangesOf(ops[i].sql) PROVE FALSE
      OBVIOUS
    <3> DEFINE found(j) == {[operation |-> j, change |-> x] : x \in BreakingChangesOf(ops[j].sql)}
    <3>1. [operation |-> i, change |-> c] \in found(i)
      OBVIOUS
    <3>2. FindBreakingChanges(ops) = UNION {found(j) : j \in DOMAIN ops}
      BY DEF FindBreakingChanges
    <3>3. i \in DOMAIN ops
      BY <1>3
    <3> HIDE DEF found
    <3>4. [operation |-> i, change |-> c] \in FindBreakingChanges(ops)
      BY <3>1, <3>2, <3>3, Zenon
    <3> QED BY <1>2, <3>4
  <2> QED BY <1>3, <2>1, NotBreaking
<1>5. ops \in Seq(O) /\ Len(ops) = Len(diff)
  <2>1. \A i \in 1 .. Len(diff) : ops[i] \in O
    BY <1>3
  <2> HIDE DEF O
  <2> QED BY <1>3, <2>1, IsSeqOf
<1>6. \A i \in 1 .. Len(ops) : /\ SplitOperation(ops[i]).safe \in Seq(P)
                               /\ SplitOperation(ops[i]).data \in Seq(P)
                               /\ SplitOperation(ops[i]).breaking \in Seq(P)
  <2> TAKE i \in 1 .. Len(ops)
  <2>1. /\ SplitOperation(ops[i]).safe \in Seq(Pieces(ops[i]))
        /\ SplitOperation(ops[i]).data \in Seq(Pieces(ops[i]))
        /\ SplitOperation(ops[i]).breaking \in Seq(Pieces(ops[i]))
    BY <1>4, <1>5, SplitIntoPieces DEF Plain
  <2>2. Pieces(ops[i]) \subseteq P
    BY <1>3, <1>5
  <2> HIDE DEF P
  <2> QED BY <2>1, <2>2
<1>7. \A o \in P : o.sql.verb \in AdditiveVerbs /\ o.category # "DATA"
  BY <1>3, <1>4, PiecesAreAdditive
<1> HIDE DEF P
<1>8. LifecycleSplit(ops) \in Seq(PlanPhases(P))
  BY <1>5, <1>6, SplitIsPlanned
<1>9. \A s \in {o.sql : o \in P} : s.verb \in AdditiveVerbs
  BY <1>7
<1> QED BY <1>1, <1>7, <1>8, <1>9, FastIsPlanned, NoJobs

-----------------------------------------------------------------------------
(* The plan of the moment comes from a diff of the builder's statements,    *)
(* and an execution reported is one of that plan.                           *)
PlanIsBuilt ==
    plan # NoPlan =>
        \E S : \E diff \in Seq(S) : /\ plan = BuildMigrationPlan(diff)
                                   /\ \A s \in S : s.verb \in BuilderVerbs

ReportIsOfPlan ==
    report.of = "execution" =>
        /\ plan # NoPlan /\ report.jobs \subseteq BackfillJobs(plan.phases)
        /\ \E n \in 0 .. Len(FastOrder(plan.phases)) :
             report.db = Script(db, FastOrder(plan.phases))[n].db

PlanInv == db = BaseDb /\ PlanIsBuilt /\ ReportIsOfPlan

LEMMA DiffIsBuilt ==
    ASSUME NEW base, NEW diff \in Diffs(base)
    PROVE  \E S : diff \in Seq(S) /\ \A s \in S : s.verb \in BuilderVerbs
<1> DEFINE S == UNION {ToSet(c) : c \in Changes}
<1>1. PICK cs \in SeqOf(Changes, MaxChanges) : diff = FlattenSeq(cs)
  BY DEF Diffs
<1>2. PICK m \in 0 .. MaxChanges : cs \in [1 .. m -> Changes]
  BY <1>1 DEF SeqOf
<1>3. \A c \in Changes : c \in Seq(S)
  <2> TAKE c \in Changes
  <2>1. c \in Seq(ToSet(c)) /\ ToSet(c) \subseteq S
    BY ChangesAssumption
  <2> HIDE DEF S
  <2> QED BY <2>1
<1>4. \A s \in S : s.verb \in BuilderVerbs
  BY ChangesAssumption
<1> HIDE DEF S
<1>5. cs \in Seq(Seq(S))
  <2>1. m \in Nat
    BY ChangesAssumption
  <2> QED BY <1>2, <1>3, <2>1
<1>6. diff \in Seq(S)
  BY <1>1, <1>5, FlattenIsSeq
<1> QED BY <1>4, <1>6

(* Whatever changes the entities go through, however many of them one diff  *)
(* has and on whatever database: however far executeFastPhases comes with a *)
(* plan validateMigrationPlan accepts, no column's data is gone and no work *)
(* is left to a job, the phases of lifecycle-split.ts and their order       *)
(* included.                                                                *)
THEOREM AcceptedPlansKeepData == ToolsSpec => []AcceptedKeepsData
<1>1. ToolsInit => PlanInv
  BY DEF ToolsInit, RegistryInit, PlanInv, PlanIsBuilt, ReportIsOfPlan, NoReport, None
<1>2. ASSUME PlanInv, [ToolsNext]_toolVars
      PROVE  PlanInv'
  <2>1. CASE BuildPlan
    <3>1. PICK diff \in Diffs(db) : plan' = BuildMigrationPlan(diff)
      BY <2>1 DEF BuildPlan
    <3>2. PICK S : diff \in Seq(S) /\ \A s \in S : s.verb \in BuilderVerbs
      BY <3>1, DiffIsBuilt
    <3>3. db' = BaseDb /\ report'.of # "execution"
      BY <1>2, <2>1 DEF BuildPlan, PlanInv, NoReport, None
    <3> QED BY <3>1, <3>2, <3>3 DEF PlanInv, PlanIsBuilt, ReportIsOfPlan
  <2>2. CASE ExecuteFastPhases
    <3> DEFINE stmts == FastOrder(plan.phases)
    <3>1. PICK n \in 0 .. Len(stmts) :
            report' = [of |-> "execution", db |-> Script(db, stmts)[n].db,
                       jobs |-> IF n = Len(stmts) /\ Script(db, stmts)[n].ok
                                THEN BackfillJobs(plan.phases) ELSE {}]
      BY <2>2 DEF ExecuteFastPhases
    <3>2. report'.db = Script(db, stmts)[n].db /\ report'.jobs \subseteq BackfillJobs(plan.phases)
      <4> HIDE DEF stmts
      <4> QED BY <3>1
    <3>3. plan # NoPlan /\ db' = db /\ plan' = plan
      BY <2>2 DEF ExecuteFastPhases
    <3>4. PlanIsBuilt' /\ db' = BaseDb
      BY <1>2, <3>3 DEF PlanInv, PlanIsBuilt
    <3>5. ReportIsOfPlan'
      BY <3>2, <3>3 DEF ReportIsOfPlan
    <3> QED BY <3>4, <3>5 DEF PlanInv
  <2>3. CASE ValidateMigrationPlan \/ EvaluatePolicy \/ \E id \in Migrations : GuardMigration(id)
    <3>1. UNCHANGED <<db, plan>> /\ report'.of # "execution"
      BY <2>3 DEF ValidateMigrationPlan, EvaluatePolicy, GuardMigration
    <3> QED BY <1>2, <3>1 DEF PlanInv, PlanIsBuilt, ReportIsOfPlan
  <2>4. CASE UNCHANGED <<db, plan, report>>
    BY <1>2, <2>4 DEF PlanInv, PlanIsBuilt, ReportIsOfPlan
  <2> QED
    BY <1>2, <2>1, <2>2, <2>3, <2>4 DEF ToolsNext, toolVars, Start, ReviewNext, RegistryNext,
       Cleanup, ExportState, ImportState, CreateMigration,
       UpdateState, RollbackState, SimulateExecution, RebuildWithValidation
<1>3. ASSUME PlanInv
      PROVE  AcceptedKeepsData
  <2> SUFFICES ASSUME report.of = "execution", IsValidPlan(plan)
               PROVE  Held(db) \subseteq Held(report.db) /\ report.jobs = {}
    BY DEF AcceptedKeepsData
  <2>1. PICK S : \E diff \in Seq(S) : /\ plan = BuildMigrationPlan(diff)
                                     /\ \A s \in S : s.verb \in BuilderVerbs
    BY <1>3 DEF PlanInv, PlanIsBuilt, ReportIsOfPlan
  <2>2. PICK diff \in Seq(S) : /\ plan = BuildMigrationPlan(diff)
                               /\ \A s \in S : s.verb \in BuilderVerbs
    BY <2>1
  <2> DEFINE stmts == FastOrder(plan.phases)
  <2>3. PICK U : stmts \in Seq(U) /\ \A s \in U : s.verb \in AdditiveVerbs
    BY <2>2, AcceptedIsAdditive
  <2>4. BackfillJobs(plan.phases) = {}
    BY <2>2, AcceptedIsAdditive
  <2>5. WellFormed(db)
    BY <1>3, BaseAssumption DEF PlanInv
  <2>6. PICK n \in 0 .. Len(stmts) : report.db = Script(db, stmts)[n].db
    BY <1>3 DEF PlanInv, ReportIsOfPlan
  <2>7. report.jobs = {}
    BY <1>3, <2>4 DEF PlanInv, ReportIsOfPlan
  <2> HIDE DEF stmts
  <2>8. Held(db) \subseteq Held(Script(db, stmts)[n].db)
    BY <2>3, <2>5, AdditiveScript
  <2> QED BY <2>6, <2>7, <2>8
<1> QED
  BY <1>1, <1>2, <1>3, PTL DEF ToolsSpec

-----------------------------------------------------------------------------
(* The statements of the intents, each on the database it runs on.          *)

(* The first statements of a script.                                        *)
LEMMA OneStatement ==
    ASSUME NEW d, NEW s, Script(d, <<s>>)[Len(<<s>>)].ok
    PROVE  Executes(d, s) /\ Script(d, <<s>>)[Len(<<s>>)].db = Effect(d, s)
<1> DEFINE stmts == <<s>>
           A == Script(d, stmts)
<1>1. Len(stmts) = 1 /\ stmts[1] = s
  OBVIOUS
<1>2. A = [n \in 0 .. Len(stmts) |-> IF n = 0 THEN ScriptStart(d) ELSE ScriptStep(A[n - 1], stmts[n])]
  BY <1>1, ScriptIs
<1> HIDE DEF A, stmts
<1>3. A[1] = ScriptStep(ScriptStart(d), s)
  BY <1>1, <1>2
<1>4. A[1].ok
  BY <1>1 DEF A, stmts
<1>5. Executes(d, s) /\ A[1].db = Effect(d, s)
  BY <1>3, <1>4 DEF ScriptStep, ScriptStart
<1> QED
  BY <1>1, <1>5 DEF A, stmts

LEMMA TwoStatements ==
    ASSUME NEW d, NEW s, NEW u, Script(d, <<s, u>>)[Len(<<s, u>>)].ok
    PROVE  /\ Executes(d, s) /\ Executes(Effect(d, s), u)
           /\ Script(d, <<s, u>>)[Len(<<s, u>>)].db = Effect(Effect(d, s), u)
<1> DEFINE stmts == <<s, u>>
           A == Script(d, stmts)
<1>1. Len(stmts) = 2 /\ stmts[1] = s /\ stmts[2] = u
  OBVIOUS
<1>2. A = [n \in 0 .. Len(stmts) |-> IF n = 0 THEN ScriptStart(d) ELSE ScriptStep(A[n - 1], stmts[n])]
  BY <1>1, ScriptIs
<1> HIDE DEF A, stmts
<1>3. A[1] = ScriptStep(ScriptStart(d), s) /\ A[2] = ScriptStep(A[1], u)
  BY <1>1, <1>2
<1>4. A[2].ok
  BY <1>1 DEF A, stmts
<1>5. A[1].ok /\ Executes(A[1].db, u) /\ A[2].db = Effect(A[1].db, u)
  BY <1>3, <1>4 DEF ScriptStep, ScriptStart
<1>6. Executes(d, s) /\ A[1].db = Effect(d, s)
  BY <1>3, <1>5 DEF ScriptStep, ScriptStart
<1> QED
  BY <1>1, <1>5, <1>6 DEF A, stmts

(* No statement of an intent is conditional.                                *)
LEMMA Unconditional ==
    ASSUME NEW d, NEW s, s.words \subseteq {"UPDATE", "TYPE", "CAST"}
    PROVE  /\ ~Has(s, "DEFAULT") /\ ~Has(s, "NOT NULL") /\ ~Has(s, "WHERE NULL")
           /\ Executes(d, s) => CanRun(d, s)
           /\ Effect(d, s) = Change(d, s)
<1>1. \A w \in {"DEFAULT", "NOT NULL", "WHERE NULL", "IF EXISTS", "IF NOT EXISTS", "GUARDED"} : ~Has(s, w)
  BY DEF Has
<1>2. ~Skipped(d, s)
  BY <1>1 DEF Skipped
<1> QED
  BY <1>1, <1>2 DEF Executes, Effect

LEMMA NoWords == ASSUME NEW c PROVE NameWords(c) \subseteq {"UPDATE", "TYPE"}
BY DEF NameWords

(* One column of a well-formed database set to some data.                   *)
LEMMA ColumnSet ==
    ASSUME NEW d, WellFormed(d), NEW t \in DOMAIN d.tables, NEW c, NEW data, NEW type,
           NEW e, e = SetCols(d, With(d.cols, <<t, c>>, Column(data, type)))
    PROVE  /\ WellFormed(e) /\ e.tables = d.tables /\ DOMAIN e.cols = DOMAIN d.cols \cup {<<t, c>>}
           /\ e.cols[<<t, c>>].data = data
           /\ \A k \in DOMAIN d.cols : k # <<t, c>> => e.cols[k] = d.cols[k]
<1> DEFINE cs == With(d.cols, <<t, c>>, Column(data, type))
<1>1. e = SetTables(d, d.tables, cs)
  BY DEF SetTables, SetCols
<1>2. WellFormed(e)
  BY <1>1, WithColumn
<1>3. /\ DOMAIN cs = DOMAIN d.cols \cup {<<t, c>>} /\ cs[<<t, c>>] = Column(data, type)
      /\ \A k \in DOMAIN d.cols : k # <<t, c>> => cs[k] = d.cols[k]
  BY DEF With
<1> HIDE DEF cs
<1>4. e.tables = d.tables /\ e.cols = cs
  BY <1>1 DEF SetTables, Database
<1> QED
  BY <1>2, <1>3, <1>4, ColumnIs

LEMMA AddColumnAdds ==
    ASSUME NEW d, WellFormed(d), NEW t, NEW c, NEW y, Executes(d, AddColumn(t, c, y)),
           NEW e, e = Effect(d, AddColumn(t, c, y))
    PROVE  /\ WellFormed(e) /\ Held(d) \subseteq Held(e)
           /\ <<t, c>> \notin DOMAIN d.cols
           /\ DOMAIN e.cols = DOMAIN d.cols \cup {<<t, c>>}
           /\ e.cols[<<t, c>>].data = {}
<1> DEFINE s == AddColumn(t, c, y)
<1>1. s.verb = "ADD COLUMN" /\ s.table = t /\ s.col = c /\ s.type = y /\ s.words \subseteq {"UPDATE", "TYPE"}
  <2>1. s = Stmt("ADD COLUMN", t, c, None, y, {})
    BY DEF AddColumn
  <2> HIDE DEF s
  <2>2. s.words = {} \cup NameWords(c)
    BY <2>1 DEF Stmt
  <2>3. s.words \subseteq {"UPDATE", "TYPE"}
    BY <2>2, NoWords
  <2> QED BY <2>1, <2>3 DEF Stmt
<1> HIDE DEF s
<1>2. CanRun(d, s) /\ e = Change(d, s) /\ ~Has(s, "DEFAULT")
  BY <1>1, Unconditional DEF s
<1>3. t \in DOMAIN d.tables /\ <<t, c>> \notin DOMAIN d.cols
  BY <1>1, <1>2 DEF CanRun
<1>4. e = SetCols(d, With(d.cols, <<t, c>>, Column({}, y)))
  BY <1>1, <1>2 DEF Change
<1>5. /\ WellFormed(e) /\ DOMAIN e.cols = DOMAIN d.cols \cup {<<t, c>>}
      /\ e.cols[<<t, c>>].data = {}
      /\ \A k \in DOMAIN d.cols : k # <<t, c>> => e.cols[k] = d.cols[k]
  BY <1>3, <1>4, ColumnSet
<1>6. Held(d) \subseteq Held(e)
  <2>1. Kept(d, e)
    BY <1>3, <1>5 DEF Kept
  <2> QED BY <2>1, KeptIsHeld
<1> QED
  BY <1>3, <1>5, <1>6

(* A copy loses what the target held, and nothing when it held nothing.     *)
LEMMA CopyColumnCopies ==
    ASSUME NEW d, WellFormed(d), NEW t, NEW c, NEW src, src # None, Executes(d, CopyColumn(t, c, src)),
           <<t, c>> \in DOMAIN d.cols, d.cols[<<t, c>>].data = {},
           NEW e, e = Effect(d, CopyColumn(t, c, src))
    PROVE  /\ WellFormed(e) /\ Held(d) \subseteq Held(e) /\ DOMAIN e.cols = DOMAIN d.cols
           /\ <<t, src>> \in DOMAIN d.cols
           /\ e.cols[<<t, src>>].data \subseteq e.cols[<<t, c>>].data
<1> DEFINE s == CopyColumn(t, c, src)
           data == d.cols[<<t, src>>].data
<1>1. /\ s.verb = "UPDATE" /\ s.table = t /\ s.col = c /\ s.to = src
      /\ s.words \subseteq {"UPDATE", "TYPE"}
  <2>1. s = Stmt("UPDATE", t, c, src, None, {})
    BY DEF CopyColumn
  <2> HIDE DEF s
  <2>2. s.words = {} \cup NameWords(c)
    BY <2>1 DEF Stmt
  <2>3. s.words \subseteq {"UPDATE", "TYPE"}
    BY <2>2, NoWords
  <2> QED BY <2>1, <2>3 DEF Stmt
<1> HIDE DEF s
<1>2. CanRun(d, s) /\ e = Change(d, s) /\ ~Has(s, "WHERE NULL") /\ ~Has(s, "CAST")
  BY <1>1, Unconditional DEF s, Has
<1>3. t \in DOMAIN d.tables /\ <<t, src>> \in DOMAIN d.cols
  BY <1>1, <1>2 DEF CanRun, UpdateConverts
<1>4. e = SetCols(d, With(d.cols, <<t, c>>, Column(data, d.cols[<<t, c>>].type)))
  BY <1>1, <1>2 DEF Change
<1> HIDE DEF data
<1>5. /\ WellFormed(e) /\ DOMAIN e.cols = DOMAIN d.cols \cup {<<t, c>>}
      /\ e.cols[<<t, c>>].data = data
      /\ \A k \in DOMAIN d.cols : k # <<t, c>> => e.cols[k] = d.cols[k]
  BY <1>3, <1>4, ColumnSet
<1>6. Held(d) \subseteq Held(e)
  BY <1>5 DEF Held
<1>7. e.cols[<<t, src>>].data \subseteq e.cols[<<t, c>>].data
  BY <1>3, <1>5 DEF data
<1> QED
  BY <1>3, <1>5, <1>6, <1>7

(* So does one with a cast, but for the texts the cast cuts.                *)
Cut(type) == IF type = "narrow" THEN {LongText} ELSE {}

LEMMA CastColumnCopies ==
    ASSUME NEW d, WellFormed(d), NEW t, NEW c, NEW src, NEW y, src # None,
           Executes(d, CastColumn(t, c, src, y)),
           <<t, c>> \in DOMAIN d.cols, d.cols[<<t, c>>].data = {},
           NEW e, e = Effect(d, CastColumn(t, c, src, y))
    PROVE  /\ WellFormed(e) /\ Held(d) \subseteq Held(e) /\ DOMAIN e.cols = DOMAIN d.cols
           /\ <<t, src>> \in DOMAIN d.cols
           /\ e.cols[<<t, src>>].data \ Cut(y) \subseteq e.cols[<<t, c>>].data
<1> DEFINE s == CastColumn(t, c, src, y)
           data == CastOf(d.cols[<<t, src>>].data, y)
<1>1. /\ s.verb = "UPDATE" /\ s.table = t /\ s.col = c /\ s.to = src /\ s.type = y
      /\ s.words \subseteq {"UPDATE", "TYPE", "CAST"} /\ "CAST" \in s.words
  <2>1. s = Stmt("UPDATE", t, c, src, y, {"CAST"})
    BY DEF CastColumn
  <2> HIDE DEF s
  <2>2. s.words = {"CAST"} \cup NameWords(c)
    BY <2>1 DEF Stmt
  <2>3. s.words \subseteq {"UPDATE", "TYPE", "CAST"} /\ "CAST" \in s.words
    BY <2>2, NoWords
  <2> QED BY <2>1, <2>3 DEF Stmt
<1> HIDE DEF s
<1>2. CanRun(d, s) /\ e = Change(d, s) /\ ~Has(s, "WHERE NULL") /\ Has(s, "CAST")
  BY <1>1, Unconditional DEF s, Has
<1>3. t \in DOMAIN d.tables /\ <<t, src>> \in DOMAIN d.cols
  BY <1>1, <1>2 DEF CanRun, UpdateConverts
<1>4. e = SetCols(d, With(d.cols, <<t, c>>, Column(data, d.cols[<<t, c>>].type)))
  BY <1>1, <1>2 DEF Change
<1> HIDE DEF data
<1>5. /\ WellFormed(e) /\ DOMAIN e.cols = DOMAIN d.cols \cup {<<t, c>>}
      /\ e.cols[<<t, c>>].data = data
      /\ \A k \in DOMAIN d.cols : k # <<t, c>> => e.cols[k] = d.cols[k]
  BY <1>3, <1>4, ColumnSet
<1>6. Held(d) \subseteq Held(e)
  BY <1>5 DEF Held
<1>7. e.cols[<<t, src>>].data \ Cut(y) \subseteq e.cols[<<t, c>>].data
  <2>1. CASE src = c
    BY <2>1
  <2>2. CASE src # c
    <3>1. e.cols[<<t, src>>] = d.cols[<<t, src>>]
      BY <1>3, <1>5, <2>2
    <3>2. d.cols[<<t, src>>].data \ Cut(y) \subseteq data
      BY DEF data, CastOf, Shortened, Cut
    <3> QED BY <1>5, <3>1, <3>2
  <2> QED BY <2>1, <2>2
<1> QED
  BY <1>3, <1>5, <1>6, <1>7

(* A placeholder goes only where nothing is.                                *)
LEMMA FillColumnFills ==
    ASSUME NEW d, WellFormed(d), NEW t, NEW c, Executes(d, FillColumn(t, c)),
           NEW e, e = Effect(d, FillColumn(t, c))
    PROVE  WellFormed(e) /\ Held(d) \subseteq Held(e)
<1> DEFINE s == FillColumn(t, c)
           old == d.cols[<<t, c>>].data
           data == IF old = {} /\ d.tables[t] THEN {"fill"} ELSE old
<1>1. /\ s.verb = "UPDATE" /\ s.table = t /\ s.col = c /\ s.to = None
      /\ s.words \subseteq {"UPDATE", "TYPE"}
  <2>1. s = Stmt("UPDATE", t, c, None, None, {})
    BY DEF FillColumn
  <2> HIDE DEF s
  <2>2. s.words = {} \cup NameWords(c)
    BY <2>1 DEF Stmt
  <2>3. s.words \subseteq {"UPDATE", "TYPE"}
    BY <2>2, NoWords
  <2> QED BY <2>1, <2>3 DEF Stmt
<1> HIDE DEF s
<1>2. CanRun(d, s) /\ e = Change(d, s) /\ ~Has(s, "WHERE NULL") /\ ~Has(s, "CAST")
  BY <1>1, Unconditional DEF s, Has
<1>3. t \in DOMAIN d.tables
  BY <1>1, <1>2 DEF CanRun
<1>4. e = SetCols(d, With(d.cols, <<t, c>>, Column(data, d.cols[<<t, c>>].type)))
  BY <1>1, <1>2 DEF Change
<1>5. old \subseteq data
  OBVIOUS
<1> HIDE DEF data
<1>6. /\ WellFormed(e) /\ DOMAIN e.cols = DOMAIN d.cols \cup {<<t, c>>}
      /\ e.cols[<<t, c>>].data = data
      /\ \A k \in DOMAIN d.cols : k # <<t, c>> => e.cols[k] = d.cols[k]
  BY <1>3, <1>4, ColumnSet
<1>7. Held(d) \subseteq Held(e)
  BY <1>5, <1>6 DEF Held
<1> QED
  BY <1>6, <1>7

(* A column may go when another one holds its data.                         *)
LEMMA DropColumnDrops ==
    ASSUME NEW d, WellFormed(d), NEW t, NEW c, Executes(d, DropColumn(t, c)),
           NEW e, e = Effect(d, DropColumn(t, c))
    PROVE  /\ WellFormed(e) /\ e.tables = d.tables /\ DOMAIN e.cols = DOMAIN d.cols \ {<<t, c>>}
           /\ \A k \in DOMAIN d.cols \ {<<t, c>>} : e.cols[k] = d.cols[k]
           /\ \A X : \A k \in DOMAIN d.cols \ {<<t, c>>} :
                d.cols[<<t, c>>].data \ X \subseteq d.cols[k].data => Held(d) \ X \subseteq Held(e)
<1> DEFINE s == DropColumn(t, c)
           cs == Without(d.cols, {<<t, c>>})
<1>1. s.verb = "DROP COLUMN" /\ s.table = t /\ s.col = c /\ s.words \subseteq {"UPDATE", "TYPE"}
  <2>1. s = Stmt("DROP COLUMN", t, c, None, None, {})
    BY DEF DropColumn
  <2> HIDE DEF s
  <2>2. s.words = {} \cup NameWords(c)
    BY <2>1 DEF Stmt
  <2>3. s.words \subseteq {"UPDATE", "TYPE"}
    BY <2>2, NoWords
  <2> QED BY <2>1, <2>3 DEF Stmt
<1> HIDE DEF s
<1>2. e = Change(d, s)
  BY <1>1, Unconditional DEF s
<1>3. e = SetCols(d, cs)
  BY <1>1, <1>2 DEF Change
<1>4. /\ DOMAIN cs = DOMAIN d.cols \ {<<t, c>>} /\ cs = [k \in DOMAIN cs |-> cs[k]]
      /\ \A k \in DOMAIN cs : cs[k] = d.cols[k]
  BY DEF Without
<1> HIDE DEF cs
<1>5. e = Database(d.tables, cs, d.indexes, d.types) /\ e.tables = d.tables /\ e.cols = cs
  BY <1>3 DEF SetCols, Database
<1>6. WellFormed(e)
  <2>1. \A k \in DOMAIN cs : /\ k = <<k[1], k[2]>> /\ k[1] \in DOMAIN d.tables
                              /\ cs[k] = Column(cs[k].data, cs[k].type)
    BY <1>4, ColumnsOf
  <2> QED BY <1>4, <1>5, <2>1, Formed
<1>7. ASSUME NEW X, NEW k \in DOMAIN d.cols \ {<<t, c>>},
             d.cols[<<t, c>>].data \ X \subseteq d.cols[k].data
      PROVE  Held(d) \ X \subseteq Held(e)
  BY <1>4, <1>5, <1>7 DEF Held
<1> QED
  BY <1>4, <1>5, <1>6, <1>7

LEMMA DropColumnFinds ==
    ASSUME NEW d, NEW t, NEW c, Executes(d, DropColumn(t, c))
    PROVE  <<t, c>> \in DOMAIN d.cols
<1> DEFINE s == DropColumn(t, c)
<1>1. s.verb = "DROP COLUMN" /\ s.table = t /\ s.col = c /\ s.words \subseteq {"UPDATE", "TYPE"}
  <2>1. s = Stmt("DROP COLUMN", t, c, None, None, {})
    BY DEF DropColumn
  <2> HIDE DEF s
  <2>2. s.words = {} \cup NameWords(c)
    BY <2>1 DEF Stmt
  <2>3. s.words \subseteq {"UPDATE", "TYPE"}
    BY <2>2, NoWords
  <2> QED BY <2>1, <2>3 DEF Stmt
<1> HIDE DEF s
<1>2. CanRun(d, s)
  BY <1>1, Unconditional DEF s
<1> QED
  BY <1>1, <1>2 DEF CanRun

LEMMA RenameColumnRenames ==
    ASSUME NEW d, WellFormed(d), NEW t, NEW c, NEW n, Executes(d, RenameColumn(t, c, n)),
           NEW e, e = Effect(d, RenameColumn(t, c, n))
    PROVE  /\ <<t, c>> \in DOMAIN d.cols
           /\ WellFormed(e) /\ Held(d) \subseteq Held(e)
<1> DEFINE s == RenameColumn(t, c, n)
           cs == With(Without(d.cols, {<<t, c>>}), <<t, n>>, d.cols[<<t, c>>])
<1>1. /\ s.verb = "RENAME COLUMN" /\ s.table = t /\ s.col = c /\ s.to = n
      /\ s.words \subseteq {"UPDATE", "TYPE"}
  <2>1. s = Stmt("RENAME COLUMN", t, c, n, None, NameWords(n))
    BY DEF RenameColumn
  <2> HIDE DEF s
  <2>2. s.words = NameWords(n) \cup NameWords(c)
    BY <2>1 DEF Stmt
  <2>3. s.words \subseteq {"UPDATE", "TYPE"}
    BY <2>2, NoWords
  <2> QED BY <2>1, <2>3 DEF Stmt
<1> HIDE DEF s
<1>2. CanRun(d, s) /\ e = Change(d, s)
  BY <1>1, Unconditional DEF s
<1>3. t \in DOMAIN d.tables /\ <<t, c>> \in DOMAIN d.cols /\ <<t, n>> \notin DOMAIN d.cols
  BY <1>1, <1>2 DEF CanRun
<1>4. e = SetCols(d, cs)
  BY <1>1, <1>2 DEF Change
<1>5. /\ DOMAIN cs = (DOMAIN d.cols \ {<<t, c>>}) \cup {<<t, n>>} /\ cs = [k \in DOMAIN cs |-> cs[k]]
      /\ cs[<<t, n>>] = d.cols[<<t, c>>]
      /\ \A k \in DOMAIN cs : k # <<t, n>> => cs[k] = d.cols[k]
  BY DEF With, Without
<1> HIDE DEF cs
<1>6. e = Database(d.tables, cs, d.indexes, d.types) /\ e.cols = cs
  BY <1>4 DEF SetCols, Database
<1>7. WellFormed(e)
  <2>1. \A k \in DOMAIN cs : k = <<k[1], k[2]>> /\ k[1] \in DOMAIN d.tables
    BY <1>3, <1>5, ColumnsOf
  <2>2. \A k \in DOMAIN cs : cs[k] = Column(cs[k].data, cs[k].type)
    BY <1>3, <1>5, ColumnsOf
  <2> QED BY <1>5, <1>6, <2>1, <2>2, Formed
<1>8. Held(d) \subseteq Held(e)
  BY <1>3, <1>5, <1>6 DEF Held
<1> QED
  BY <1>3, <1>7, <1>8

LEMMA CreateIndexKeeps ==
    ASSUME NEW d, WellFormed(d), NEW t, NEW i, Executes(d, CreateIndex(t, i)),
           NEW e, e = Effect(d, CreateIndex(t, i))
    PROVE  WellFormed(e) /\ Held(d) \subseteq Held(e)
<1>1. CreateIndex(t, i).verb \in AdditiveVerbs
  BY DEF CreateIndex, Stmt, AdditiveVerbs
<1> QED
  BY <1>1, AdditiveKeeps, KeptIsHeld

LEMMA TableAsAdds ==
    ASSUME NEW d, WellFormed(d), NEW t, NEW c, NEW source, Executes(d, TableAs(t, c, source)),
           NEW e, e = Effect(d, TableAs(t, c, source))
    PROVE  /\ WellFormed(e) /\ Held(d) \subseteq Held(e)
           /\ t # source /\ <<t, c>> \in DOMAIN e.cols
<1> DEFINE s == TableAs(t, c, source)
           ts == With(d.tables, t, FALSE)
           cs == With(d.cols, <<t, c>>, Column({}, None))
<1>1. /\ s.verb = "CREATE TABLE AS" /\ s.table = t /\ s.col = c /\ s.to = source /\ s.type = None
      /\ s.words \subseteq {"UPDATE", "TYPE"}
  <2>1. s = Stmt("CREATE TABLE AS", t, c, source, None, {})
    BY DEF TableAs
  <2> HIDE DEF s
  <2>2. s.words = {} \cup NameWords(c)
    BY <2>1 DEF Stmt
  <2>3. s.words \subseteq {"UPDATE", "TYPE"}
    BY <2>2, NoWords
  <2> QED BY <2>1, <2>3 DEF Stmt
<1> HIDE DEF s
<1>2. CanRun(d, s) /\ e = Change(d, s)
  BY <1>1, Unconditional DEF s
<1>3. t \notin DOMAIN d.tables /\ source \in DOMAIN d.tables
  BY <1>1, <1>2 DEF CanRun
<1>4. e = SetTables(d, ts, cs)
  BY <1>1, <1>2 DEF Change
<1>5. DOMAIN ts = DOMAIN d.tables \cup {t}
  BY DEF With
<1>6. <<t, c>> \in DOMAIN cs
  BY DEF With
<1> HIDE DEF ts
<1>7. <<t, c>> \notin DOMAIN d.cols
  BY <1>3, ColumnsOf
<1>8. WellFormed(e) /\ Kept(d, e)
  BY <1>4, <1>5, <1>7, WithColumn
<1> HIDE DEF cs
<1>9. e.cols = cs
  BY <1>4 DEF SetTables, Database
<1> QED
  BY <1>3, <1>6, <1>8, <1>9, KeptIsHeld

LEMMA InsertSelectCopies ==
    ASSUME NEW d, WellFormed(d), NEW t, NEW source, t # source, Executes(d, InsertSelect(t, source)),
           NEW e, e = Effect(d, InsertSelect(t, source))
    PROVE  /\ WellFormed(e) /\ Held(d) \subseteq Held(e) /\ DOMAIN e.cols = DOMAIN d.cols
           /\ \A c : <<t, c>> \in DOMAIN d.cols /\ <<source, c>> \in DOMAIN d.cols
                       => e.cols[<<source, c>>].data \subseteq e.cols[<<t, c>>].data
<1> DEFINE s == InsertSelect(t, source)
           ts == With(d.tables, t, d.tables[t] \/ d.tables[source])
           cs == [c \in DOMAIN d.cols |->
                    IF c[1] = t /\ <<source, c[2]>> \in DOMAIN d.cols
                    THEN Column(d.cols[c].data \cup d.cols[<<source, c[2]>>].data, d.cols[c].type)
                    ELSE d.cols[c]]
<1>1. /\ s.verb = "INSERT SELECT" /\ s.table = t /\ s.to = source
      /\ s.words \subseteq {"UPDATE", "TYPE"}
  <2>1. s = Stmt("INSERT SELECT", t, None, source, None, {})
    BY DEF InsertSelect
  <2> HIDE DEF s
  <2>2. s.words = {} \cup NameWords(None)
    BY <2>1 DEF Stmt
  <2>3. s.words \subseteq {"UPDATE", "TYPE"}
    BY <2>2, NoWords
  <2> QED BY <2>1, <2>3 DEF Stmt
<1> HIDE DEF s
<1>2. e = Change(d, s)
  BY <1>1, Unconditional DEF s
<1>3. e = SetTables(d, ts, cs)
  BY <1>1, <1>2 DEF Change
<1>4. DOMAIN d.tables \subseteq DOMAIN ts
  BY DEF With
<1>5. /\ DOMAIN cs = DOMAIN d.cols /\ cs = [k \in DOMAIN cs |-> cs[k]]
      /\ \A c \in DOMAIN cs :
           cs[c] = IF c[1] = t /\ <<source, c[2]>> \in DOMAIN d.cols
                   THEN Column(d.cols[c].data \cup d.cols[<<source, c[2]>>].data, d.cols[c].type)
                   ELSE d.cols[c]
  OBVIOUS
<1> HIDE DEF ts, cs
<1>6. e = Database(ts, cs, d.indexes, d.types) /\ e.cols = cs
  BY <1>3 DEF SetTables, Database
<1>7. ASSUME NEW c \in DOMAIN cs
      PROVE  cs[c] = Column(cs[c].data, cs[c].type) /\ d.cols[c].data \subseteq cs[c].data
  <2>1. CASE c[1] = t /\ <<source, c[2]>> \in DOMAIN d.cols
    <3>1. cs[c] = Column(d.cols[c].data \cup d.cols[<<source, c[2]>>].data, d.cols[c].type)
      BY <1>5, <2>1
    <3> QED BY <3>1, ColumnIs
  <2>2. CASE ~(c[1] = t /\ <<source, c[2]>> \in DOMAIN d.cols)
    <3>1. cs[c] = d.cols[c] /\ c \in DOMAIN d.cols
      BY <1>5, <2>2
    <3> QED BY <3>1, ColumnsOf
  <2> QED BY <2>1, <2>2
<1>8. WellFormed(e)
  <2>1. \A k \in DOMAIN cs : k = <<k[1], k[2]>> /\ k[1] \in DOMAIN ts
    BY <1>4, <1>5, ColumnsOf
  <2> QED BY <1>5, <1>6, <1>7, <2>1, Formed
<1>9. Held(d) \subseteq Held(e)
  BY <1>5, <1>6, <1>7 DEF Held
<1>10. ASSUME NEW c, <<t, c>> \in DOMAIN d.cols, <<source, c>> \in DOMAIN d.cols
       PROVE  e.cols[<<source, c>>].data \subseteq e.cols[<<t, c>>].data
  <2>1. cs[<<source, c>>] = d.cols[<<source, c>>]
    BY <1>5, <1>10
  <2>2. cs[<<t, c>>] = Column(d.cols[<<t, c>>].data \cup d.cols[<<source, c>>].data, d.cols[<<t, c>>].type)
    BY <1>5, <1>10
  <2> QED BY <1>6, <2>1, <2>2, ColumnIs
<1> QED
  BY <1>5, <1>6, <1>8, <1>9, <1>10
-----------------------------------------------------------------------------
(* The phases of the intents.                                               *)

StatementsOf(phase) == [k \in DOMAIN phase.operations |-> phase.operations[k].sql]

LEMMA OneOperation ==
    ASSUME NEW p, NEW o, p.operations = <<o>>
    PROVE  StatementsOf(p) = <<o.sql>>
BY DEF StatementsOf

LEMMA TwoOperations ==
    ASSUME NEW p, NEW o, NEW q, p.operations = <<o, q>>
    PROVE  StatementsOf(p) = <<o.sql, q.sql>>
BY DEF StatementsOf

LEMMA SqlOf ==
    ASSUME NEW i, NEW s, NEW n
    PROVE  /\ Do(s, n).sql = s
           /\ DoApproved(s, n).sql = s
           /\ Backfill(i, s, n).sql = s
           /\ [Backfill(i, s, n) EXCEPT !.approval = FALSE].sql = s
           /\ [Backfill(i, s, n) EXCEPT !.type = "SQL"].sql = s
BY DEF Do, DoApproved, Backfill

LEMMA PhaseFields ==
    ASSUME NEW ops, NEW back, NEW after
    PROVE  /\ Expand(ops, back).operations = ops /\ Expand(ops, back).rollback = back
           /\ DataPhase(ops, back).operations = ops
           /\ Contract(after, ops, back).operations = ops
BY DEF Expand, DataPhase, Contract, IntentPhase

(* What the phases of one intent run, in their order.                       *)
LEMMA RenamePhases ==
    ASSUME NEW i
    PROVE  /\ Len(TranslateRenameColumn(i)) = 3
           /\ StatementsOf(TranslateRenameColumn(i)[1]) = <<AddColumn(i.table, i.new, "varchar")>>
           /\ StatementsOf(TranslateRenameColumn(i)[2]) = <<CopyColumn(i.table, i.new, i.column)>>
           /\ StatementsOf(TranslateRenameColumn(i)[3]) = <<DropColumn(i.table, i.column)>>
<1>1. TranslateRenameColumn(i)[1].operations = <<Do(AddColumn(i.table, i.new, "varchar"), 5)>>
  BY PhaseFields DEF TranslateRenameColumn
<1>2. TranslateRenameColumn(i)[2].operations
        = <<Backfill(i, CopyColumn(i.table, i.new, i.column), 300)>>
  BY PhaseFields DEF TranslateRenameColumn
<1>3. TranslateRenameColumn(i)[3].operations = <<DoApproved(DropColumn(i.table, i.column), 5)>>
  BY PhaseFields DEF TranslateRenameColumn
<1>4. Len(TranslateRenameColumn(i)) = 3
  BY DEF TranslateRenameColumn
<1> QED
  BY <1>1, <1>2, <1>3, <1>4, OneOperation, SqlOf

LEMMA ChangeTypePhases ==
    ASSUME NEW i
    PROVE  /\ Len(TranslateChangeColumnType(i)) = 3
           /\ StatementsOf(TranslateChangeColumnType(i)[1]) = <<AddColumn(i.table, TempColumn, i.new)>>
           /\ StatementsOf(TranslateChangeColumnType(i)[2])
                = <<CastColumn(i.table, TempColumn, i.column, i.new)>>
           /\ StatementsOf(TranslateChangeColumnType(i)[3])
                = <<DropColumn(i.table, i.column), RenameColumn(i.table, TempColumn, i.column)>>
<1>1. TranslateChangeColumnType(i)[1].operations = <<Do(AddColumn(i.table, TempColumn, i.new), 5)>>
  BY PhaseFields DEF TranslateChangeColumnType
<1>2. TranslateChangeColumnType(i)[2].operations
        = <<Backfill(i, CastColumn(i.table, TempColumn, i.column, i.new), 600)>>
  BY PhaseFields DEF TranslateChangeColumnType
<1>3. TranslateChangeColumnType(i)[3].operations
        = <<DoApproved(DropColumn(i.table, i.column), 5),
            Do(RenameColumn(i.table, TempColumn, i.column), 5)>>
  BY PhaseFields DEF TranslateChangeColumnType
<1>4. Len(TranslateChangeColumnType(i)) = 3
  BY DEF TranslateChangeColumnType
<1>5. StatementsOf(TranslateChangeColumnType(i)[3])
        = <<DropColumn(i.table, i.column), RenameColumn(i.table, TempColumn, i.column)>>
  <2> DEFINE o == DoApproved(DropColumn(i.table, i.column), 5)
             q == Do(RenameColumn(i.table, TempColumn, i.column), 5)
  <2>1. o.sql = DropColumn(i.table, i.column) /\ q.sql = RenameColumn(i.table, TempColumn, i.column)
    BY SqlOf
  <2>2. StatementsOf(TranslateChangeColumnType(i)[3]) = <<o.sql, q.sql>>
    BY <1>3, TwoOperations
  <2> HIDE DEF o, q
  <2> QED BY <2>1, <2>2
<1> QED
  BY <1>1, <1>2, <1>4, <1>5, OneOperation, SqlOf

LEMMA AddColumnPhases ==
    ASSUME NEW i
    PROVE  /\ Len(TranslateAddColumn(i)) \in {1, 2}
           /\ StatementsOf(TranslateAddColumn(i)[1]) = <<AddColumn(i.table, i.column, i.new)>>
           /\ Len(TranslateAddColumn(i)) = 2 =>
                StatementsOf(TranslateAddColumn(i)[2]) = <<FillColumn(i.table, i.column)>>
<1> DEFINE first == Expand(<<Do(AddColumn(i.table, i.column, i.new), 5)>>,
                           <<DropColumn(i.table, i.column)>>)
           fill == [Backfill(i, FillColumn(i.table, i.column), 120) EXCEPT !.approval = FALSE]
           second == DataPhase(<<fill>>, <<ClearColumn(i.table, i.column)>>)
<1>1. TranslateAddColumn(i) = <<first>> \o (IF ~i.backfill THEN <<>> ELSE <<second>>)
  BY DEF TranslateAddColumn
<1>2. first.operations = <<Do(AddColumn(i.table, i.column, i.new), 5)>>
  BY PhaseFields
<1>3. StatementsOf(first) = <<AddColumn(i.table, i.column, i.new)>>
  BY <1>2, OneOperation, SqlOf
<1>4. fill.sql = FillColumn(i.table, i.column)
  BY SqlOf
<1> HIDE DEF fill
<1>5. StatementsOf(second) = <<FillColumn(i.table, i.column)>>
  <2>1. second.operations = <<fill>>
    BY PhaseFields
  <2> QED BY <1>4, <2>1, OneOperation
<1> HIDE DEF first, second
<1>6. /\ Len(TranslateAddColumn(i)) \in {1, 2} /\ TranslateAddColumn(i)[1] = first
      /\ Len(TranslateAddColumn(i)) = 2 => TranslateAddColumn(i)[2] = second
  <2>1. CASE ~i.backfill
    <3>1. TranslateAddColumn(i) = <<first>> \o <<>>
      BY <1>1, <2>1
    <3>2. Len(<<first>> \o <<>>) = 1 /\ (<<first>> \o <<>>)[1] = first
      OBVIOUS
    <3> QED BY <3>1, <3>2
  <2>2. CASE i.backfill
    <3>1. TranslateAddColumn(i) = <<first>> \o <<second>>
      BY <1>1, <2>2
    <3>2. /\ Len(<<first>> \o <<second>>) = 2
          /\ (<<first>> \o <<second>>)[1] = first /\ (<<first>> \o <<second>>)[2] = second
      OBVIOUS
    <3> QED BY <3>1, <3>2
  <2> QED BY <2>1, <2>2
<1> QED
  BY <1>3, <1>5, <1>6

LEMMA AddIndexPhases ==
    ASSUME NEW i
    PROVE  /\ Len(TranslateAddIndex(i)) = 1
           /\ StatementsOf(TranslateAddIndex(i)[1]) = <<CreateIndex(i.table, i.column)>>
<1> DEFINE create == [Backfill(i, CreateIndex(i.table, i.column), 60) EXCEPT !.type = "SQL"]
<1>1. TranslateAddIndex(i)[1].operations = <<create>>
  BY PhaseFields DEF TranslateAddIndex
<1>2. Len(TranslateAddIndex(i)) = 1
  BY DEF TranslateAddIndex
<1>3. create.sql = CreateIndex(i.table, i.column)
  BY SqlOf
<1> HIDE DEF create
<1> QED
  BY <1>1, <1>2, <1>3, OneOperation

LEMMA SplitPhases ==
    ASSUME NEW i
    PROVE  /\ Len(TranslateSplitTable(i)) = 3
           /\ StatementsOf(TranslateSplitTable(i)[1]) = <<TableAs(i.new, i.column, i.table)>>
           /\ StatementsOf(TranslateSplitTable(i)[2]) = <<InsertSelect(i.new, i.table)>>
           /\ StatementsOf(TranslateSplitTable(i)[3]) = <<DropColumn(i.table, i.column)>>
<1>1. TranslateSplitTable(i)[1].operations = <<Do(TableAs(i.new, i.column, i.table), 10)>>
  BY PhaseFields DEF TranslateSplitTable
<1>2. TranslateSplitTable(i)[2].operations = <<Backfill(i, InsertSelect(i.new, i.table), 300)>>
  BY PhaseFields DEF TranslateSplitTable
<1>3. TranslateSplitTable(i)[3].operations = <<DoApproved(DropColumn(i.table, i.column), 10)>>
  BY PhaseFields DEF TranslateSplitTable
<1>4. Len(TranslateSplitTable(i)) = 3
  BY DEF TranslateSplitTable
<1> QED
  BY <1>1, <1>2, <1>3, <1>4, OneOperation, SqlOf
-----------------------------------------------------------------------------
(* What the phases of an intent leave for the next one: the column the data *)
(* goes to is there and empty, then it holds the data of the old one.       *)
Copying(n, d, old, new, X) ==
    /\ n = 0 => DOMAIN IntentBase.cols \subseteq DOMAIN d.cols
    /\ n \in {1, 2} => new \in DOMAIN d.cols \ DOMAIN IntentBase.cols
    /\ n = 1 => d.cols[new].data = {}
    /\ n = 2 /\ old \in DOMAIN d.cols => d.cols[old].data \ X \subseteq d.cols[new].data

Splitting(n, d, old, new, X) ==
    /\ n \in {1, 2} => new \in DOMAIN d.cols /\ new[1] # old[1]
    /\ n = 2 /\ old \in DOMAIN d.cols => d.cols[old].data \ X \subseteq d.cols[new].data

Prepared(i, n, d) ==
    /\ i.type = "RENAME_COLUMN" => Copying(n, d, <<i.table, i.column>>, <<i.table, i.new>>, Exempt(i))
    /\ i.type = "CHANGE_COLUMN_TYPE" =>
         Copying(n, d, <<i.table, i.column>>, <<i.table, TempColumn>>, Exempt(i))
    /\ i.type = "SPLIT_TABLE" => Splitting(n, d, <<i.table, i.column>>, <<i.new, i.column>>, Exempt(i))

(* e comes from d and no value but those of X is gone. *)
Safe(X, d, e) == WellFormed(e) /\ Held(d) \ X \subseteq Held(e)

(* the result of a phase *)
RunOf(d, phase) == Script(d, StatementsOf(phase))[Len(StatementsOf(phase))]

LEMMA OneStatementPhase ==
    ASSUME NEW d, NEW p, NEW s, StatementsOf(p) = <<s>>, RunOf(d, p).ok
    PROVE  Executes(d, s) /\ RunOf(d, p).db = Effect(d, s)
BY OneStatement DEF RunOf

LEMMA RenameStep ==
    ASSUME NEW X, NEW d, WellFormed(d), NEW i, i.column # None, i.column # i.new, NEW n \in 0 .. 2,
           Copying(n, d, <<i.table, i.column>>, <<i.table, i.new>>, X),
           NEW p, p = TranslateRenameColumn(i)[n + 1], RunOf(d, p).ok,
           NEW e, e = RunOf(d, p).db
    PROVE  Safe(X, d, e) /\ Copying(n + 1, e, <<i.table, i.column>>, <<i.table, i.new>>, X)
<1> DEFINE t == i.table
           old == <<t, i.column>>
           new == <<t, i.new>>
<1>1. CASE n = 0
  <2>1. StatementsOf(p) = <<AddColumn(t, i.new, "varchar")>>
    BY <1>1, RenamePhases
  <2>2. Executes(d, AddColumn(t, i.new, "varchar")) /\ e = Effect(d, AddColumn(t, i.new, "varchar"))
    BY <2>1, OneStatementPhase
  <2>3. /\ WellFormed(e) /\ Held(d) \subseteq Held(e)
        /\ new \in DOMAIN e.cols \ DOMAIN d.cols /\ e.cols[new].data = {}
    BY <2>2, AddColumnAdds
  <2> QED BY <1>1, <2>3 DEF Safe, Copying
<1>2. CASE n = 1
  <2>1. StatementsOf(p) = <<CopyColumn(t, i.new, i.column)>>
    BY <1>2, RenamePhases
  <2>2. Executes(d, CopyColumn(t, i.new, i.column)) /\ e = Effect(d, CopyColumn(t, i.new, i.column))
    BY <2>1, OneStatementPhase
  <2>3. new \in DOMAIN d.cols \ DOMAIN IntentBase.cols /\ d.cols[new].data = {}
    BY <1>2 DEF Copying
  <2>4. /\ WellFormed(e) /\ Held(d) \subseteq Held(e) /\ DOMAIN e.cols = DOMAIN d.cols
        /\ e.cols[old].data \subseteq e.cols[new].data
    BY <2>2, <2>3, CopyColumnCopies
  <2> QED BY <1>2, <2>3, <2>4 DEF Safe, Copying
<1>3. CASE n = 2
  <2>1. StatementsOf(p) = <<DropColumn(t, i.column)>>
    BY <1>3, RenamePhases
  <2>2. Executes(d, DropColumn(t, i.column)) /\ e = Effect(d, DropColumn(t, i.column))
    BY <2>1, OneStatementPhase
  <2>3. new \in DOMAIN d.cols \ {old}
    BY <1>3 DEF Copying
  <2>4. /\ WellFormed(e)
        /\ d.cols[old].data \ X \subseteq d.cols[new].data => Held(d) \ X \subseteq Held(e)
    BY <2>2, <2>3, DropColumnDrops
  <2>5. old \in DOMAIN d.cols
    BY <2>2, DropColumnFinds
  <2> QED BY <1>3, <2>4, <2>5 DEF Safe, Copying
<1> QED
  BY <1>1, <1>2, <1>3

LEMMA ChangeTypeStep ==
    ASSUME NEW X, NEW d, WellFormed(d), NEW i, i.column # None, Cut(i.new) \subseteq X, NEW n \in 0 .. 2,
           Copying(n, d, <<i.table, i.column>>, <<i.table, TempColumn>>, X),
           NEW p, p = TranslateChangeColumnType(i)[n + 1], RunOf(d, p).ok,
           NEW e, e = RunOf(d, p).db
    PROVE  Safe(X, d, e) /\ Copying(n + 1, e, <<i.table, i.column>>, <<i.table, TempColumn>>, X)
<1> DEFINE t == i.table
           old == <<t, i.column>>
           new == <<t, TempColumn>>
<1>1. CASE n = 0
  <2>0. p = TranslateChangeColumnType(i)[1]
    BY <1>1
  <2>1. StatementsOf(p) = <<AddColumn(t, TempColumn, i.new)>>
    BY <2>0, ChangeTypePhases
  <2>2. Executes(d, AddColumn(t, TempColumn, i.new)) /\ e = Effect(d, AddColumn(t, TempColumn, i.new))
    BY <2>1, OneStatementPhase
  <2>3. /\ WellFormed(e) /\ Held(d) \subseteq Held(e)
        /\ new \in DOMAIN e.cols \ DOMAIN d.cols /\ e.cols[new].data = {}
    BY <2>2, AddColumnAdds
  <2> QED BY <1>1, <2>3 DEF Safe, Copying
<1>2. CASE n = 1
  <2>0. p = TranslateChangeColumnType(i)[2]
    BY <1>2
  <2>1. StatementsOf(p) = <<CastColumn(t, TempColumn, i.column, i.new)>>
    BY <2>0, ChangeTypePhases
  <2>2. /\ Executes(d, CastColumn(t, TempColumn, i.column, i.new))
        /\ e = Effect(d, CastColumn(t, TempColumn, i.column, i.new))
    BY <2>1, OneStatementPhase
  <2>3. new \in DOMAIN d.cols \ DOMAIN IntentBase.cols /\ d.cols[new].data = {}
    BY <1>2 DEF Copying
  <2>4. /\ WellFormed(e) /\ Held(d) \subseteq Held(e) /\ DOMAIN e.cols = DOMAIN d.cols
        /\ e.cols[old].data \ Cut(i.new) \subseteq e.cols[new].data
    BY <2>2, <2>3, CastColumnCopies
  <2> QED BY <1>2, <2>3, <2>4 DEF Safe, Copying
<1>3. CASE n = 2
  <2> DEFINE s == DropColumn(t, i.column)
             u == RenameColumn(t, TempColumn, i.column)
             m == Effect(d, s)
  <2>0. p = TranslateChangeColumnType(i)[3]
    BY <1>3
  <2>1. StatementsOf(p) = <<s, u>>
    BY <2>0, ChangeTypePhases
  <2>2. Executes(d, s) /\ Executes(m, u) /\ e = Effect(m, u)
    <3> HIDE DEF s, u
    <3> QED BY <2>1, TwoStatements DEF RunOf
  <2>3. /\ WellFormed(m) /\ DOMAIN m.cols = DOMAIN d.cols \ {old} /\ old \in DOMAIN d.cols
        /\ \A k \in DOMAIN d.cols \ {old} :
             d.cols[old].data \ X \subseteq d.cols[k].data => Held(d) \ X \subseteq Held(m)
    BY <2>2, DropColumnDrops, DropColumnFinds
  <2>4. new \in DOMAIN m.cols /\ WellFormed(e) /\ Held(m) \subseteq Held(e)
    BY <2>2, <2>3, RenameColumnRenames
  <2>5. d.cols[old].data \ X \subseteq d.cols[new].data
    BY <1>3, <2>3 DEF Copying
  <2>6. Held(d) \ X \subseteq Held(m)
    BY <2>3, <2>4, <2>5
  <2> QED BY <1>3, <2>4, <2>6 DEF Safe, Copying
<1> QED
  BY <1>1, <1>2, <1>3

LEMMA SplitStep ==
    ASSUME NEW X, NEW d, WellFormed(d), NEW i, NEW n \in 0 .. 2,
           Splitting(n, d, <<i.table, i.column>>, <<i.new, i.column>>, X),
           NEW p, p = TranslateSplitTable(i)[n + 1], RunOf(d, p).ok,
           NEW e, e = RunOf(d, p).db
    PROVE  Safe(X, d, e) /\ Splitting(n + 1, e, <<i.table, i.column>>, <<i.new, i.column>>, X)
<1> DEFINE t == i.table
           old == <<t, i.column>>
           new == <<i.new, i.column>>
<1>1. CASE n = 0
  <2>0. p = TranslateSplitTable(i)[1]
    BY <1>1
  <2>1. StatementsOf(p) = <<TableAs(i.new, i.column, t)>>
    BY <2>0, SplitPhases
  <2>2. Executes(d, TableAs(i.new, i.column, t)) /\ e = Effect(d, TableAs(i.new, i.column, t))
    BY <2>1, OneStatementPhase
  <2>3. /\ WellFormed(e) /\ Held(d) \subseteq Held(e)
        /\ i.new # t /\ new \in DOMAIN e.cols
    BY <2>2, TableAsAdds
  <2> QED BY <1>1, <2>3 DEF Safe, Splitting
<1>2. CASE n = 1
  <2>0. p = TranslateSplitTable(i)[2]
    BY <1>2
  <2>1. StatementsOf(p) = <<InsertSelect(i.new, t)>>
    BY <2>0, SplitPhases
  <2>2. Executes(d, InsertSelect(i.new, t)) /\ e = Effect(d, InsertSelect(i.new, t))
    BY <2>1, OneStatementPhase
  <2>3. new \in DOMAIN d.cols /\ i.new # t
    BY <1>2 DEF Splitting
  <2>4. /\ WellFormed(e) /\ Held(d) \subseteq Held(e) /\ DOMAIN e.cols = DOMAIN d.cols
        /\ old \in DOMAIN d.cols => e.cols[old].data \subseteq e.cols[new].data
    BY <2>2, <2>3, InsertSelectCopies
  <2> QED BY <1>2, <2>3, <2>4 DEF Safe, Splitting
<1>3. CASE n = 2
  <2>0. p = TranslateSplitTable(i)[3]
    BY <1>3
  <2>1. StatementsOf(p) = <<DropColumn(t, i.column)>>
    BY <2>0, SplitPhases
  <2>2. Executes(d, DropColumn(t, i.column)) /\ e = Effect(d, DropColumn(t, i.column))
    BY <2>1, OneStatementPhase
  <2>3. new \in DOMAIN d.cols \ {old}
    BY <1>3 DEF Splitting
  <2>4. /\ WellFormed(e)
        /\ d.cols[old].data \ X \subseteq d.cols[new].data => Held(d) \ X \subseteq Held(e)
    BY <2>2, <2>3, DropColumnDrops
  <2>5. old \in DOMAIN d.cols
    BY <2>2, DropColumnFinds
  <2> QED BY <1>3, <2>4, <2>5 DEF Safe, Splitting
<1> QED
  BY <1>1, <1>2, <1>3

LEMMA AddStep ==
    ASSUME NEW X, NEW d, WellFormed(d), NEW i, NEW n \in Nat, n < Len(TranslateAddColumn(i)),
           NEW p, p = TranslateAddColumn(i)[n + 1], RunOf(d, p).ok,
           NEW e, e = RunOf(d, p).db
    PROVE  Safe(X, d, e)
<1>0. Len(TranslateAddColumn(i)) = 1 \/ Len(TranslateAddColumn(i)) = 2
  BY AddColumnPhases
<1>1. CASE n = 0
  <2> DEFINE t == i.table
             c == i.column
             y == i.new
  <2>1. StatementsOf(p) = <<AddColumn(t, c, y)>>
    BY <1>1, AddColumnPhases
  <2> HIDE DEF t, c, y
  <2>2. Executes(d, AddColumn(t, c, y)) /\ e = Effect(d, AddColumn(t, c, y))
    BY <2>1, OneStatementPhase
  <2>3. WellFormed(e) /\ Held(d) \subseteq Held(e) /\ <<t, c>> \in DOMAIN e.cols
    BY <2>2, AddColumnAdds
  <2> QED BY <2>3 DEF Safe
<1>2. CASE n = 1
  <2>0. Len(TranslateAddColumn(i)) = 2
    BY <1>0, <1>2
  <2>1. StatementsOf(p) = <<FillColumn(i.table, i.column)>>
    BY <1>2, <2>0, AddColumnPhases
  <2>2. Executes(d, FillColumn(i.table, i.column)) /\ e = Effect(d, FillColumn(i.table, i.column))
    BY <2>1, OneStatementPhase
  <2> QED BY <2>2, FillColumnFills DEF Safe
<1> QED
  BY <1>0, <1>1, <1>2

LEMMA IndexStep ==
    ASSUME NEW X, NEW d, WellFormed(d), NEW i, NEW n \in Nat, n < Len(TranslateAddIndex(i)),
           NEW p, p = TranslateAddIndex(i)[n + 1], RunOf(d, p).ok,
           NEW e, e = RunOf(d, p).db
    PROVE  Safe(X, d, e)
<1>0. Len(TranslateAddIndex(i)) = 1
  BY AddIndexPhases
<1>1. n = 0
  BY <1>0
<1>2. StatementsOf(p) = <<CreateIndex(i.table, i.column)>>
  BY <1>1, AddIndexPhases
<1>3. Executes(d, CreateIndex(i.table, i.column)) /\ e = Effect(d, CreateIndex(i.table, i.column))
  BY <1>2, OneStatementPhase
<1> QED
  BY <1>3, CreateIndexKeeps DEF Safe
(* The intents governance lets through have a rollback for every phase.     *)
CopiedFirst == {"RENAME_COLUMN", "CHANGE_COLUMN_TYPE", "ADD_COLUMN", "ADD_INDEX", "SPLIT_TABLE"}

Accepted(i) == ParseIntent(i) /\ RunIntentGovernanceChecks(Phases(i))

LEMMA NoRollback ==
    ASSUME NEW phases, Len(phases) \in Nat \ {0}, DOMAIN phases = 1 .. Len(phases),
           phases[1].rollback = <<>>
    PROVE  ~RunIntentGovernanceChecks(phases)
BY DEF RunIntentGovernanceChecks

LEMMA AcceptedTypes == ASSUME NEW i, Accepted(i) PROVE i.type \in CopiedFirst \/ Phases(i) = <<>>
<1>1. CASE i.type \notin IntentTypes
  BY <1>1 DEF Phases, IntentTypes
<1>2. CASE i.type = "DROP_COLUMN"
  <2>1. Phases(i) = TranslateDropColumn(i)
    BY <1>2 DEF Phases
  <2>2. /\ Len(TranslateDropColumn(i)) = 2 /\ DOMAIN TranslateDropColumn(i) = 1 .. 2
        /\ TranslateDropColumn(i)[1].rollback = <<>>
    BY PhaseFields DEF TranslateDropColumn
  <2> QED BY <2>1, <2>2, NoRollback DEF Accepted
<1>3. CASE i.type = "DROP_INDEX"
  <2>1. Phases(i) = TranslateDropIndex(i)
    BY <1>3 DEF Phases
  <2>2. /\ Len(TranslateDropIndex(i)) = 2 /\ DOMAIN TranslateDropIndex(i) = 1 .. 2
        /\ TranslateDropIndex(i)[1].rollback = <<>>
    BY PhaseFields DEF TranslateDropIndex
  <2> QED BY <2>1, <2>2, NoRollback DEF Accepted
<1>4. CASE i.type = "ADD_CONSTRAINT"
  <2>1. Phases(i) = TranslateAddConstraint(i)
    BY <1>4 DEF Phases
  <2>2. /\ Len(TranslateAddConstraint(i)) = 2 /\ DOMAIN TranslateAddConstraint(i) = 1 .. 2
        /\ TranslateAddConstraint(i)[1].rollback = <<>>
    BY PhaseFields DEF TranslateAddConstraint
  <2> QED BY <2>1, <2>2, NoRollback DEF Accepted
<1>5. CASE i.type = "DROP_CONSTRAINT"
  <2>1. Phases(i) = TranslateDropConstraint(i)
    BY <1>5 DEF Phases
  <2>2. /\ Len(TranslateDropConstraint(i)) = 2 /\ DOMAIN TranslateDropConstraint(i) = 1 .. 2
        /\ TranslateDropConstraint(i)[1].rollback = <<>>
    BY PhaseFields DEF TranslateDropConstraint
  <2> QED BY <2>1, <2>2, NoRollback DEF Accepted
<1>6. CASE i.type = "RENAME_TABLE"
  <2>1. Phases(i) = TranslateRenameTable(i)
    BY <1>6 DEF Phases
  <2>2. /\ Len(TranslateRenameTable(i)) = 2 /\ DOMAIN TranslateRenameTable(i) = 1 .. 2
        /\ TranslateRenameTable(i)[1].rollback = <<>>
    BY PhaseFields DEF TranslateRenameTable
  <2> QED BY <2>1, <2>2, NoRollback DEF Accepted
<1>7. CASE i.type = "MERGE_TABLES"
  <2>1. Phases(i) = TranslateMergeTables(i)
    BY <1>7 DEF Phases
  <2>2. /\ Len(TranslateMergeTables(i)) = 3 /\ DOMAIN TranslateMergeTables(i) = 1 .. 3
        /\ TranslateMergeTables(i)[1].rollback = <<>>
    BY PhaseFields DEF TranslateMergeTables
  <2> QED BY <2>1, <2>2, NoRollback DEF Accepted
<1> QED
  BY <1>1, <1>2, <1>3, <1>4, <1>5, <1>6, <1>7 DEF IntentTypes, CopiedFirst

(* One more phase of an accepted intent.                                    *)
LEMMA AcceptedStep ==
    ASSUME NEW d, WellFormed(d), NEW i, Accepted(i), NEW n \in Nat, n < Len(Phases(i)),
           Prepared(i, n, d), RunOf(d, Phases(i)[n + 1]).ok,
           NEW e, e = RunOf(d, Phases(i)[n + 1]).db
    PROVE  Safe(Exempt(i), d, e) /\ Prepared(i, n + 1, e)
<1>6. i.type \in CopiedFirst
  <2>1. ASSUME Phases(i) = <<>> PROVE FALSE
    BY <2>1
  <2> QED BY <2>1, AcceptedTypes
<1>0. i.column # None /\ (i.type = "RENAME_COLUMN" => i.column # i.new)
  BY <1>6 DEF Accepted, ParseIntent, PayloadComplete, NeedsColumn, IntentTypes, CopiedFirst
<1>1. CASE i.type = "RENAME_COLUMN"
  <2>1. Phases(i) = TranslateRenameColumn(i)
    BY <1>1 DEF Phases
  <2>2. n \in 0 .. 2
    <3>1. Len(TranslateRenameColumn(i)) = 3
      BY RenamePhases
    <3> QED BY <2>1, <3>1
  <2>3. Copying(n, d, <<i.table, i.column>>, <<i.table, i.new>>, Exempt(i))
    BY <1>1 DEF Prepared
  <2>4. Safe(Exempt(i), d, e) /\ Copying(n + 1, e, <<i.table, i.column>>, <<i.table, i.new>>, Exempt(i))
    BY <1>0, <1>1, <2>1, <2>2, <2>3, RenameStep
  <2> QED BY <1>1, <2>4 DEF Prepared
<1>2. CASE i.type = "CHANGE_COLUMN_TYPE"
  <2>1. Phases(i) = TranslateChangeColumnType(i)
    BY <1>2 DEF Phases
  <2>2. n \in 0 .. 2
    <3>1. Len(TranslateChangeColumnType(i)) = 3
      BY ChangeTypePhases
    <3> QED BY <2>1, <3>1
  <2>3. Copying(n, d, <<i.table, i.column>>, <<i.table, TempColumn>>, Exempt(i))
    BY <1>2 DEF Prepared
  <2>4. Safe(Exempt(i), d, e) /\ Copying(n + 1, e, <<i.table, i.column>>, <<i.table, TempColumn>>, Exempt(i))
    <3>1. Cut(i.new) \subseteq Exempt(i)
      BY <1>2 DEF Cut, Exempt
    <3> QED BY <1>0, <2>1, <2>2, <2>3, <3>1, ChangeTypeStep
  <2> QED BY <1>2, <2>4 DEF Prepared
<1>3. CASE i.type = "SPLIT_TABLE"
  <2>1. Phases(i) = TranslateSplitTable(i)
    BY <1>3 DEF Phases
  <2>2. n \in 0 .. 2
    <3>1. Len(TranslateSplitTable(i)) = 3
      BY SplitPhases
    <3> QED BY <2>1, <3>1
  <2>3. Splitting(n, d, <<i.table, i.column>>, <<i.new, i.column>>, Exempt(i))
    BY <1>3 DEF Prepared
  <2>4. Safe(Exempt(i), d, e) /\ Splitting(n + 1, e, <<i.table, i.column>>, <<i.new, i.column>>, Exempt(i))
    BY <2>1, <2>2, <2>3, SplitStep
  <2> QED BY <1>3, <2>4 DEF Prepared
<1>4. CASE i.type = "ADD_COLUMN"
  <2>1. Phases(i) = TranslateAddColumn(i)
    BY <1>4 DEF Phases
  <2>2. Safe(Exempt(i), d, e)
    BY <2>1, AddStep
  <2> QED BY <1>4, <2>2 DEF Prepared
<1>5. CASE i.type = "ADD_INDEX"
  <2>1. Phases(i) = TranslateAddIndex(i)
    BY <1>5 DEF Phases
  <2>2. Safe(Exempt(i), d, e)
    BY <2>1, IndexStep
  <2> QED BY <1>5, <2>2 DEF Prepared
<1> QED
  BY <1>1, <1>2, <1>3, <1>4, <1>5, <1>6 DEF CopiedFirst

-----------------------------------------------------------------------------
(* A row more.                                                              *)
WithRow(d, k, v) ==
    SetCols(d, With(d.cols, k, Column(d.cols[k].data \cup {v}, d.cols[k].type)))

LEMMA RowWritten ==
    ASSUME NEW d, WellFormed(d), NEW k \in DOMAIN d.cols, NEW v, NEW e, e = WithRow(d, k, v)
    PROVE  /\ WellFormed(e) /\ Held(d) \cup {v} \subseteq Held(e)
           /\ DOMAIN e.cols = DOMAIN d.cols
           /\ e.cols[k].data = d.cols[k].data \cup {v}
           /\ \A j \in DOMAIN d.cols : j # k => e.cols[j] = d.cols[j]
<1>1. k = <<k[1], k[2]>> /\ k[1] \in DOMAIN d.tables
  BY ColumnsOf
<1> DEFINE data == d.cols[k].data \cup {v}
           type == d.cols[k].type
           t == k[1]
           c == k[2]
<1>2. e = SetCols(d, With(d.cols, <<t, c>>, Column(data, type)))
  BY <1>1 DEF WithRow
<1> HIDE DEF data, type
<1>3. /\ WellFormed(e) /\ DOMAIN e.cols = DOMAIN d.cols \cup {<<t, c>>}
      /\ e.cols[<<t, c>>].data = data
      /\ \A j \in DOMAIN d.cols : j # <<t, c>> => e.cols[j] = d.cols[j]
  BY <1>1, <1>2, ColumnSet
<1>4. /\ DOMAIN e.cols = DOMAIN d.cols /\ e.cols[k].data = data
      /\ \A j \in DOMAIN d.cols : j # k => e.cols[j] = d.cols[j]
  BY <1>1, <1>3
<1>5. \A j \in DOMAIN d.cols : d.cols[j].data \subseteq e.cols[j].data
  BY <1>4 DEF data
<1>6. Held(d) \cup {v} \subseteq Held(e)
  <2>1. v \in e.cols[k].data
    BY <1>4 DEF data
  <2>2. ASSUME NEW j \in DOMAIN d.cols, NEW x \in d.cols[j].data
        PROVE  x \in Held(e)
    BY <1>4, <1>5 DEF Held
  <2>3. Held(d) \subseteq Held(e)
    BY <2>2 DEF Held
  <2>4. v \in Held(e)
    BY <1>4, <2>1 DEF Held
  <2> QED BY <2>3, <2>4
<1> QED
  BY <1>3, <1>4, <1>6 DEF data

(* It stays out of the copy only when it comes too late.                    *)
LEMMA WrittenPrepared ==
    ASSUME NEW d, WellFormed(d), NEW i, NEW n \in Nat, Prepared(i, n, d),
           NEW k \in DOMAIN IntentBase.cols, k \in DOMAIN d.cols,
           NEW v, Moving(i, k) /\ n >= 2 => v = "late",
           NEW e, e = WithRow(d, k, v)
    PROVE  Prepared(i, n, e)
<1>1. /\ DOMAIN e.cols = DOMAIN d.cols
      /\ e.cols[k].data = d.cols[k].data \cup {v}
      /\ \A j \in DOMAIN d.cols : j # k => e.cols[j] = d.cols[j]
  BY RowWritten
<1> DEFINE old == <<i.table, i.column>>
           X == Exempt(i)
<1>2. "late" \in X
  BY DEF Exempt
<1> HIDE DEF X
<1>3. ASSUME NEW new, Copying(n, d, old, new, X), k = old /\ n = 2 => v = "late"
      PROVE  Copying(n, e, old, new, X)
  <2>1. n \in {1, 2} => new # k
    BY <1>3 DEF Copying
  <2>2. n \in {1, 2} => e.cols[new] = d.cols[new]
    BY <1>1, <1>3, <2>1 DEF Copying
  <2>3. n = 2 /\ old \in DOMAIN d.cols => e.cols[old].data \ X \subseteq d.cols[old].data \ X
    BY <1>1, <1>2, <1>3
  <2>4. n = 2 /\ old \in DOMAIN d.cols => d.cols[old].data \ X \subseteq d.cols[new].data
    BY <1>3 DEF Copying
  <2>5. n = 2 /\ old \in DOMAIN d.cols => e.cols[old].data \ X \subseteq e.cols[new].data
    BY <2>2, <2>3, <2>4
  <2>6. n = 1 => e.cols[new].data = {}
    BY <1>3, <2>2 DEF Copying
  <2> QED BY <1>1, <1>3, <2>5, <2>6 DEF Copying
<1>4. ASSUME NEW new, Splitting(n, d, old, new, X), k = old /\ n = 2 => v = "late"
      PROVE  Splitting(n, e, old, new, X)
  <2>1. n = 2 => d.cols[new].data \subseteq e.cols[new].data
    BY <1>1, <1>4 DEF Splitting
  <2>2. n = 2 /\ old \in DOMAIN d.cols => e.cols[old].data \ X \subseteq d.cols[old].data \ X
    BY <1>1, <1>2, <1>4
  <2>3. n = 2 /\ old \in DOMAIN d.cols => d.cols[old].data \ X \subseteq d.cols[new].data
    BY <1>4 DEF Splitting
  <2>4. n = 2 /\ old \in DOMAIN d.cols => e.cols[old].data \ X \subseteq e.cols[new].data
    BY <2>1, <2>2, <2>3
  <2> QED BY <1>1, <1>4, <2>4 DEF Splitting
<1>5. i.type \in {"RENAME_COLUMN", "CHANGE_COLUMN_TYPE", "SPLIT_TABLE"} /\ k = old /\ n = 2 => v = "late"
  BY DEF Moving
<1>6. CASE i.type = "RENAME_COLUMN"
  BY <1>3, <1>5, <1>6 DEF Prepared, X
<1>7. CASE i.type = "CHANGE_COLUMN_TYPE"
  BY <1>3, <1>5, <1>7 DEF Prepared, X
<1>8. CASE i.type = "SPLIT_TABLE"
  BY <1>4, <1>5, <1>8 DEF Prepared, X
<1> QED
  BY <1>6, <1>7, <1>8 DEF Prepared

(* Nothing ran before governance accepted the intent, and since then every  *)
(* phase left what the next one needs.                                      *)
IntentInv ==
    /\ applied \in Nat
    /\ step = "generated" => ParseIntent(intent)
    /\ step = "accepted" => Accepted(intent)
    /\ step # "accepted" => idb = IntentBase /\ written = {} /\ applied = 0
    /\ step = "accepted" /\ ~rolledBack =>
         /\ WellFormed(idb)
         /\ (Held(IntentBase) \cup written) \ Exempt(intent) \subseteq Held(idb)
         /\ Prepared(intent, applied, idb)

LEMMA NothingPrepared == ASSUME NEW i PROVE Prepared(i, 0, IntentBase)
BY DEF Prepared, Copying, Splitting

LEMMA IntentKept ==
    ASSUME IntentInv, UNCHANGED <<intent, step, idb, written, applied, rolledBack>>
    PROVE  IntentInv'
BY DEF IntentInv

LEMMA IntentStep == ASSUME IntentInv, IntentNext PROVE IntentInv'
<1>1. ASSUME step = "idle", OnlyPrints
      PROVE  IntentInv'
  BY <1>1 DEF IntentInv, OnlyPrints
<1>2. CASE GenerateMigrationFiles
  BY <1>2 DEF IntentInv, GenerateMigrationFiles
<1>3. CASE GovernanceStep
  <2>1. CASE RunIntentGovernanceChecks(Phases(intent))
    <3>1. /\ step' = "accepted" /\ step = "generated" /\ ParseIntent(intent)
          /\ idb = IntentBase /\ written = {} /\ applied = 0
          /\ UNCHANGED <<intent, idb, written, applied, rolledBack>>
      BY <1>3, <2>1 DEF IntentInv, GovernanceStep
    <3>2. Accepted(intent) /\ WellFormed(idb) /\ Prepared(intent, applied, idb)
      BY <2>1, <3>1, NothingPrepared, IntentBaseAssumption DEF Accepted
    <3> QED BY <3>1, <3>2 DEF IntentInv
  <2>2. CASE ~RunIntentGovernanceChecks(Phases(intent))
    BY <1>3, <2>2 DEF IntentInv, GovernanceStep
  <2> QED BY <2>1, <2>2
<1>4. CASE Tick
  BY <1>4, IntentKept DEF Tick
<1>5. CASE ApplyPhase
  <2>1. /\ step = "accepted" /\ ~rolledBack /\ applied < Len(Phases(intent))
        /\ RunOf(idb, Phases(intent)[applied + 1]).ok
        /\ idb' = RunOf(idb, Phases(intent)[applied + 1]).db
        /\ applied' = applied + 1
        /\ UNCHANGED <<intent, step, written, rolledBack>>
    BY <1>5 DEF ApplyPhase, Runs, RunOf, StatementsOf
  <2>2. /\ applied \in Nat /\ Accepted(intent) /\ WellFormed(idb)
        /\ (Held(IntentBase) \cup written) \ Exempt(intent) \subseteq Held(idb)
        /\ Prepared(intent, applied, idb)
    BY <2>1 DEF IntentInv
  <2>3. Safe(Exempt(intent), idb, idb') /\ Prepared(intent, applied + 1, idb')
    BY <2>1, <2>2, AcceptedStep
  <2>4. WellFormed(idb') /\ (Held(IntentBase) \cup written) \ Exempt(intent) \subseteq Held(idb')
    BY <2>2, <2>3 DEF Safe
  <2> QED BY <2>1, <2>2, <2>3, <2>4 DEF IntentInv
<1>6. CASE RollbackPhase
  BY <1>6 DEF IntentInv, RollbackPhase
<1>7. ASSUME NEW k \in DOMAIN IntentBase.cols, WriteRow(k)
      PROVE  IntentInv'
  <2> DEFINE v == IF ~Moving(intent, k) THEN "written" ELSE IF applied < 2 THEN "moved" ELSE "late"
  <2>1. /\ step = "accepted" /\ ~rolledBack /\ k \in DOMAIN idb.cols
        /\ idb' = WithRow(idb, k, v)
        /\ written' = written \cup {v}
        /\ UNCHANGED <<intent, step, applied, rolledBack>>
    BY <1>7 DEF WriteRow, WithRow
  <2>2. /\ applied \in Nat /\ Accepted(intent) /\ WellFormed(idb)
        /\ (Held(IntentBase) \cup written) \ Exempt(intent) \subseteq Held(idb)
        /\ Prepared(intent, applied, idb)
    BY <2>1 DEF IntentInv
  <2>3. Moving(intent, k) /\ applied >= 2 => v = "late"
    BY <2>2
  <2> HIDE DEF v
  <2>4. Prepared(intent, applied, idb')
    BY <2>1, <2>2, <2>3, WrittenPrepared
  <2>5. WellFormed(idb') /\ Held(idb) \cup {v} \subseteq Held(idb')
    BY <2>1, <2>2, RowWritten
  <2> QED BY <2>1, <2>2, <2>4, <2>5 DEF IntentInv
<1> QED
  BY <1>1, <1>2, <1>3, <1>4, <1>5, <1>6, <1>7, IntentKept
  DEF IntentNext, CreateCommand, LoadIntent, ValidateCommand, TranslateCommand, RehearseCommand,
      RollbackCommand, OnlyPrints

(* Whatever intent a developer writes and for whatever schema: when the     *)
(* checks of scripts/cli/intent.ts let it through, its phases can be run up *)
(* to any of them while the application writes rows, and every value the    *)
(* database ever held is still in some column, save those of Exempt: what   *)
(* came after the copy and what a narrower type cut.                        *)
THEOREM AcceptedIntentsKeepData == ToolsSpec => []AcceptedIntentKeepsData
<1>1. ToolsInit => IntentInv
  BY DEF ToolsInit, IntentInit, IntentInv
<1>2. ASSUME IntentInv, [ToolsNext]_toolVars
      PROVE  IntentInv'
  <2>1. CASE IntentNext
    BY <1>2, <2>1, IntentStep
  <2>2. CASE UNCHANGED <<intent, step, idb, written, applied, rolledBack>>
    BY <1>2, <2>2, IntentKept
  <2> QED BY <1>2, <2>1, <2>2 DEF ToolsNext, toolVars, Start
<1>3. IntentInv => AcceptedIntentKeepsData
  BY DEF IntentInv, AcceptedIntentKeepsData
<1> QED
  BY <1>1, <1>2, <1>3, PTL DEF ToolsSpec

-----------------------------------------------------------------------------
(* Migrations without a transaction.                                        *)

(* The indexes made outside a transaction.                                  *)
OnlineIndexes == {"idx_driver_offers_delivery_id", "idx_drivers_city_uuid", "idx_drivers_zone_uuid",
                  "idx_deliveries_driver_status", "idx_delivery_events_delivery"}

(* A statement that takes no table away and none of the copied columns, and *)
(* does not insist on making such an index itself; what fills empty values  *)
(* has a source for them.                                                   *)
EasyVerbs == {"ADD", "ADD COLUMN", "ALTER COLUMN TYPE", "SET NOT NULL", "DROP NOT NULL", "UPDATE",
              "CREATE INDEX", "DROP INDEX", "ADD CONSTRAINT", "INSERT", "DELETE",
              "CREATE TYPE", "RENAME TYPE", "DROP TYPE", "CREATE EXTENSION"}
Gentle(s) ==
    /\ \/ s.verb \in EasyVerbs
       \/ s.verb \in {"DROP COLUMN", "RENAME COLUMN", "REPLACE COLUMN"} /\ <<s.table, s.col>> \notin CopiedColumns
       \/ /\ s.verb = "CREATE TABLE" /\ s.words = {"IF NOT EXISTS"}
          /\ \A c \in CopiedColumns : c[1] = s.table => c[2] \in DOMAIN s.cols
    /\ s.verb = "CREATE INDEX" => "IF NOT EXISTS" \in s.words \/ s.col \notin OnlineIndexes
    /\ s.verb = "UPDATE" => "WHERE NULL" \notin s.words \/ s.to # None

Grown(d, e) == DOMAIN d.tables \subseteq DOMAIN e.tables /\ HasCopied(e)

LEMMA SameTables ==
    ASSUME NEW d, HasCopied(d), NEW e, e.tables = d.tables,
           \A c \in CopiedColumns : c \in DOMAIN d.cols => c \in DOMAIN e.cols
    PROVE  Grown(d, e)
BY DEF Grown, HasCopied

LEMMA NewCols ==
    ASSUME NEW d, HasCopied(d), NEW cs, NEW e, e = SetCols(d, cs),
           \A c \in CopiedColumns : c \in DOMAIN d.cols => c \in DOMAIN cs
    PROVE  Grown(d, e)
<1>1. e.tables = d.tables /\ e.cols = cs
  BY DEF SetCols, Database
<1> QED BY <1>1, SameTables

LEMMA NewTypes ==
    ASSUME NEW d, HasCopied(d), NEW cs, NEW ty, NEW e, e = SetTypes(d, cs, ty),
           DOMAIN cs = DOMAIN d.cols
    PROVE  Grown(d, e)
<1>1. e.tables = d.tables /\ e.cols = cs
  BY DEF SetTypes, Database
<1> QED BY <1>1, SameTables

LEMMA NewIndexes ==
    ASSUME NEW d, HasCopied(d), NEW ix, NEW e, e = SetIndexes(d, ix)
    PROVE  Grown(d, e)
<1>1. e.tables = d.tables /\ e.cols = d.cols
  BY DEF SetIndexes, Database
<1> QED BY <1>1, SameTables

LEMMA WithDomain == ASSUME NEW f, NEW k, NEW v PROVE DOMAIN With(f, k, v) = DOMAIN f \cup {k}
BY DEF With

LEMMA GentleKeeps ==
    ASSUME NEW d, HasCopied(d), NEW s, Gentle(s), NEW e, e = Effect(d, s)
    PROVE  /\ Grown(d, e)
           /\ s.verb = "CREATE TABLE" => s.table \in DOMAIN e.tables
<1>1. CASE Skipped(d, s) /\ s.verb # "CREATE TABLE"
  BY <1>1 DEF Effect, Grown
<1>2. CASE Skipped(d, s) /\ s.verb = "CREATE TABLE"
  <2>1. s.words = {"IF NOT EXISTS"}
    BY <1>2 DEF Gentle, EasyVerbs
  <2>2. There(d, s)
    BY <1>2, <2>1 DEF Skipped, Has
  <2>3. s.table \in DOMAIN d.tables
    BY <1>2, <2>2 DEF There
  <2> QED BY <1>2, <2>3 DEF Effect, Grown
<1>3. CASE s.verb = "CREATE TABLE" /\ ~Skipped(d, s)
  <2> DEFINE ts == With(d.tables, s.table, FALSE)
             new == {<<s.table, m>> : m \in DOMAIN s.cols}
             cs == [c \in DOMAIN d.cols \cup new |->
                      IF c[1] = s.table THEN Column({}, s.cols[c[2]]) ELSE d.cols[c]]
  <2>1. e = SetTables(d, ts, cs)
    BY <1>3 DEF Effect, Change
  <2>2. DOMAIN cs = DOMAIN d.cols \cup new /\ DOMAIN ts = DOMAIN d.tables \cup {s.table}
    BY WithDomain
  <2> HIDE DEF ts, cs
  <2>3. e.tables = ts /\ e.cols = cs
    BY <2>1 DEF SetTables, Database
  <2>4. \A c \in CopiedColumns : c[1] = s.table => c \in new
    <3>1. \A c \in CopiedColumns : c = <<c[1], c[2]>>
      BY DEF CopiedColumns
    <3>2. \A c \in CopiedColumns : c[1] = s.table => c[2] \in DOMAIN s.cols
      BY <1>3 DEF Gentle, EasyVerbs
    <3> QED BY <3>1, <3>2
  <2> HIDE DEF new
  <2> QED BY <2>2, <2>3, <2>4 DEF Grown, HasCopied
<1>4. CASE ~Skipped(d, s) /\ s.verb # "CREATE TABLE"
  <2>0. e = Change(d, s)
    BY <1>4 DEF Effect
  <2>1. CASE s.verb \in {"ADD", "ADD COLUMN", "ALTER COLUMN TYPE", "UPDATE"}
    <3>1. PICK v : e = SetCols(d, With(d.cols, <<s.table, s.col>>, v))
      BY <2>0, <2>1 DEF Change
    <3>2. DOMAIN With(d.cols, <<s.table, s.col>>, v) = DOMAIN d.cols \cup {<<s.table, s.col>>}
      BY WithDomain
    <3>3. Grown(d, e)
      BY <3>1, <3>2, NewCols
    <3> QED BY <1>4, <3>3
  <2>2. CASE s.verb \in {"SET NOT NULL", "DROP NOT NULL", "ADD CONSTRAINT", "INSERT", "DELETE", "CREATE EXTENSION"}
    <3>1. e = d
      BY <2>0, <2>2 DEF Change
    <3> QED BY <1>4, <3>1 DEF Grown
  <2>3. CASE s.verb \in {"CREATE INDEX", "DROP INDEX"}
    <3>1. PICK ix : e = SetIndexes(d, ix)
      BY <2>0, <2>3 DEF Change
    <3> QED BY <1>4, <3>1, NewIndexes
  <2>4. CASE s.verb \in {"CREATE TYPE", "DROP TYPE"}
    <3>1. PICK ty : e = SetTypes(d, d.cols, ty)
      BY <2>0, <2>4 DEF Change
    <3> QED BY <1>4, <3>1, NewTypes
  <2>5. CASE s.verb = "RENAME TYPE"
    <3> DEFINE cs == [c \in DOMAIN d.cols |->
                        Column(d.cols[c].data, IF d.cols[c].type = s.type THEN s.to ELSE d.cols[c].type)]
    <3>1. e = SetTypes(d, cs, (d.types \ {s.type}) \cup {s.to})
      BY <2>0, <2>5 DEF Change
    <3>2. DOMAIN cs = DOMAIN d.cols
      OBVIOUS
    <3> HIDE DEF cs
    <3> QED BY <1>4, <3>1, <3>2, NewTypes
  <2>6. CASE s.verb = "DROP COLUMN"
    <3>1. e = SetCols(d, Without(d.cols, {<<s.table, s.col>>}))
      BY <2>0, <2>6 DEF Change
    <3>2. DOMAIN Without(d.cols, {<<s.table, s.col>>}) = DOMAIN d.cols \ {<<s.table, s.col>>}
      BY DEF Without
    <3>3. <<s.table, s.col>> \notin CopiedColumns
      BY <2>6 DEF Gentle, EasyVerbs
    <3> QED BY <1>4, <3>1, <3>2, <3>3, NewCols
  <2>7. CASE s.verb \in {"RENAME COLUMN", "REPLACE COLUMN"}
    <3> DEFINE cs == Without(d.cols, {<<s.table, s.col>>})
    <3>1. e = SetCols(d, With(cs, <<s.table, s.to>>, d.cols[<<s.table, s.col>>]))
      BY <2>0, <2>7 DEF Change
    <3>2. DOMAIN cs = DOMAIN d.cols \ {<<s.table, s.col>>}
      BY DEF Without
    <3> HIDE DEF cs
    <3>3. <<s.table, s.col>> \notin CopiedColumns
      BY <2>7 DEF Gentle, EasyVerbs
    <3>4. DOMAIN With(cs, <<s.table, s.to>>, d.cols[<<s.table, s.col>>]) = DOMAIN cs \cup {<<s.table, s.to>>}
      BY WithDomain
    <3>5. Grown(d, e)
      BY <3>1, <3>2, <3>3, <3>4, NewCols
    <3> QED BY <1>4, <3>5
  <2> QED BY <1>4, <2>1, <2>2, <2>3, <2>4, <2>5, <2>6, <2>7 DEF Gentle, EasyVerbs
<1> QED BY <1>1, <1>2, <1>3, <1>4

GentleScript(stmts) == \E S : stmts \in Seq(S) /\ \A s \in S : Gentle(s)

LEMMA GentleScriptGrows ==
    ASSUME NEW d, HasCopied(d), NEW stmts, GentleScript(stmts)
    PROVE  /\ Grown(d, Whole(d, stmts).db)
           /\ Whole(d, stmts).ok => \A k \in 1 .. Len(stmts) :
                stmts[k].verb = "CREATE TABLE" => stmts[k].table \in DOMAIN Whole(d, stmts).db.tables
<1>0. PICK S : stmts \in Seq(S) /\ \A s \in S : Gentle(s)
  BY DEF GentleScript
<1> DEFINE A == Script(d, stmts)
           Made(n) == \A k \in 1 .. n : stmts[k].verb = "CREATE TABLE"
                                           => stmts[k].table \in DOMAIN A[n].db.tables
           Good(n) == Grown(d, A[n].db) /\ DOMAIN A[n] = {"db", "ok"} /\ (A[n].ok => Made(n))
           T == {n \in 0 .. Len(stmts) : ~Good(n)}
<1>1. \A n \in 0 .. Len(stmts) : A[n] = IF n = 0 THEN ScriptStart(d) ELSE ScriptStep(A[n - 1], stmts[n])
  <2>1. A = [n \in 0 .. Len(stmts) |-> IF n = 0 THEN ScriptStart(d) ELSE ScriptStep(A[n - 1], stmts[n])]
    BY <1>0, ScriptIs
  <2> HIDE DEF A
  <2> QED BY <2>1
<1> HIDE DEF A
<1>2. ASSUME T # {} PROVE FALSE
  <2>1. PICK n \in T : \A m \in T : n <= m
    <3> HIDE DEF Good
    <3>1. T \subseteq 0 .. Len(stmts) /\ 0 .. Len(stmts) \subseteq Nat
      BY <1>0
    <3> HIDE DEF T
    <3> QED BY <1>2, <3>1, Least
  <2>2. n \in 0 .. Len(stmts) /\ Len(stmts) \in Nat
    <3> HIDE DEF Good
    <3> QED BY <1>0
  <2>9. ~Good(n)
    <3> HIDE DEF Good
    <3> QED OBVIOUS
  <2>0. \A m \in 0 .. Len(stmts) : m \notin T => Good(m)
    <3> HIDE DEF Good
    <3> QED OBVIOUS
  <2> HIDE DEF T
  <2>3. n # 0
    <3>0. 0 \in 0 .. Len(stmts)
      BY <1>0
    <3>1. A[0] = ScriptStart(d)
      BY <1>1, <3>0
    <3>2. A[0].db = d /\ DOMAIN A[0] = {"db", "ok"}
      BY <3>1 DEF ScriptStart
    <3>3. Good(0)
      BY <3>2 DEF Grown
    <3> HIDE DEF Good
    <3> QED BY <2>9, <3>3
  <2>4. Good(n - 1) /\ stmts[n] \in S
    <3> HIDE DEF Good
    <3>1. n - 1 \in 0 .. Len(stmts) /\ n \in 1 .. Len(stmts)
      BY <2>2, <2>3
    <3>2. n - 1 \notin T
      BY <2>1, <2>2
    <3> QED BY <1>0, <2>0, <3>1, <3>2
  <2>5. A[n] = ScriptStep(A[n - 1], stmts[n])
    BY <1>1, <2>2, <2>3
  <2>6. Grown(d, A[n - 1].db) /\ HasCopied(A[n - 1].db) /\ Gentle(stmts[n])
    BY <1>0, <2>4 DEF Grown
  <2>7. CASE A[n - 1].ok /\ Executes(A[n - 1].db, stmts[n])
    <3>1. A[n].db = Effect(A[n - 1].db, stmts[n]) /\ DOMAIN A[n] = {"db", "ok"}
      BY <2>5, <2>7 DEF ScriptStep
    <3>2. /\ Grown(A[n - 1].db, A[n].db)
          /\ stmts[n].verb = "CREATE TABLE" => stmts[n].table \in DOMAIN A[n].db.tables
      BY <2>6, <3>1, GentleKeeps
    <3>3. Grown(d, A[n].db)
      BY <2>6, <3>2 DEF Grown
    <3>4. Made(n - 1)
      BY <2>4, <2>7
    <3>5. Made(n)
      <4>0. n \in Nat
        BY <2>2
      <4>1. DOMAIN A[n - 1].db.tables \subseteq DOMAIN A[n].db.tables
        BY <3>2 DEF Grown
      <4>2. ASSUME NEW k \in 1 .. n, stmts[k].verb = "CREATE TABLE"
            PROVE  stmts[k].table \in DOMAIN A[n].db.tables
        <5>1. CASE k = n
          BY <3>2, <4>2, <5>1
        <5>2. CASE k # n
          <6>1. k \in 1 .. (n - 1)
            BY <4>0, <5>2
          <6> QED BY <3>4, <4>1, <4>2, <6>1
        <5> QED BY <5>1, <5>2
      <4> QED BY <4>2
    <3> QED BY <2>9, <3>1, <3>3, <3>5
  <2>8. CASE ~(A[n - 1].ok /\ Executes(A[n - 1].db, stmts[n]))
    <3>1. A[n] = [A[n - 1] EXCEPT !.ok = FALSE] /\ DOMAIN A[n - 1] = {"db", "ok"}
      BY <2>4, <2>5, <2>8 DEF ScriptStep
    <3>2. A[n].db = A[n - 1].db /\ DOMAIN A[n] = {"db", "ok"} /\ ~A[n].ok
      BY <3>1
    <3> QED BY <2>4, <2>9, <3>2
  <2> QED BY <2>7, <2>8
<1>3. Good(Len(stmts))
  <2> HIDE DEF Good
  <2> QED BY <1>0, <1>2
<1>4. Whole(d, stmts) = A[Len(stmts)]
  BY DEF Whole, A
<1> QED BY <1>3, <1>4

LEMMA PendingIs ==
    ASSUME checkout \in Nat
    PROVE  /\ Pending \in Seq(1 .. checkout)
           /\ Pending # <<>> => Head(Pending) = 1 \/ 1 \in Range(recorded)
<1> DEFINE ss == [n \in 1 .. checkout |-> IF n \in Range(recorded) THEN <<>> ELSE <<n>>]
<1>1. ss \in Seq(Seq(1 .. checkout))
  <2>1. \A n \in 1 .. checkout : ss[n] \in Seq(1 .. checkout)
    <3> TAKE n \in 1 .. checkout
    <3>1. <<>> \in Seq(1 .. checkout) /\ <<n>> \in Seq(1 .. checkout)
      OBVIOUS
    <3> QED BY <3>1
  <2>2. ss = [n \in 1 .. checkout |-> ss[n]]
    OBVIOUS
  <2> HIDE DEF ss
  <2> QED BY <2>1, <2>2, IsSeqOf
<1>2. checkout > 0 /\ 1 \notin Range(recorded) => ss[1] = <<1>>
  OBVIOUS
<1>3. Len(ss) = checkout
  OBVIOUS
<1>4. Pending = FlattenSeq(ss)
  BY DEF Pending
<1> HIDE DEF ss
<1>5. FlattenSeq(ss) \in Seq(1 .. checkout)
  BY <1>1, FlattenIsSeq
<1>6. ASSUME checkout > 0, 1 \notin Range(recorded)
      PROVE  Head(Pending) = 1
  <2>1. ss[1] # <<>> /\ ss[1][1] = 1
    BY <1>2, <1>6
  <2>2. FlattenSeq(ss) # <<>> /\ FlattenSeq(ss)[1] = 1
    BY <1>1, <1>3, <1>6, <2>1, FlattenIsSeq DEF BeginsAs
  <2> QED BY <1>4, <1>5, <2>2
<1>7. ASSUME checkout = 0
      PROVE  Pending = <<>>
  BY <1>4, <1>5, <1>7
<1> QED BY <1>4, <1>5, <1>6, <1>7

LEMMA ChainLength == Len(Chain) = 30 /\ DOMAIN Chain = 1 .. 30
BY DEF Chain

LEMMA NoTransaction ==
    ASSUME NEW n \in DOMAIN Chain, ~Transactional(n)
    PROVE  n \in {2, 5, 7}
<1>1. n \in 1 .. 30
  BY ChainLength
<1>2. /\ Transactional(1) /\ Transactional(3) /\ Transactional(4)
      /\ Transactional(6) /\ Transactional(8) /\ Transactional(9)
      /\ Transactional(10) /\ Transactional(11) /\ Transactional(12)
  BY DEF Transactional, Chain, File, Marked
<1>3. /\ Transactional(13) /\ Transactional(14) /\ Transactional(15)
      /\ Transactional(16) /\ Transactional(17) /\ Transactional(18)
      /\ Transactional(19) /\ Transactional(20) /\ Transactional(21)
  BY DEF Transactional, Chain, File, Marked
<1>4. /\ Transactional(22) /\ Transactional(23) /\ Transactional(24)
      /\ Transactional(25) /\ Transactional(26) /\ Transactional(27)
      /\ Transactional(28) /\ Transactional(29) /\ Transactional(30)
  BY DEF Transactional, Chain, File, Marked
<1>5. \A m \in 1 .. 30 : m \notin {2, 5, 7} => Transactional(m)
  <2> HIDE DEF Transactional
  <2> QED BY <1>2, <1>3, <1>4
<1> QED BY <1>1, <1>5

LEMMA BaselineTransaction == Transactional(1) /\ Chain[1].up = BaselineUp
BY DEF Transactional, Marked, Chain, File

LEMMA OnlineMigrations ==
    /\ Chain[2].up = DuplicateIndexUp
    /\ Chain[5].up = RealignBackfillUp
    /\ Chain[7].up = RealignIndexesUp
BY DEF Chain, File

(* an index that is created once is there or can be *)
LEMMA IndexRepeats ==
    ASSUME NEW d, NEW t \in DOMAIN d.tables, NEW i
    PROVE  Executes(d, Concurrently(Index(t, i)))
<1> DEFINE s == Concurrently(Index(t, i))
<1>1. /\ s.verb = "CREATE INDEX" /\ s.table = t /\ s.col = i
      /\ s.words = INE \cup NameWords(i) \cup {"CONCURRENTLY"}
  BY DEF Concurrently, Index, Stmt
<1> HIDE DEF s
<1>2. Has(s, "IF NOT EXISTS") /\ ~Has(s, "MALFORMED")
  BY <1>1, NoWords DEF Has, INE
<1>3. There(d, s) <=> i \in DOMAIN d.indexes
  BY <1>1 DEF There
<1>4. i \notin DOMAIN d.indexes => CanRun(d, s)
  BY <1>1, <1>2 DEF CanRun
<1> QED BY <1>2, <1>3, <1>4 DEF Executes, Skipped, s

LEMMA BackfillRepeats ==
    ASSUME NEW d, NEW t \in DOMAIN d.tables, NEW c, NEW src, <<t, src>> \in DOMAIN d.cols,
           Malformed \notin d.cols[<<t, src>>].data
    PROVE  Executes(d, IfThere(Stmt("UPDATE", t, c, src, None, {"WHERE NULL"})))
<1> DEFINE s == IfThere(Stmt("UPDATE", t, c, src, None, {"WHERE NULL"}))
<1>1. s.verb = "UPDATE" /\ s.table = t /\ s.col = c /\ s.to = src /\ "GUARDED" \in s.words /\ s.type = None
  BY DEF IfThere, Stmt
<1> HIDE DEF s
<1>2. There(d, s) <=> <<t, c>> \in DOMAIN d.cols
  BY <1>1 DEF There
<1>3. UpdateConverts(d, s, <<t, c>>, <<t, src>>)
  BY <1>1 DEF UpdateConverts, None
<1>4. <<t, c>> \in DOMAIN d.cols => CanRun(d, s)
  BY <1>1, <1>3 DEF CanRun
<1> QED BY <1>1, <1>2, <1>4 DEF Executes, Skipped, Has, s

LEMMA ExtensionRepeats == \A d : Executes(d, NewExtension)
<1>1. NewExtension.verb = "CREATE EXTENSION"
  BY DEF NewExtension, Stmt
<1>2. \A d : CanRun(d, NewExtension)
  BY <1>1 DEF CanRun
<1> QED BY <1>2 DEF Executes

(* Statements outside a transaction can be run at any time from the         *)
(* baseline on, and again, unless an id is unfit for the backfill.          *)
LEMMA OnlineRepeats ==
    ASSUME NEW n \in DOMAIN Chain, ~Transactional(n), NEW k \in 1 .. Len(Chain[n].up),
           NEW d, HasCopied(d), OnlineTables \subseteq DOMAIN d.tables, ~(n = 5 /\ Unfit(d))
    PROVE  Executes(d, Chain[n].up[k])
<1>0. /\ "drivers" \in DOMAIN d.tables /\ "driver_offers" \in DOMAIN d.tables
      /\ "deliveries" \in DOMAIN d.tables /\ "delivery_events" \in DOMAIN d.tables
      /\ "assignments" \in DOMAIN d.tables
  BY DEF OnlineTables
<1>1. CASE n = 2
  <2>1. Chain[n].up = <<Concurrently(Index("driver_offers", "idx_driver_offers_delivery_id"))>>
    BY <1>1, OnlineMigrations DEF DuplicateIndexUp
  <2>2. Chain[n].up[k] = Concurrently(Index("driver_offers", "idx_driver_offers_delivery_id"))
    BY <2>1
  <2> QED BY <1>0, <2>2, IndexRepeats
<1>2. CASE n = 5
  <2> DEFINE first == IfThere(Stmt("UPDATE", "deliveries", "seller_order_id_uuid", "seller_order_id",
                                   None, {"WHERE NULL"}))
             second == IfThere(Stmt("UPDATE", "assignments", "driver_id_uuid", "driver_id",
                                    None, {"WHERE NULL"}))
  <2>1. Chain[n].up = <<NewExtension, first, second>>
    BY <1>2, OnlineMigrations DEF RealignBackfillUp
  <2>2. <<"deliveries", "seller_order_id">> \in DOMAIN d.cols /\ <<"assignments", "driver_id">> \in DOMAIN d.cols
    BY <1>0 DEF HasCopied, CopiedColumns
  <2>4. /\ Malformed \notin d.cols[<<"deliveries", "seller_order_id">>].data
        /\ Malformed \notin d.cols[<<"assignments", "driver_id">>].data
    BY <1>2, <2>2 DEF Unfit, CopiedColumns
  <2>3. Executes(d, first) /\ Executes(d, second) /\ Executes(d, NewExtension)
    BY <1>0, <2>2, <2>4, BackfillRepeats, ExtensionRepeats
  <2> HIDE DEF first, second
  <2> QED BY <2>1, <2>3
<1>3. CASE n = 7
  <2>1. /\ RealignIndexesUp = [m \in DOMAIN RealignIndexNames |->
                                Concurrently(Index(RealignIndexNames[m][1], RealignIndexNames[m][2]))]
        /\ DOMAIN RealignIndexNames = 1 .. 4
        /\ \A m \in 1 .. 4 : RealignIndexNames[m][1] \in OnlineTables
    <3>1. RealignIndexesUp = [m \in DOMAIN RealignIndexNames |->
                                Concurrently(Index(RealignIndexNames[m][1], RealignIndexNames[m][2]))]
      BY DEF RealignIndexesUp, Each
    <3>2. DOMAIN RealignIndexNames = 1 .. 4
      BY DEF RealignIndexNames
    <3>3. \A m \in 1 .. 4 : RealignIndexNames[m][1] \in OnlineTables
      BY DEF RealignIndexNames, OnlineTables
    <3> QED BY <3>1, <3>2, <3>3
  <2>2. k \in 1 .. 4
    <3>1. Len(RealignIndexesUp) = 4
      BY <2>1
    <3> QED BY <1>3, <3>1, OnlineMigrations
  <2>3. Chain[n].up[k] = Concurrently(Index(RealignIndexNames[k][1], RealignIndexNames[k][2]))
    BY <1>3, <2>1, <2>2, OnlineMigrations
  <2>4. RealignIndexNames[k][1] \in DOMAIN d.tables
    BY <2>1, <2>2
  <2> QED BY <2>3, <2>4, IndexRepeats
<1> QED
  BY <1>1, <1>2, <1>3, NoTransaction

-----------------------------------------------------------------------------
(* A statement that leaves the order ids of the deliveries alone.           *)
Mild(s) ==
    /\ Gentle(s) /\ s.verb # "REPLACE COLUMN"
    /\ s.verb \in {"UPDATE", "DROP COLUMN", "RENAME COLUMN"} => <<s.table, s.col>> \notin {OrderId, OrderUuid}
    /\ s.verb = "RENAME COLUMN" => <<s.table, s.to>> \notin {OrderId, OrderUuid}
    /\ s.verb \in {"ADD", "ADD COLUMN"} /\ <<s.table, s.col>> = OrderUuid => "DEFAULT" \notin s.words

(* A column K of a row in e comes from the same column in d.                *)
Same(d, e, K) ==
    /\ HasRows(d)
    /\ K \in DOMAIN d.cols => K \in DOMAIN e.cols /\ e.cols[K].data = d.cols[K].data
    /\ K \in DOMAIN e.cols => K \in DOMAIN d.cols

LEMMA SameCols ==
    ASSUME NEW d, NEW cs, NEW e, e = SetCols(d, cs), HasRows(e), NEW K,
           K \in DOMAIN d.cols => K \in DOMAIN cs /\ cs[K].data = d.cols[K].data,
           K \in DOMAIN cs => K \in DOMAIN d.cols
    PROVE  Same(d, e, K)
<1>1. e.tables = d.tables /\ e.cols = cs
  BY DEF SetCols, Database
<1> QED BY <1>1 DEF Same, HasRows

LEMMA SameTypes ==
    ASSUME NEW d, NEW cs, NEW ty, NEW e, e = SetTypes(d, cs, ty), HasRows(e), NEW K,
           K \in DOMAIN d.cols => K \in DOMAIN cs /\ cs[K].data = d.cols[K].data,
           K \in DOMAIN cs => K \in DOMAIN d.cols
    PROVE  Same(d, e, K)
<1>1. e.tables = d.tables /\ e.cols = cs
  BY DEF SetTypes, Database
<1> QED BY <1>1 DEF Same, HasRows

LEMMA SameIndexes ==
    ASSUME NEW d, NEW ix, NEW e, e = SetIndexes(d, ix), HasRows(e), NEW K
    PROVE  Same(d, e, K)
<1>1. e.tables = d.tables /\ e.cols = d.cols
  BY DEF SetIndexes, Database
<1> QED BY <1>1 DEF Same, HasRows

LEMMA MildColumn ==
    ASSUME NEW d, NEW s, Mild(s), Executes(d, s), NEW e, e = Effect(d, s), HasRows(e),
           NEW K \in {OrderId, OrderUuid}
    PROVE  \/ Same(d, e, K)
           \/ /\ HasRows(d) /\ K \notin DOMAIN d.cols /\ s.verb \in {"ADD", "ADD COLUMN"}
              /\ K = OrderUuid => e.cols[K].data = {}
<1> DEFINE k == <<s.table, s.col>>
           t == s.table
<1>0. K = <<"deliveries", K[2]>>
  BY DEF OrderId, OrderUuid
<1>1. CASE Skipped(d, s)
  BY <1>1 DEF Effect, Same
<1>2. CASE s.verb = "CREATE TABLE" /\ ~Skipped(d, s)
  <2> DEFINE ts == With(d.tables, t, FALSE)
             new == {<<t, m>> : m \in DOMAIN s.cols}
             cs == [c \in DOMAIN d.cols \cup new |->
                      IF c[1] = t THEN Column({}, s.cols[c[2]]) ELSE d.cols[c]]
  <2>1. e = SetTables(d, ts, cs)
    BY <1>2 DEF Effect, Change
  <2>2. e.tables = ts /\ e.cols = cs
    BY <2>1 DEF SetTables, Database
  <2>3. DOMAIN ts = DOMAIN d.tables \cup {t} /\ ts[t] = FALSE /\ \A x \in DOMAIN d.tables : x # t => ts[x] = d.tables[x]
    BY DEF With
  <2> HIDE DEF ts
  <2>4. t # "deliveries" /\ HasRows(d)
    BY <2>2, <2>3 DEF HasRows
  <2>5. K \notin new /\ K[1] # t
    BY <1>0, <2>4
  <2> HIDE DEF new
  <2>6. DOMAIN cs = DOMAIN d.cols \cup new /\ (K \in DOMAIN d.cols => cs[K] = d.cols[K])
    BY <2>5
  <2> HIDE DEF cs
  <2> QED BY <2>2, <2>4, <2>5, <2>6 DEF Same
<1>3. CASE s.verb # "CREATE TABLE" /\ ~Skipped(d, s)
  <2>0. e = Change(d, s) /\ CanRun(d, s)
    BY <1>3 DEF Effect, Executes
  <2>1. CASE s.verb \in {"ADD", "ADD COLUMN"}
    <3> DEFINE data == IF Has(s, "DEFAULT") /\ d.tables[t] THEN {"fill"} ELSE {}
               v == Column(data, s.type)
    <3>1. e = SetCols(d, With(d.cols, k, v))
      BY <2>0, <2>1 DEF Change
    <3>2. k \notin DOMAIN d.cols
      BY <2>0, <2>1 DEF CanRun
    <3>3. e.tables = d.tables /\ e.cols = With(d.cols, k, v)
      BY <3>1 DEF SetCols, Database
    <3>4. CASE K = k
      <4>1. e.cols[K] = v
        BY <3>3, <3>4 DEF With
      <4>2. K = OrderUuid => data = {}
        BY <2>1, <3>4 DEF Mild, Has
      <4>3. v.data = data
        BY DEF Column
      <4>4. HasRows(d)
        BY <3>3 DEF HasRows
      <4> HIDE DEF v, data
      <4> QED BY <2>1, <3>2, <3>4, <4>1, <4>2, <4>3, <4>4
    <3>5. CASE K # k
      <4> HIDE DEF v
      <4> DEFINE cs == With(d.cols, k, v)
      <4>1. DOMAIN cs = DOMAIN d.cols \cup {k} /\ \A x \in DOMAIN d.cols : x # k => cs[x] = d.cols[x]
        BY DEF With
      <4>2. e = SetCols(d, cs)
        BY <3>1
      <4> HIDE DEF cs, k
      <4> QED BY <3>5, <4>1, <4>2, SameCols
    <3> QED BY <3>4, <3>5
  <2>2. CASE s.verb \in {"ALTER COLUMN TYPE", "UPDATE"}
    <3>1. PICK v : e = SetCols(d, With(d.cols, k, v)) /\ (k = K => v.data = d.cols[k].data)
      <4>1. CASE s.verb = "ALTER COLUMN TYPE"
        <5>1. e = SetCols(d, With(d.cols, k, Column(d.cols[k].data, s.type)))
          BY <2>0, <4>1 DEF Change
        <5>2. Column(d.cols[k].data, s.type).data = d.cols[k].data
          BY DEF Column
        <5> QED BY <5>1, <5>2
      <4>2. CASE s.verb = "UPDATE"
        <5>1. \E v : e = SetCols(d, With(d.cols, k, v))
          BY <2>0, <4>2 DEF Change
        <5>2. k # K
          BY <4>2 DEF Mild
        <5> QED BY <5>1, <5>2
      <4> QED BY <2>2, <4>1, <4>2
    <3>2. k \in DOMAIN d.cols
      BY <2>0, <2>2 DEF CanRun
    <3> DEFINE cs == With(d.cols, k, v)
    <3>3. /\ DOMAIN cs = DOMAIN d.cols \cup {k} /\ cs[k] = v
          /\ \A x \in DOMAIN d.cols : x # k => cs[x] = d.cols[x]
      BY DEF With
    <3>4. e = SetCols(d, cs)
      BY <3>1
    <3> HIDE DEF cs, k
    <3> QED BY <3>1, <3>2, <3>3, <3>4, SameCols
  <2>3. CASE s.verb \in {"SET NOT NULL", "DROP NOT NULL", "ADD CONSTRAINT", "INSERT", "DELETE", "CREATE EXTENSION"}
    <3>1. e = d
      BY <2>0, <2>3 DEF Change
    <3> QED BY <3>1 DEF Same
  <2>4. CASE s.verb \in {"CREATE INDEX", "DROP INDEX"}
    <3>1. PICK ix : e = SetIndexes(d, ix)
      BY <2>0, <2>4 DEF Change
    <3> QED BY <3>1, SameIndexes
  <2>5. CASE s.verb \in {"CREATE TYPE", "DROP TYPE"}
    <3>1. PICK ty : e = SetTypes(d, d.cols, ty)
      BY <2>0, <2>5 DEF Change
    <3> QED BY <3>1, SameTypes
  <2>6. CASE s.verb = "RENAME TYPE"
    <3> DEFINE cs == [c \in DOMAIN d.cols |->
                        Column(d.cols[c].data, IF d.cols[c].type = s.type THEN s.to ELSE d.cols[c].type)]
    <3>1. e = SetTypes(d, cs, (d.types \ {s.type}) \cup {s.to})
      BY <2>0, <2>6 DEF Change
    <3>2. DOMAIN cs = DOMAIN d.cols /\ \A c \in DOMAIN d.cols : cs[c].data = d.cols[c].data
      BY DEF Column
    <3> HIDE DEF cs
    <3> QED BY <3>1, <3>2, SameTypes
  <2>7. CASE s.verb = "DROP COLUMN"
    <3> DEFINE cs == Without(d.cols, {k})
    <3>1. e = SetCols(d, cs)
      BY <2>0, <2>7 DEF Change
    <3>2. DOMAIN cs = DOMAIN d.cols \ {k} /\ \A c \in DOMAIN cs : cs[c] = d.cols[c]
      BY DEF Without
    <3>3. K # k
      BY <2>7 DEF Mild
    <3> HIDE DEF cs
    <3> QED BY <3>1, <3>2, <3>3, SameCols
  <2>8. CASE s.verb = "RENAME COLUMN"
    <3> DEFINE cs == Without(d.cols, {k})
               n == <<s.table, s.to>>
    <3>1. e = SetCols(d, With(cs, n, d.cols[k]))
      BY <2>0, <2>8 DEF Change
    <3>2. DOMAIN cs = DOMAIN d.cols \ {k} /\ \A c \in DOMAIN cs : cs[c] = d.cols[c]
      BY DEF Without
    <3>3. K # k /\ K # n
      BY <2>8 DEF Mild
    <3> HIDE DEF cs, n
    <3> DEFINE v == d.cols[k]
    <3> HIDE DEF v
    <3>4. e = SetCols(d, With(cs, n, v))
      BY <3>1 DEF v
    <3> DEFINE es == With(cs, n, v)
    <3>5. DOMAIN es = DOMAIN cs \cup {n} /\ \A x \in DOMAIN cs : x # n => es[x] = cs[x]
      BY DEF With
    <3>6. e = SetCols(d, es)
      BY <3>4
    <3> HIDE DEF es, k
    <3> QED BY <3>2, <3>3, <3>5, <3>6, SameCols
  <2> QED BY <1>3, <2>1, <2>2, <2>3, <2>4, <2>5, <2>6, <2>7, <2>8 DEF Mild, Gentle, EasyVerbs
<1> QED BY <1>1, <1>2, <1>3

LEMMA MildKeeps ==
    ASSUME NEW d, Traced(d), NEW s, Mild(s), Executes(d, s), NEW e, e = Effect(d, s)
    PROVE  /\ Traced(e)
           /\ Filled(d) /\ s.verb \in {"UPDATE", "CREATE INDEX"} => Filled(e)
<1> SUFFICES ASSUME HasRows(e)
             PROVE  /\ Traced(e)
                    /\ Filled(d) /\ s.verb \in {"UPDATE", "CREATE INDEX"} => Filled(e)
  BY DEF Traced, Filled
<1>1. \/ Same(d, e, OrderId)
      \/ /\ HasRows(d) /\ OrderId \notin DOMAIN d.cols
  BY MildColumn
<1>2. \/ Same(d, e, OrderUuid)
      \/ /\ HasRows(d) /\ OrderUuid \notin DOMAIN d.cols /\ s.verb \in {"ADD", "ADD COLUMN"}
         /\ e.cols[OrderUuid].data = {}
  BY MildColumn
<1>3. HasRows(d) /\ OrderId \in DOMAIN d.cols /\ "order" \in d.cols[OrderId].data
  BY <1>1 DEF Traced, Same
<1>4. Same(d, e, OrderId)
  BY <1>1, <1>3
<1> HIDE DEF Same
<1>5. OrderId \in DOMAIN e.cols /\ "order" \in e.cols[OrderId].data
  BY <1>3, <1>4 DEF Same
<1>6. CASE Same(d, e, OrderUuid)
  BY <1>3, <1>5, <1>6 DEF Same, Traced, Filled
<1>7. CASE s.verb \in {"ADD", "ADD COLUMN"} /\ e.cols[OrderUuid].data = {}
  BY <1>5, <1>7 DEF Traced
<1> QED BY <1>2, <1>6, <1>7

MildScript(stmts) == \E S : stmts \in Seq(S) /\ \A s \in S : Mild(s)

LEMMA MildScriptTraces ==
    ASSUME NEW d, Traced(d), NEW stmts, MildScript(stmts)
    PROVE  Traced(Whole(d, stmts).db)
<1>0. PICK S : stmts \in Seq(S) /\ \A s \in S : Mild(s)
  BY DEF MildScript
<1> DEFINE A == Script(d, stmts)
           Good(n) == Traced(A[n].db) /\ DOMAIN A[n] = {"db", "ok"}
           T == {n \in 0 .. Len(stmts) : ~Good(n)}
<1>1. \A n \in 0 .. Len(stmts) : A[n] = IF n = 0 THEN ScriptStart(d) ELSE ScriptStep(A[n - 1], stmts[n])
  <2>1. A = [n \in 0 .. Len(stmts) |-> IF n = 0 THEN ScriptStart(d) ELSE ScriptStep(A[n - 1], stmts[n])]
    BY <1>0, ScriptIs
  <2> HIDE DEF A
  <2> QED BY <2>1
<1> HIDE DEF A
<1>2. ASSUME T # {} PROVE FALSE
  <2>1. PICK n \in T : \A m \in T : n <= m
    <3> HIDE DEF Good
    <3>1. T \subseteq 0 .. Len(stmts) /\ 0 .. Len(stmts) \subseteq Nat
      BY <1>0
    <3> HIDE DEF T
    <3> QED BY <1>2, <3>1, Least
  <2>2. n \in 0 .. Len(stmts) /\ Len(stmts) \in Nat /\ ~Good(n)
    <3> HIDE DEF Good
    <3> QED BY <1>0
  <2>3. \A m \in 0 .. Len(stmts) : m \notin T => Good(m)
    <3> HIDE DEF Good
    <3> QED OBVIOUS
  <2> HIDE DEF T
  <2>4. n # 0
    <3>0. 0 \in 0 .. Len(stmts)
      BY <1>0
    <3>1. A[0] = ScriptStart(d)
      BY <1>1, <3>0
    <3>2. A[0].db = d /\ DOMAIN A[0] = {"db", "ok"}
      BY <3>1 DEF ScriptStart
    <3>3. Good(0)
      BY <3>2
    <3> HIDE DEF Good
    <3> QED BY <2>2, <3>3
  <2>5. Good(n - 1) /\ Mild(stmts[n])
    <3> HIDE DEF Good
    <3>1. n - 1 \in 0 .. Len(stmts) /\ n \in 1 .. Len(stmts)
      BY <2>2, <2>4
    <3>2. n - 1 \notin T
      BY <2>1, <2>2
    <3> QED BY <1>0, <2>3, <3>1, <3>2
  <2>6. A[n] = ScriptStep(A[n - 1], stmts[n])
    BY <1>1, <2>2, <2>4
  <2>7. CASE A[n - 1].ok /\ Executes(A[n - 1].db, stmts[n])
    <3>1. A[n].db = Effect(A[n - 1].db, stmts[n]) /\ DOMAIN A[n] = {"db", "ok"}
      BY <2>6, <2>7 DEF ScriptStep
    <3>2. Traced(A[n].db)
      BY <2>5, <2>7, <3>1, MildKeeps
    <3> QED BY <2>2, <3>1, <3>2
  <2>8. CASE ~(A[n - 1].ok /\ Executes(A[n - 1].db, stmts[n]))
    <3>1. A[n] = [A[n - 1] EXCEPT !.ok = FALSE] /\ DOMAIN A[n - 1] = {"db", "ok"}
      BY <2>5, <2>6, <2>8 DEF ScriptStep
    <3>2. A[n].db = A[n - 1].db /\ DOMAIN A[n] = {"db", "ok"}
      BY <3>1
    <3> QED BY <2>2, <2>5, <3>2
  <2> QED BY <2>7, <2>8
<1>3. Good(Len(stmts))
  <2> HIDE DEF Good
  <2> QED BY <1>0, <1>2
<1>4. Whole(d, stmts) = A[Len(stmts)]
  BY DEF Whole, A
<1> QED BY <1>3, <1>4

(* The backfill of the order ids, and the contraction after it.             *)
OrderBackfill ==
    IfThere(Stmt("UPDATE", "deliveries", "seller_order_id_uuid", "seller_order_id", None, {"WHERE NULL"}))
DriverBackfill ==
    IfThere(Stmt("UPDATE", "assignments", "driver_id_uuid", "driver_id", None, {"WHERE NULL"}))
OrderContraction ==
    Stmt("REPLACE COLUMN", "deliveries", "seller_order_id_uuid", "seller_order_id", None, {"GUARDED"})

LEMMA BackfillFills ==
    ASSUME NEW d, Traced(d), NEW e, e = Effect(d, OrderBackfill)
    PROVE  Traced(e) /\ Filled(e)
<1> DEFINE s == OrderBackfill
<1>0. /\ s.verb = "UPDATE" /\ s.table = "deliveries" /\ s.col = "seller_order_id_uuid"
      /\ s.to = "seller_order_id"
      /\ s.words = {"WHERE NULL"} \cup NameWords("seller_order_id_uuid") \cup {"GUARDED"}
  BY DEF OrderBackfill, IfThere, Stmt
<1> HIDE DEF s
<1>1. /\ s.verb = "UPDATE" /\ s.table = "deliveries" /\ s.col = "seller_order_id_uuid"
      /\ s.to = "seller_order_id" /\ "WHERE NULL" \in s.words /\ "GUARDED" \in s.words
      /\ "IF EXISTS" \notin s.words /\ "IF NOT EXISTS" \notin s.words
  BY <1>0, NoWords
<1>3. There(d, s) <=> OrderUuid \in DOMAIN d.cols
  BY <1>1 DEF There, OrderUuid
<1>4. Skipped(d, s) <=> OrderUuid \notin DOMAIN d.cols
  BY <1>1, <1>3 DEF Skipped, Has
<1>5. CASE OrderUuid \notin DOMAIN d.cols
  <2>1. e = d
    BY <1>4, <1>5 DEF Effect, s
  <2> QED BY <1>5, <2>1 DEF Filled
<1>6. CASE OrderUuid \in DOMAIN d.cols
  <2> DEFINE old == d.cols[OrderUuid].data
             new == IF old = {} THEN AsUuid(d.cols[OrderId].data) ELSE old
             v == Column(new, d.cols[OrderUuid].type)
  <2>1. e = SetCols(d, With(d.cols, OrderUuid, v))
    <3>1. e = Change(d, s)
      BY <1>4, <1>6 DEF Effect, s
    <3> QED BY <1>1, <3>1 DEF Change, Has, OrderUuid, OrderId
  <2>2. HasRows(d) => "order" \in new
    <3>1. HasRows(d) => "order" \in d.cols[OrderId].data /\ (old = {} \/ "order" \in old)
      BY <1>6 DEF Traced
    <3>2. "order" \in d.cols[OrderId].data => "order" \in AsUuid(d.cols[OrderId].data)
      BY DEF AsUuid, FreeForm, LongText
    <3> QED BY <3>1, <3>2
  <2>3. v.data = new
    BY DEF Column
  <2> HIDE DEF v, new
  <2>4. /\ e.tables = d.tables /\ DOMAIN e.cols = DOMAIN d.cols
        /\ e.cols[OrderUuid] = v
        /\ OrderId \in DOMAIN d.cols => e.cols[OrderId] = d.cols[OrderId]
    <3>1. e.tables = d.tables /\ e.cols = With(d.cols, OrderUuid, v)
      BY <2>1 DEF SetCols, Database
    <3>2. OrderId # OrderUuid
      BY DEF OrderId, OrderUuid
    <3> QED BY <1>6, <3>1, <3>2 DEF With
  <2>5. HasRows(e) <=> HasRows(d)
    BY <2>4 DEF HasRows
  <2> QED BY <2>2, <2>3, <2>4, <2>5 DEF Traced, Filled
<1> QED BY <1>5, <1>6

LEMMA ContractionKeeps ==
    ASSUME NEW d, Traced(d), Filled(d), NEW e, e = Effect(d, OrderContraction)
    PROVE  Traced(e)
<1> DEFINE s == OrderContraction
<1>0. /\ s.verb = "REPLACE COLUMN" /\ s.table = "deliveries" /\ s.col = "seller_order_id_uuid"
      /\ s.to = "seller_order_id"
      /\ s.words = {"GUARDED"} \cup NameWords("seller_order_id_uuid")
  BY DEF OrderContraction, Stmt
<1> HIDE DEF s
<1>1. /\ s.verb = "REPLACE COLUMN" /\ s.table = "deliveries" /\ s.col = "seller_order_id_uuid"
      /\ s.to = "seller_order_id" /\ "GUARDED" \in s.words
      /\ "IF EXISTS" \notin s.words /\ "IF NOT EXISTS" \notin s.words
  BY <1>0, NoWords
<1>2. There(d, s) <=> OrderUuid \in DOMAIN d.cols
  BY <1>1 DEF There, OrderUuid
<1>3. Skipped(d, s) <=> OrderUuid \notin DOMAIN d.cols
  BY <1>1, <1>2 DEF Skipped, Has
<1>4. CASE OrderUuid \notin DOMAIN d.cols
  BY <1>3, <1>4 DEF Effect, s
<1>5. CASE OrderUuid \in DOMAIN d.cols
  <2> DEFINE v == d.cols[OrderUuid]
             cs == With(Without(d.cols, {OrderUuid}), OrderId, v)
  <2>1. e = SetCols(d, cs)
    <3>1. e = Change(d, s)
      BY <1>3, <1>5 DEF Effect, s
    <3> QED BY <1>1, <3>1 DEF Change, OrderUuid, OrderId
  <2>2. OrderUuid \notin DOMAIN cs /\ OrderId \in DOMAIN cs /\ cs[OrderId] = v
    <3>1. OrderId # OrderUuid
      BY DEF OrderId, OrderUuid
    <3> QED BY <3>1 DEF With, Without
  <2>3. e.tables = d.tables /\ e.cols = cs
    BY <2>1 DEF SetCols, Database
  <2> HIDE DEF cs
  <2>4. HasRows(e) => "order" \in v.data
    BY <1>5, <2>3 DEF HasRows, Filled
  <2> HIDE DEF v
  <2> QED BY <2>2, <2>3, <2>4 DEF Traced
<1> QED BY <1>4, <1>5

-----------------------------------------------------------------------------
(* The statements of the migrations, by the helpers that write them.        *)
QuietVerbs == EasyVerbs \ {"ADD", "ADD COLUMN", "UPDATE", "CREATE INDEX"}
Traces == CopiedColumns \cup {OrderUuid}

LEMMA QuietIsMild == ASSUME NEW s, s.verb \in QuietVerbs PROVE Mild(s)
BY DEF Mild, Gentle, QuietVerbs, EasyVerbs

LEMMA QuietStmt ==
    ASSUME NEW v \in QuietVerbs, NEW t, NEW c, NEW to, NEW ty, NEW ws
    PROVE  Mild(Stmt(v, t, c, to, ty, ws)) /\ Mild(IfThere(Stmt(v, t, c, to, ty, ws)))
<1>1. Stmt(v, t, c, to, ty, ws).verb = v /\ IfThere(Stmt(v, t, c, to, ty, ws)).verb = v
  BY DEF Stmt, IfThere
<1> QED BY <1>1, QuietIsMild

LEMMA TypesAreMild ==
    ASSUME NEW ty, NEW old
    PROVE  /\ Mild(NewType(ty)) /\ Mild(NewTypeOrDup(ty))
           /\ Mild(Stmt("RENAME TYPE", None, None, old, ty, {}))
           /\ Mild(Stmt("DROP TYPE", None, None, None, ty, {}))
BY QuietStmt DEF NewType, NewTypeOrDup, QuietVerbs, EasyVerbs

LEMMA IndexesAreMild ==
    ASSUME NEW t, NEW i
    PROVE  /\ Mild(Index(t, i)) /\ Mild(DropIndexIfExists(i)) /\ Mild(Concurrently(Index(t, i)))
           /\ i \notin OnlineIndexes => Mild(CreateIndex(t, i))
<1>1. Mild(DropIndexIfExists(i))
  BY QuietStmt DEF DropIndexIfExists, QuietVerbs, EasyVerbs
<1>2. \A s : s.verb = "CREATE INDEX" /\ ("IF NOT EXISTS" \in s.words \/ s.col \notin OnlineIndexes) => Mild(s)
  BY DEF Mild, Gentle, EasyVerbs
<1> DEFINE a == Index(t, i)
           b == Concurrently(Index(t, i))
           c == CreateIndex(t, i)
<1>3. a.verb = "CREATE INDEX" /\ "IF NOT EXISTS" \in a.words
  BY DEF Index, Stmt, INE
<1>4. b.verb = "CREATE INDEX" /\ "IF NOT EXISTS" \in b.words
  BY DEF Concurrently, Index, Stmt, INE
<1>5. c.verb = "CREATE INDEX" /\ c.col = i
  BY DEF CreateIndex, Stmt
<1> HIDE DEF a, b, c
<1>6. Mild(a) /\ Mild(b) /\ (i \notin OnlineIndexes => Mild(c))
  BY <1>2, <1>3, <1>4, <1>5
<1> QED BY <1>1, <1>6 DEF a, b, c

(* Indexes that are made again without asking.                              *)
LEMMA MadeAgain ==
    /\ "idx_outbox_worker" \notin OnlineIndexes /\ "idx_outbox_locked" \notin OnlineIndexes
    /\ "idx_delivery_events_seller_order_id" \notin OnlineIndexes
    /\ "idx_dispatch_scores_driver_type" \notin OnlineIndexes
    /\ "idx_dispatch_configs_type_scope" \notin OnlineIndexes
    /\ "idx_delivery_active_driver" \notin OnlineIndexes
BY DEF OnlineIndexes

LEMMA AddsAreMild ==
    ASSUME NEW t, NEW c, NEW ty, NEW ws, <<t, c>> # OrderUuid \/ "DEFAULT" \notin ws
    PROVE  Mild(Stmt("ADD", t, c, None, ty, ws)) /\ Mild(AddBare(t, c, ty, ws))
<1> DEFINE s == Stmt("ADD", t, c, None, ty, ws)
<1>1. s.verb = "ADD" /\ <<s.table, s.col>> = <<t, c>> /\ s.words = ws \cup NameWords(c)
  BY DEF Stmt
<1>2. AddBare(t, c, ty, ws) = s
  BY DEF AddBare
<1> HIDE DEF s
<1>3. <<t, c>> = OrderUuid => "DEFAULT" \notin s.words
  BY <1>1, NoWords
<1>4. Mild(s)
  BY <1>1, <1>3 DEF Mild, Gentle, EasyVerbs
<1> QED BY <1>2, <1>4 DEF s

LEMMA ColumnsAreMild ==
    ASSUME NEW t, NEW c, NEW ty
    PROVE  /\ Mild(Add(t, c, ty)) /\ Mild(AddRequired(t, c))
           /\ Mild(AlterType(t, c, ty)) /\ Mild(IfThere(AlterType(t, c, ty)))
           /\ Mild(SetNotNull(t, c)) /\ Mild(IfThere(SetNotNull(t, c)))
           /\ Mild(Nullable(t, c)) /\ Mild(Constraint(t, c))
           /\ Mild(Stmt("ADD", t, c, None, ty, INE))
<1>1. /\ Mild(Add(t, c, ty)) /\ Mild(AddRequired(t, c))
      /\ Mild(Stmt("ADD", t, c, None, ty, INE))
  <2>1. "DEFAULT" \notin INE /\ "DEFAULT" \notin {"NOT NULL"}
    BY DEF INE
  <2> QED BY <2>1, AddsAreMild DEF Add, AddRequired
<1>2. Mild(AlterType(t, c, ty)) /\ Mild(IfThere(AlterType(t, c, ty)))
  BY QuietStmt DEF AlterType, QuietVerbs, EasyVerbs
<1>3. Mild(SetNotNull(t, c)) /\ Mild(IfThere(SetNotNull(t, c)))
  BY QuietStmt DEF SetNotNull, QuietVerbs, EasyVerbs
<1>4. Mild(Nullable(t, c)) /\ Mild(Constraint(t, c))
  BY QuietStmt DEF Nullable, Constraint, QuietVerbs, EasyVerbs
<1> QED BY <1>1, <1>2, <1>3, <1>4

LEMMA DropsAreMild ==
    ASSUME NEW t, NEW c, NEW n, <<t, c>> \notin Traces
    PROVE  /\ Mild(Gone(t, c)) /\ Mild(IfThere(DropColumn(t, c)))
           /\ <<t, n>> \notin Traces => Mild(IfThere(RenameColumn(t, c, n)))
           /\ Mild(FillColumn(t, c))
<1>0. \A s : /\ s.verb \in {"DROP COLUMN", "RENAME COLUMN", "UPDATE"} /\ s.table = t /\ s.col = c
             /\ s.verb = "RENAME COLUMN" => s.to = n /\ <<t, n>> \notin Traces
             /\ s.verb = "UPDATE" => "WHERE NULL" \notin s.words
             => Mild(s)
  <2> TAKE s
  <2>0. HAVE /\ s.verb \in {"DROP COLUMN", "RENAME COLUMN", "UPDATE"} /\ s.table = t /\ s.col = c
             /\ s.verb = "RENAME COLUMN" => s.to = n /\ <<t, n>> \notin Traces
             /\ s.verb = "UPDATE" => "WHERE NULL" \notin s.words
  <2>1. Traces = CopiedColumns \cup {OrderId, OrderUuid}
    BY DEF Traces, CopiedColumns, OrderId
  <2>2. ~(<<t, c>> \in CopiedColumns) /\ <<t, c>> \notin {OrderId, OrderUuid}
    BY <2>1
  <2>3. s.verb = "RENAME COLUMN" => <<t, n>> \notin {OrderId, OrderUuid}
    BY <2>0, <2>1
  <2>4. Gentle(s)
    BY <2>0, <2>2 DEF Gentle, EasyVerbs
  <2> QED BY <2>0, <2>2, <2>3, <2>4 DEF Mild
<1> DEFINE g == Gone(t, c)
           d == IfThere(DropColumn(t, c))
           r == IfThere(RenameColumn(t, c, n))
           f == FillColumn(t, c)
<1>1. g.verb = "DROP COLUMN" /\ g.table = t /\ g.col = c
  BY DEF Gone, Stmt
<1>2. d.verb = "DROP COLUMN" /\ d.table = t /\ d.col = c
  BY DEF DropColumn, IfThere, Stmt
<1>3. r.verb = "RENAME COLUMN" /\ r.table = t /\ r.col = c /\ r.to = n
  BY DEF RenameColumn, IfThere, Stmt
<1>4. f.verb = "UPDATE" /\ f.table = t /\ f.col = c /\ "WHERE NULL" \notin f.words
  <2>1. f.words = NameWords(c)
    BY DEF FillColumn, Stmt
  <2>2. "WHERE NULL" \notin f.words
    <3>1. NameWords(c) \subseteq {"UPDATE", "TYPE"}
      BY NoWords
    <3>2. "WHERE NULL" \notin NameWords(c)
      BY <3>1
    <3> HIDE DEF f
    <3> QED BY <2>1, <3>2
  <2>3. f.verb = "UPDATE" /\ f.table = t /\ f.col = c
    BY DEF FillColumn, Stmt
  <2> QED BY <2>2, <2>3
<1> HIDE DEF g, d, r, f
<1>5. Mild(g) /\ Mild(d)
  BY <1>0, <1>1, <1>2
<1>6. <<t, n>> \notin Traces => Mild(r)
  BY <1>0, <1>3
<1>7. Mild(f)
  BY <1>0, <1>4
<1> QED BY <1>5, <1>6, <1>7 DEF g, d, r, f

LEMMA TablesAreMild ==
    ASSUME NEW t, NEW cols,
           t = "deliveries" => "seller_order_id" \in DOMAIN cols,
           t = "assignments" => "driver_id" \in DOMAIN cols
    PROVE  /\ Mild(Table(t, cols))
           /\ Table(t, cols).verb = "CREATE TABLE" /\ Table(t, cols).table = t
<1> DEFINE s == Table(t, cols)
<1>1. s.verb = "CREATE TABLE" /\ s.table = t /\ s.cols = cols /\ s.words = {"IF NOT EXISTS"}
  BY DEF Table, TableOf, INE
<1> HIDE DEF s
<1>2. \A c \in CopiedColumns : c[1] = s.table => c[2] \in DOMAIN s.cols
  <2>1. s.table = "deliveries" => "seller_order_id" \in DOMAIN s.cols
    BY <1>1
  <2>2. s.table = "assignments" => "driver_id" \in DOMAIN s.cols
    BY <1>1
  <2> QED BY <2>1, <2>2 DEF CopiedColumns
<1>3. Mild(s)
  BY <1>1, <1>2 DEF Mild, Gentle
<1> QED BY <1>1, <1>3 DEF s

(* Scripts.                                                                 *)
LEMMA MildJoin ==
    ASSUME NEW a, MildScript(a), NEW b, MildScript(b)
    PROVE  MildScript(a \o b)
<1>1. PICK S : a \in Seq(S) /\ \A s \in S : Mild(s)
  BY DEF MildScript
<1>2. PICK T : b \in Seq(T) /\ \A s \in T : Mild(s)
  BY DEF MildScript
<1>3. a \in Seq(S \cup T) /\ b \in Seq(S \cup T)
  BY <1>1, <1>2
<1>4. a \o b \in Seq(S \cup T)
  BY <1>3
<1> QED BY <1>1, <1>2, <1>4 DEF MildScript

LEMMA MildEach ==
    ASSUME NEW m \in Nat, NEW f, f = [i \in 1 .. m |-> f[i]], \A i \in 1 .. m : Mild(f[i])
    PROVE  MildScript(f)
<1> DEFINE S == {f[i] : i \in 1 .. m}
<1>1. \A i \in 1 .. m : f[i] \in S
  OBVIOUS
<1>2. \A s \in S : Mild(s)
  OBVIOUS
<1> HIDE DEF S
<1>3. f \in Seq(S)
  BY <1>1, IsSeqOf
<1> QED BY <1>2, <1>3 DEF MildScript

LEMMA MildFlatten ==
    ASSUME NEW m \in Nat, NEW ss, ss = [i \in 1 .. m |-> ss[i]], \A i \in 1 .. m : MildScript(ss[i])
    PROVE  MildScript(FlattenSeq(ss))
<1> DEFINE Of(i, S) == ss[i] \in Seq(S) /\ \A s \in S : Mild(s)
           Some(i) == CHOOSE S : Of(i, S)
           U == UNION {Some(i) : i \in 1 .. m}
<1>1. \A i \in 1 .. m : Of(i, Some(i))
  <2> TAKE i \in 1 .. m
  <2>1. \E S : Of(i, S)
    BY DEF MildScript
  <2> HIDE DEF Of
  <2> QED BY <2>1
<1> HIDE DEF Some
<1>2. \A i \in 1 .. m : ss[i] \in Seq(U)
  <2> TAKE i \in 1 .. m
  <2>1. ss[i] \in Seq(Some(i)) /\ Some(i) \subseteq U
    BY <1>1
  <2> HIDE DEF U
  <2> QED BY <2>1
<1>3. \A s \in U : Mild(s)
  BY <1>1
<1> HIDE DEF U
<1>4. ss \in Seq(Seq(U))
  BY <1>2, IsSeqOf
<1>5. FlattenSeq(ss) \in Seq(U)
  BY <1>4, FlattenIsSeq
<1> QED BY <1>3, <1>5 DEF MildScript

LEMMA MildNone == MildScript(<<>>)
<1> DEFINE S == {}
<1>1. <<>> \in Seq(S) /\ \A s \in S : Mild(s)
  OBVIOUS
<1> HIDE DEF S
<1> QED BY <1>1 DEF MildScript

LEMMA MildOne ==
    ASSUME NEW a,
           Mild(a)
    PROVE  MildScript(<<a>>)
<1> DEFINE S == {a}
<1>1. <<a>> \in Seq(S) /\ \A s \in S : Mild(s)
  OBVIOUS
<1> HIDE DEF S
<1> QED BY <1>1 DEF MildScript

LEMMA MildTwo ==
    ASSUME NEW a, NEW b,
           Mild(a), Mild(b)
    PROVE  MildScript(<<a, b>>)
<1> DEFINE S == {a, b}
<1>1. <<a, b>> \in Seq(S) /\ \A s \in S : Mild(s)
  OBVIOUS
<1> HIDE DEF S
<1> QED BY <1>1 DEF MildScript

LEMMA MildThree ==
    ASSUME NEW a, NEW b, NEW c,
           Mild(a), Mild(b), Mild(c)
    PROVE  MildScript(<<a, b, c>>)
<1> DEFINE S == {a, b, c}
<1>1. <<a, b, c>> \in Seq(S) /\ \A s \in S : Mild(s)
  OBVIOUS
<1> HIDE DEF S
<1> QED BY <1>1 DEF MildScript

LEMMA MildFour ==
    ASSUME NEW a, NEW b, NEW c, NEW d,
           Mild(a), Mild(b), Mild(c), Mild(d)
    PROVE  MildScript(<<a, b, c, d>>)
<1> DEFINE S == {a, b, c, d}
<1>1. <<a, b, c, d>> \in Seq(S) /\ \A s \in S : Mild(s)
  OBVIOUS
<1> HIDE DEF S
<1> QED BY <1>1 DEF MildScript

LEMMA MildFive ==
    ASSUME NEW a, NEW b, NEW c, NEW d, NEW e,
           Mild(a), Mild(b), Mild(c), Mild(d), Mild(e)
    PROVE  MildScript(<<a, b, c, d, e>>)
<1> DEFINE S == {a, b, c, d, e}
<1>1. <<a, b, c, d, e>> \in Seq(S) /\ \A s \in S : Mild(s)
  OBVIOUS
<1> HIDE DEF S
<1> QED BY <1>1 DEF MildScript

LEMMA MildSix ==
    ASSUME NEW a, NEW b, NEW c, NEW d, NEW e, NEW f,
           Mild(a), Mild(b), Mild(c), Mild(d), Mild(e), Mild(f)
    PROVE  MildScript(<<a, b, c, d, e, f>>)
<1> DEFINE S == {a, b, c, d, e, f}
<1>1. <<a, b, c, d, e, f>> \in Seq(S) /\ \A s \in S : Mild(s)
  OBVIOUS
<1> HIDE DEF S
<1> QED BY <1>1 DEF MildScript

LEMMA MildSeven ==
    ASSUME NEW a, NEW b, NEW c, NEW d, NEW e, NEW f, NEW g,
           Mild(a), Mild(b), Mild(c), Mild(d), Mild(e), Mild(f), Mild(g)
    PROVE  MildScript(<<a, b, c, d, e, f, g>>)
<1> DEFINE S == {a, b, c, d, e, f, g}
<1>1. <<a, b, c, d, e, f, g>> \in Seq(S) /\ \A s \in S : Mild(s)
  OBVIOUS
<1> HIDE DEF S
<1> QED BY <1>1 DEF MildScript

-----------------------------------------------------------------------------
(* The baseline.                                                            *)
LEMMA BaselineTablesAreMild ==
    MildScript(BaselineTables) /\ MildScript(BaselineDeliveries) /\ MildScript(BaselineQueues)
<1>1. MildScript(BaselineTables)
  <2> DEFINE roles == [id |-> "uuid", role |-> "admin_role_enum"]
             cols == [id |-> "uuid", name |-> "varchar", phone |-> "varchar", status |-> "driver_status_enum",
                      city_id |-> "varchar", zone_id |-> "varchar", auth_provider |-> "auth_provider_enum"]
  <2>1. BaselineTables = <<Table("cities", Untyped({"id"})), Table("zones", Untyped({"id"})),
                           Index("zones", "idx_zones_city_id"), Table("admin_users", roles),
                           Index("admin_users", "idx_admin_users_is_active"), Table("drivers", cols),
                           Index("drivers", "idx_drivers_city_id")>>
    BY DEF BaselineTables
  <2> HIDE DEF roles, cols
  <2>2. /\ Mild(Table("cities", Untyped({"id"}))) /\ Mild(Table("zones", Untyped({"id"})))
        /\ Mild(Table("admin_users", roles)) /\ Mild(Table("drivers", cols))
    BY TablesAreMild
  <2> QED BY <2>1, <2>2, IndexesAreMild, MildSeven
<1>2. MildScript(BaselineDeliveries)
  <2> DEFINE cols == [id |-> "uuid", seller_order_id |-> "varchar", channel_id |-> "varchar",
                      driver_id |-> "uuid", status |-> "delivery_status_enum"]
             events == [id |-> "uuid", seller_order_id |-> "varchar",
                        event_type |-> "delivery_event_type_enum"]
             drivers == [id |-> "uuid", driver_id |-> "varchar"]
  <2>1. BaselineDeliveries = <<Table("deliveries", cols), Index("deliveries", "idx_delivery_active_driver"),
                               Table("delivery_events", events),
                               Index("delivery_events", "idx_delivery_events_seller_order_id"),
                               Index("delivery_events", "idx_delivery_pending"),
                               Table("assignments", drivers)>>
    BY DEF BaselineDeliveries
  <2>2. "seller_order_id" \in DOMAIN cols /\ "driver_id" \in DOMAIN drivers
    OBVIOUS
  <2> HIDE DEF cols, events, drivers
  <2>3. /\ Mild(Table("deliveries", cols)) /\ Mild(Table("delivery_events", events))
        /\ Mild(Table("assignments", drivers))
    BY <2>2, TablesAreMild
  <2> QED BY <2>1, <2>3, IndexesAreMild, MildSix
<1>3. MildScript(BaselineQueues)
  <2> DEFINE offers == [id |-> "uuid", status |-> "driver_offer_status_enum",
                        notification_method |-> "notification_method_enum"]
             cols == [id |-> "other", status |-> "outbox_status_enum", idempotency_key |-> "varchar"]
  <2>1. BaselineQueues = <<Table("driver_offers", offers), Index("driver_offers", "idx_delivery_pending"),
                           Table("outbox", cols), Index("outbox", "idx_outbox_worker"),
                           Index("outbox", "idx_outbox_locked"), Table("outbox_archive", cols),
                           Table("audit_logs", Untyped({"id"}))>>
    BY DEF BaselineQueues
  <2> HIDE DEF offers, cols
  <2>2. /\ Mild(Table("driver_offers", offers)) /\ Mild(Table("outbox", cols))
        /\ Mild(Table("outbox_archive", cols)) /\ Mild(Table("audit_logs", Untyped({"id"})))
    BY TablesAreMild
  <2> QED BY <2>1, <2>2, IndexesAreMild, MildSeven
<1> QED BY <1>1, <1>2, <1>3

LEMMA EnumsAreMild == MildScript(Each(BaselineEnums, NewType))
<1> DEFINE f == Each(BaselineEnums, NewType)
<1>1. f = [i \in 1 .. 8 |-> NewType(BaselineEnums[i])]
  BY DEF Each, BaselineEnums
<1>2. f = [i \in 1 .. 8 |-> f[i]]
  BY <1>1
<1>3. \A i \in 1 .. 8 : Mild(f[i])
  BY <1>1, TypesAreMild
<1> HIDE DEF f
<1>4. MildScript(f)
  BY <1>2, <1>3, MildEach
<1> QED BY <1>4 DEF f

LEMMA BaselineIsMild == MildScript(BaselineUp)
<1> DEFINE enums == Each(BaselineEnums, NewType)
<1>1. MildScript(enums)
  BY EnumsAreMild
<1>2. BaselineUp = enums \o BaselineTables \o BaselineDeliveries \o BaselineQueues
  BY DEF BaselineUp
<1> HIDE DEF enums
<1> QED BY <1>1, <1>2, BaselineTablesAreMild, MildJoin

(* A table the script creates.                                              *)
Makes(stmts, t) == \E k \in 1 .. Len(stmts) : stmts[k].verb = "CREATE TABLE" /\ stmts[k].table = t

LEMMA JoinMakes ==
    ASSUME NEW a, MildScript(a), NEW b, MildScript(b), NEW t, Makes(a, t) \/ Makes(b, t)
    PROVE  Makes(a \o b, t)
<1>1. PICK S : a \in Seq(S)
  BY DEF MildScript
<1>2. PICK T : b \in Seq(T)
  BY DEF MildScript
<1>3. a \in Seq(S \cup T) /\ b \in Seq(S \cup T)
  BY <1>1, <1>2
<1>4. /\ Len(a) \in Nat /\ Len(b) \in Nat /\ Len(a \o b) = Len(a) + Len(b)
      /\ \A k \in 1 .. Len(a) : (a \o b)[k] = a[k]
      /\ \A k \in 1 .. Len(b) : (a \o b)[Len(a) + k] = b[k]
  BY <1>3
<1>5. CASE Makes(a, t)
  <2>1. PICK k \in 1 .. Len(a) : a[k].verb = "CREATE TABLE" /\ a[k].table = t
    BY <1>5 DEF Makes
  <2>2. k \in 1 .. Len(a \o b) /\ (a \o b)[k] = a[k]
    BY <1>4
  <2> QED BY <2>1, <2>2 DEF Makes
<1>6. CASE Makes(b, t)
  <2>1. PICK k \in 1 .. Len(b) : b[k].verb = "CREATE TABLE" /\ b[k].table = t
    BY <1>6 DEF Makes
  <2>2. Len(a) + k \in 1 .. Len(a \o b) /\ (a \o b)[Len(a) + k] = b[k]
    BY <1>4
  <2> QED BY <2>1, <2>2 DEF Makes
<1> QED BY <1>5, <1>6

LEMMA MakesAt ==
    ASSUME NEW stmts, NEW t, NEW k \in 1 .. Len(stmts), stmts[k].verb = "CREATE TABLE", stmts[k].table = t
    PROVE  Makes(stmts, t)
BY DEF Makes

(* Every table an online migration names is one the baseline creates.       *)
LEMMA BaselineMakes == ASSUME NEW t \in OnlineTables PROVE Makes(BaselineUp, t)
<1>1. Makes(BaselineTables, "drivers")
  <2>0. Len(BaselineTables) = 7
    BY DEF BaselineTables
  <2>1. BaselineTables[6].verb = "CREATE TABLE" /\ BaselineTables[6].table = "drivers"
    BY DEF BaselineTables, Table, TableOf
  <2>2. 6 \in 1 .. Len(BaselineTables)
    BY <2>0
  <2> QED BY <2>1, <2>2, MakesAt
<1>2. Makes(BaselineQueues, "driver_offers")
  <2>0. Len(BaselineQueues) = 7
    BY DEF BaselineQueues
  <2>1. BaselineQueues[1].verb = "CREATE TABLE" /\ BaselineQueues[1].table = "driver_offers"
    BY DEF BaselineQueues, Table, TableOf
  <2>2. 1 \in 1 .. Len(BaselineQueues)
    BY <2>0
  <2> QED BY <2>1, <2>2, MakesAt
<1>3. /\ Makes(BaselineDeliveries, "deliveries") /\ Makes(BaselineDeliveries, "delivery_events")
      /\ Makes(BaselineDeliveries, "assignments")
  <2>0. Len(BaselineDeliveries) = 6
    BY DEF BaselineDeliveries
  <2>1. /\ BaselineDeliveries[1].verb = "CREATE TABLE" /\ BaselineDeliveries[1].table = "deliveries"
        /\ BaselineDeliveries[3].verb = "CREATE TABLE" /\ BaselineDeliveries[3].table = "delivery_events"
        /\ BaselineDeliveries[6].verb = "CREATE TABLE" /\ BaselineDeliveries[6].table = "assignments"
    BY DEF BaselineDeliveries, Table, TableOf
  <2>2. 1 \in 1 .. Len(BaselineDeliveries) /\ 3 \in 1 .. Len(BaselineDeliveries) /\ 6 \in 1 .. Len(BaselineDeliveries)
    BY <2>0
  <2>3. Makes(BaselineDeliveries, "deliveries")
    BY <2>1, <2>2, MakesAt
  <2>4. Makes(BaselineDeliveries, "delivery_events")
    BY <2>1, <2>2, MakesAt
  <2>5. Makes(BaselineDeliveries, "assignments")
    BY <2>1, <2>2, MakesAt
  <2> QED BY <2>3, <2>4, <2>5
<1> DEFINE enums == Each(BaselineEnums, NewType)
<1>4. MildScript(enums)
  BY EnumsAreMild
<1>5. BaselineUp = enums \o BaselineTables \o BaselineDeliveries \o BaselineQueues
  BY DEF BaselineUp
<1> HIDE DEF enums
<1>6. MildScript(enums \o BaselineTables) /\ MildScript(enums \o BaselineTables \o BaselineDeliveries)
  BY <1>4, BaselineTablesAreMild, MildJoin
<1> QED
  BY <1>1, <1>2, <1>3, <1>4, <1>5, <1>6, BaselineTablesAreMild, JoinMakes DEF OnlineTables

-----------------------------------------------------------------------------
(* The other migrations, script by script.                                  *)
LEMMA RealignmentIsMild ==
    /\ MildScript(DuplicateIndexUp) /\ MildScript(CityZoneUuidUp) /\ MildScript(RealignExpandUp)
    /\ MildScript(RealignIndexesUp)
<1>1. MildScript(DuplicateIndexUp)
  BY IndexesAreMild, MildOne DEF DuplicateIndexUp
<1>2. MildScript(CityZoneUuidUp)
  BY ColumnsAreMild, MildTwo DEF CityZoneUuidUp
<1>3. MildScript(RealignExpandUp)
  BY ColumnsAreMild, IndexesAreMild, MildFour DEF RealignExpandUp
<1>4. MildScript(RealignIndexesUp)
  <2> DEFINE f == RealignIndexesUp
  <2>1. f = [i \in 1 .. 4 |-> Concurrently(Index(RealignIndexNames[i][1], RealignIndexNames[i][2]))]
    BY DEF RealignIndexesUp, Each, RealignIndexNames
  <2>2. f = [i \in 1 .. 4 |-> f[i]]
    BY <2>1
  <2>3. \A i \in 1 .. 4 : Mild(f[i])
    BY <2>1, IndexesAreMild
  <2> HIDE DEF f
  <2>4. MildScript(f)
    BY <2>2, <2>3, MildEach
  <2> QED BY <2>4 DEF f
<1> QED BY <1>1, <1>2, <1>3, <1>4

LEMMA OutboxPriorityIsMild == MildScript(OutboxPriorityUp)
<1> DEFINE words == INE \cup {"NOT NULL", "DEFAULT"}
           archive == [id |-> "other", status |-> "outbox_status_enum", idempotency_key |-> "varchar"]
           tracker == [id |-> "other", status |-> "idempotency_status_enum"]
           a == <<NewTypeOrDup("outbox_priority_enum"),
                  Stmt("ADD", "outbox", "priority", None, "outbox_priority_enum", words),
                  Table("outbox_archive", archive)>>
           b == Each(ArchiveColumns, LAMBDA c : Stmt("ADD", "outbox_archive", c, None, "other", INE))
           c == <<NewTypeOrDup("idempotency_status_enum"), Table("idempotency_tracker", tracker),
                  Index("idempotency_tracker", "idx_idempotency_key")>>
<1>1. OutboxPriorityUp = a \o b \o c
  BY DEF OutboxPriorityUp
<1>2. MildScript(b)
  <2>1. b = [i \in 1 .. 4 |-> Stmt("ADD", "outbox_archive", ArchiveColumns[i], None, "other", INE)]
    BY DEF Each, ArchiveColumns
  <2>2. b = [i \in 1 .. 4 |-> b[i]]
    BY <2>1
  <2>3. \A i \in 1 .. 4 : Mild(b[i])
    BY <2>1, ColumnsAreMild
  <2> HIDE DEF b
  <2> QED BY <2>2, <2>3, MildEach
<1> HIDE DEF b, words, archive, tracker
<1>3. Mild(Table("outbox_archive", archive)) /\ Mild(Table("idempotency_tracker", tracker))
  BY TablesAreMild
<1>5. Mild(Stmt("ADD", "outbox", "priority", None, "outbox_priority_enum", words))
  BY AddsAreMild DEF OrderUuid
<1>4. MildScript(a) /\ MildScript(c)
  BY <1>3, <1>5, TypesAreMild, IndexesAreMild, MildThree
<1> HIDE DEF a, c
<1> QED BY <1>1, <1>2, <1>4, MildJoin

LEMMA BackfillJobsAreMild == MildScript(BackfillJobsUp)
<1> DEFINE cols == Untyped({"id", "table_name", "migration_name"} \cup Range(BackfillJobColumns))
           a == <<Table("backfill_jobs", cols)>>
           b == Each(BackfillIndexes, LAMBDA i : Index("backfill_jobs", i))
<1>1. BackfillJobsUp = a \o b
  BY DEF BackfillJobsUp
<1>2. MildScript(b)
  <2>1. b = [i \in 1 .. 3 |-> Index("backfill_jobs", BackfillIndexes[i])]
    BY DEF Each, BackfillIndexes
  <2>2. b = [i \in 1 .. 3 |-> b[i]]
    BY <2>1
  <2>3. \A i \in 1 .. 3 : Mild(b[i])
    BY <2>1, IndexesAreMild
  <2> HIDE DEF b
  <2> QED BY <2>2, <2>3, MildEach
<1> HIDE DEF b, cols
<1>3. Mild(Table("backfill_jobs", cols))
  BY TablesAreMild
<1>4. MildScript(a)
  BY <1>3, MildOne
<1> HIDE DEF a
<1> QED BY <1>1, <1>2, <1>4, MildJoin

LEMMA AlignmentIsMild ==
    MildScript(DifferenceJobIdUp) /\ MildScript(CriticalAlignmentUp) /\ MildScript(SellerOrderNotNullUp)
<1>1. MildScript(DifferenceJobIdUp)
  BY ColumnsAreMild, MildOne DEF DifferenceJobIdUp
<1>2. MildScript(SellerOrderNotNullUp)
  BY ColumnsAreMild, MildOne DEF SellerOrderNotNullUp
<1>3. MildScript(CriticalAlignmentUp)
  <2> DEFINE a == <<IfThere(AlterType("deliveries", "seller_order_id", "uuid")),
                    IfThere(SetNotNull("deliveries", "seller_order_id"))>>
             b == Each(BackfillJobColumns, LAMBDA c : IfThere(SetNotNull("backfill_jobs", c)))
             c == Each(DifferenceColumns, LAMBDA d : IfThere(SetNotNull("schema_differences", d)))
  <2>1. CriticalAlignmentUp = a \o b \o c
    BY DEF CriticalAlignmentUp
  <2>2. MildScript(b)
    <3>1. b = [i \in 1 .. 9 |-> IfThere(SetNotNull("backfill_jobs", BackfillJobColumns[i]))]
      BY DEF Each, BackfillJobColumns
    <3>2. b = [i \in 1 .. 9 |-> b[i]]
      BY <3>1
    <3>3. \A i \in 1 .. 9 : Mild(b[i])
      BY <3>1, ColumnsAreMild
    <3> HIDE DEF b
    <3> QED BY <3>2, <3>3, MildEach
  <2>3. MildScript(c)
    <3>1. c = [i \in 1 .. 5 |-> IfThere(SetNotNull("schema_differences", DifferenceColumns[i]))]
      BY DEF Each, DifferenceColumns
    <3>2. c = [i \in 1 .. 5 |-> c[i]]
      BY <3>1
    <3>3. \A i \in 1 .. 5 : Mild(c[i])
      BY <3>1, ColumnsAreMild
    <3> HIDE DEF c
    <3> QED BY <3>2, <3>3, MildEach
  <2>4. MildScript(a)
    BY ColumnsAreMild, MildTwo
  <2> HIDE DEF a, b, c
  <2> QED BY <2>1, <2>2, <2>3, <2>4, MildJoin
<1> QED BY <1>1, <1>2, <1>3

LEMMA StatisticsAreMild == MildScript(DriverStatsUp) /\ MildScript(DeliveryMetricsUp)
<1>1. MildScript(DriverStatsUp)
  <2>1. Mild(Table("driver_stats", Untyped({"id", "driver_id"})))
    BY TablesAreMild
  <2> QED BY <2>1, IndexesAreMild, MildTwo DEF DriverStatsUp
<1>2. MildScript(DeliveryMetricsUp)
  <2> DEFINE a == <<Table("delivery_metrics", Untyped({"id", "delivery_id"}))>>
             b == Each(MetricsIndexes, LAMBDA i : Index("delivery_metrics", i))
  <2>1. DeliveryMetricsUp = a \o b
    BY DEF DeliveryMetricsUp
  <2>2. MildScript(b)
    <3>1. b = [i \in 1 .. 4 |-> Index("delivery_metrics", MetricsIndexes[i])]
      BY DEF Each, MetricsIndexes
    <3>2. b = [i \in 1 .. 4 |-> b[i]]
      BY <3>1
    <3>3. \A i \in 1 .. 4 : Mild(b[i])
      BY <3>1, IndexesAreMild
    <3> HIDE DEF b
    <3> QED BY <3>2, <3>3, MildEach
  <2>3. MildScript(a)
    BY TablesAreMild, MildOne
  <2> HIDE DEF a, b
  <2> QED BY <2>1, <2>2, <2>3, MildJoin
<1> QED BY <1>1, <1>2

LEMMA DispatchScoringIsMild == MildScript(DispatchScoringUp) /\ MildScript(SafeDispatchUp)
<1>1. MildScript(DispatchScoresUp) /\ MildScript(DispatchConfigsUp)
  <2> DEFINE scores == [id |-> "uuid", score_type |-> "dispatch_scores_score_type_enum",
                        score_source |-> "dispatch_scores_score_source_enum"]
             configs == [id |-> "uuid", config_type |-> "dispatch_configs_config_type_enum",
                         config_scope |-> "dispatch_configs_config_scope_enum"]
  <2>1. /\ DispatchScoresUp = <<Table("dispatch_scores", scores),
                                Index("dispatch_scores", "idx_dispatch_scores_driver_type")>>
        /\ DispatchConfigsUp = <<Table("dispatch_configs", configs),
                                 Index("dispatch_configs", "idx_dispatch_configs_type_scope")>>
    BY DEF DispatchScoresUp, DispatchConfigsUp
  <2> HIDE DEF scores, configs
  <2>2. Mild(Table("dispatch_scores", scores)) /\ Mild(Table("dispatch_configs", configs))
    BY TablesAreMild
  <2> QED BY <2>1, <2>2, IndexesAreMild, MildTwo
<1>2. MildScript(DispatchScoringUp)
  <2> DEFINE a == Each(ScoringEnums, NewTypeOrDup)
             d == <<Stmt("INSERT", "dispatch_configs", None, None, None, {})>>
  <2>1. DispatchScoringUp = a \o DispatchScoresUp \o DispatchConfigsUp \o d
    BY DEF DispatchScoringUp
  <2>2. MildScript(a)
    <3>1. a = [i \in 1 .. 4 |-> NewTypeOrDup(ScoringEnums[i])]
      BY DEF Each, ScoringEnums
    <3>2. a = [i \in 1 .. 4 |-> a[i]]
      BY <3>1
    <3>3. \A i \in 1 .. 4 : Mild(a[i])
      BY <3>1, TypesAreMild
    <3> HIDE DEF a
    <3> QED BY <3>2, <3>3, MildEach
  <2>3. MildScript(d)
    <3>1. "INSERT" \in QuietVerbs
      BY DEF QuietVerbs, EasyVerbs
    <3> QED BY <3>1, QuietStmt, MildOne
  <2> HIDE DEF a, d
  <2> QED BY <1>1, <2>1, <2>2, <2>3, MildJoin
<1>3. MildScript(SafeDispatchUp)
  <2> DEFINE a == Each(DecisionEnums, NewTypeOrDup)
             cols == [id |-> "uuid", cohort |-> DecisionEnums[1],
                      dispatch_method |-> DecisionEnums[2], dispatch_status |-> DecisionEnums[3]]
             b == <<Table("dispatch_decisions", cols),
                    Index("dispatch_decisions", "idx_dispatch_decisions_delivery_id")>>
  <2>1. SafeDispatchUp = a \o b
    BY DEF SafeDispatchUp
  <2>2. MildScript(a)
    <3>1. a = [i \in 1 .. 3 |-> NewTypeOrDup(DecisionEnums[i])]
      BY DEF Each, DecisionEnums
    <3>2. a = [i \in 1 .. 3 |-> a[i]]
      BY <3>1
    <3>3. \A i \in 1 .. 3 : Mild(a[i])
      BY <3>1, TypesAreMild
    <3> HIDE DEF a
    <3> QED BY <3>2, <3>3, MildEach
  <2> HIDE DEF a, cols
  <2>3. Mild(Table("dispatch_decisions", cols))
    BY TablesAreMild
  <2>4. MildScript(b)
    BY <2>3, IndexesAreMild, MildTwo
  <2> HIDE DEF b
  <2> QED BY <2>1, <2>2, <2>4, MildJoin
<1> QED BY <1>2, <1>3

LEMMA TrackingIsMild ==
    MildScript(ActivityTrackingUp) /\ MildScript(CleanupUp) /\ MildScript(ActiveDriverIndexUp)
<1>1. MildScript(ActivityTrackingUp)
  <2> DEFINE f == ActivityTrackingUp
  <2>1. f = [i \in 1 .. 3 |-> Add(ActivityColumns[i][1], ActivityColumns[i][2], "other")]
    BY DEF ActivityTrackingUp
  <2>2. f = [i \in 1 .. 3 |-> f[i]]
    BY <2>1
  <2>3. \A i \in 1 .. 3 : Mild(f[i])
    BY <2>1, ColumnsAreMild
  <2> HIDE DEF f
  <2>4. MildScript(f)
    BY <2>2, <2>3, MildEach
  <2> QED BY <2>4 DEF f
<1>2. MildScript(CleanupUp)
  <2> DEFINE names == <<"current_lat_v2", "current_lon_v2", "last_lat_v2", "last_lon_v2">>
             b == Each(names, LAMBDA c : IfThere(DropColumn("drivers", c)))
  <2>1. CleanupUp = b
    BY DEF CleanupUp
  <2>2. b = [i \in 1 .. 4 |-> IfThere(DropColumn("drivers", names[i]))]
    BY DEF Each
  <2>3. b = [i \in 1 .. 4 |-> b[i]]
    BY <2>2
  <2> HIDE DEF names
  <2>4. \A c : <<"drivers", c>> \notin Traces
    BY DEF Traces, CopiedColumns, OrderUuid
  <2>5. \A i \in 1 .. 4 : Mild(b[i])
    BY <2>2, <2>4, DropsAreMild
  <2> HIDE DEF b
  <2> QED BY <2>1, <2>3, <2>5, MildEach
<1>3. MildScript(ActiveDriverIndexUp)
  BY IndexesAreMild, MildOne DEF ActiveDriverIndexUp
<1> QED BY <1>1, <1>2, <1>3

LEMMA RecreateIsMild ==
    ASSUME NEW t, NEW c, <<t, c>> \notin Traces
    PROVE  MildScript(Recreate(t, c))
BY DropsAreMild, ColumnsAreMild, MildTwo DEF Recreate

LEMMA RetypeIsMild ==
    ASSUME NEW t, NEW c, NEW ty, NEW old
    PROVE  MildScript(RetypeEnum(t, c, ty, old))
BY TypesAreMild, ColumnsAreMild, MildFour DEF RetypeEnum

LEMMA SyncExpandIsMild == MildScript(SyncExpandUp)
<1> DEFINE a == Each(SyncedIndexes, DropIndexIfExists)
           cols == Untyped({"id", "backfill_job_id"} \cup Range(DifferenceColumns))
           words == INE \cup {"DEFAULT"}
           b == <<Table("schema_differences", cols), Stmt("ADD", "outbox", "updated_at", None, "other", words),
                  Add("drivers", "last_lat", "other"), Add("drivers", "last_lon", "other"),
                  Add("assignments", "driver_id_uuid", "uuid")>>
           c == <<DropIndexIfExists("idx_delivery_events_seller_order_id")>>
           d == <<SetNotNull("outbox", "idempotency_key"), SetNotNull("outbox_archive", "idempotency_key")>>
           r1 == Recreate("backfill_jobs", "table_name")
           r2 == Recreate("backfill_jobs", "migration_name")
           r3 == Recreate("delivery_events", "seller_order_id")
           r4 == Recreate("deliveries", "channel_id")
<1>1. SyncExpandUp = a \o b \o r1 \o r2 \o c \o r3 \o r4 \o d
  BY DEF SyncExpandUp
<1>2. MildScript(a)
  <2> DEFINE m == Len(SyncedIndexes)
             names == {"idx_backfill_jobs_status", "idx_backfill_jobs_table_name", "idx_backfill_jobs_created_at",
                       "idx_delivery_active_driver", "idx_driver_stats_driver_id",
                       "idx_delivery_metrics_delivery_id", "idx_delivery_metrics_seller_order_id",
                       "idx_delivery_metrics_driver_id", "idx_delivery_metrics_zone_id"}
             two == <<"idx_delivery_active_driver", "idx_driver_stats_driver_id">>
  <2>1. SyncedIndexes \in Seq(names)
    <3>1. BackfillIndexes \in Seq(names)
      BY DEF BackfillIndexes
    <3>2. MetricsIndexes \in Seq(names)
      BY DEF MetricsIndexes
    <3>3. two \in Seq(names) /\ SyncedIndexes = BackfillIndexes \o two \o MetricsIndexes
      BY DEF SyncedIndexes
    <3> HIDE DEF names, two
    <3> QED BY <3>1, <3>2, <3>3
  <2> HIDE DEF names
  <2>2. m \in Nat /\ DOMAIN SyncedIndexes = 1 .. m
    BY <2>1
  <2>3. a = [i \in 1 .. m |-> DropIndexIfExists(SyncedIndexes[i])]
    BY <2>2 DEF Each
  <2> HIDE DEF m
  <2>4. a = [i \in 1 .. m |-> a[i]]
    BY <2>3
  <2>5. \A i \in 1 .. m : Mild(a[i])
    BY <2>3, IndexesAreMild
  <2> HIDE DEF a
  <2> QED BY <2>2, <2>4, <2>5, MildEach
<1> HIDE DEF a, cols, words
<1>3. Mild(Table("schema_differences", cols))
  BY TablesAreMild
<1>4. MildScript(b)
  <2>1. Mild(Stmt("ADD", "outbox", "updated_at", None, "other", words))
    BY AddsAreMild DEF OrderUuid
  <2> QED BY <1>3, <2>1, ColumnsAreMild, MildFive
<1>5. MildScript(c) /\ MildScript(d)
  BY IndexesAreMild, ColumnsAreMild, MildOne, MildTwo
<1>6. /\ <<"backfill_jobs", "table_name">> \notin Traces
      /\ <<"backfill_jobs", "migration_name">> \notin Traces
      /\ <<"delivery_events", "seller_order_id">> \notin Traces
      /\ <<"deliveries", "channel_id">> \notin Traces
  BY DEF Traces, CopiedColumns, OrderUuid
<1>7. MildScript(r1) /\ MildScript(r2) /\ MildScript(r3) /\ MildScript(r4)
  BY <1>6, RecreateIsMild
<1> HIDE DEF b, c, d, r1, r2, r3, r4
<1>8. MildScript(a \o b \o r1 \o r2)
  BY <1>2, <1>4, <1>7, MildJoin
<1> DEFINE half == a \o b \o r1 \o r2
<1>9. MildScript(half \o c \o r3 \o r4 \o d)
  <2> HIDE DEF half
  <2>1. MildScript(half)
    BY <1>8 DEF half
  <2> QED BY <2>1, <1>5, <1>7, MildJoin
<1> QED BY <1>1, <1>9

LEMMA StatusTypesAreMild == ASSUME NEW ty PROVE MildScript(StatusTypes(ty))
<1> DEFINE f == StatusTypes(ty)
<1>1. f = [i \in 1 .. 2 |-> AlterType(OutboxTables[i], "status", ty)]
  BY DEF StatusTypes, Each, OutboxTables
<1>2. f = [i \in 1 .. 2 |-> f[i]]
  BY <1>1
<1>3. \A i \in 1 .. 2 : Mild(f[i])
  BY <1>1, ColumnsAreMild
<1> HIDE DEF f
<1>4. MildScript(f)
  BY <1>2, <1>3, MildEach
<1> QED BY <1>4 DEF f

LEMMA SyncOutboxIsMild == MildScript(SyncOutboxEnumsUp)
<1> DEFINE words == {"NOT NULL", "DEFAULT"}
           a == <<DropIndexIfExists("idx_outbox_worker"), DropIndexIfExists("idx_outbox_locked")>>
           t1 == StatusTypes("text")
           b == <<Stmt("RENAME TYPE", None, None, "outbox_status_enum_old", "outbox_status_enum", {}),
                  NewType("outbox_status_enum")>>
           t2 == StatusTypes("outbox_status_enum")
           c == <<Stmt("DROP TYPE", None, None, None, "outbox_status_enum_old", {})>>
           r == RetypeEnum("outbox", "priority", "outbox_priority_enum", "outbox_priority_enum_old")
           d == <<Gone("drivers", "auth_provider"), NewType("auth_provider_enum"),
                  AddBare("drivers", "auth_provider", "auth_provider_enum", words),
                  CreateIndex("outbox", "idx_outbox_worker"), CreateIndex("outbox", "idx_outbox_locked"),
                  CreateIndex("delivery_events", "idx_delivery_events_seller_order_id")>>
<1>1. SyncOutboxEnumsUp = a \o t1 \o b \o t2 \o c \o r \o d
  BY DEF SyncOutboxEnumsUp
<1> HIDE DEF words
<1>2. MildScript(t1) /\ MildScript(t2) /\ MildScript(r)
  BY StatusTypesAreMild, RetypeIsMild
<1>3. MildScript(a)
  BY IndexesAreMild, MildTwo
<1>4. MildScript(b) /\ MildScript(c)
  BY TypesAreMild, MildOne, MildTwo
<1>5. Mild(Gone("drivers", "auth_provider"))
  <2>1. <<"drivers", "auth_provider">> \notin Traces
    BY DEF Traces, CopiedColumns, OrderUuid
  <2> QED BY <2>1, DropsAreMild
<1>6. MildScript(d)
  <2>1. Mild(AddBare("drivers", "auth_provider", "auth_provider_enum", words))
    BY AddsAreMild DEF OrderUuid
  <2> QED BY <1>5, <2>1, TypesAreMild, IndexesAreMild, MadeAgain, MildSix
<1> HIDE DEF a, b, c, d, r, t1, t2
<1> DEFINE half == a \o t1 \o b \o t2
<1>7. MildScript(half)
  BY <1>2, <1>3, <1>4, MildJoin
<1>8. SyncOutboxEnumsUp = half \o c \o r \o d
  BY <1>1
<1> HIDE DEF half
<1> QED BY <1>2, <1>4, <1>6, <1>7, <1>8, MildJoin

LEMMA SyncDispatchIsMild == MildScript(SyncDispatchEnumsUp)
<1> DEFINE a == Each(DispatchIndexes, LAMBDA i : DropIndexIfExists(i[2]))
           retypes == [n \in 1 .. 7 |->
                         RetypeEnum(DispatchEnums[n][1], DispatchEnums[n][2], EnumNames[n], OldNames[n])]
           b == FlattenSeq(retypes)
           c == Each(DispatchIndexes, LAMBDA i : CreateIndex(i[1], i[2]))
           d == <<CreateIndex("deliveries", "idx_delivery_active_driver"),
                  Constraint("schema_differences", "fk_job"), Constraint("dispatch_decisions", "fk_driver"),
                  Constraint("dispatch_decisions", "fk_delivery")>>
<1>1. SyncDispatchEnumsUp = a \o b \o c \o d
  BY DEF SyncDispatchEnumsUp
<1>2. MildScript(a)
  <2>1. a = [i \in 1 .. 2 |-> DropIndexIfExists(DispatchIndexes[i][2])]
    BY DEF Each, DispatchIndexes
  <2>2. a = [i \in 1 .. 2 |-> a[i]]
    BY <2>1
  <2>3. \A i \in 1 .. 2 : Mild(a[i])
    BY <2>1, IndexesAreMild
  <2> HIDE DEF a
  <2> QED BY <2>2, <2>3, MildEach
<1>3. MildScript(c)
  <2>1. c = [i \in 1 .. 2 |-> CreateIndex(DispatchIndexes[i][1], DispatchIndexes[i][2])]
    BY DEF Each, DispatchIndexes
  <2>2. c = [i \in 1 .. 2 |-> c[i]]
    BY <2>1
  <2>3. \A i \in 1 .. 2 : DispatchIndexes[i][2] \notin OnlineIndexes
    BY MadeAgain DEF DispatchIndexes
  <2>4. \A i \in 1 .. 2 : Mild(c[i])
    BY <2>1, <2>3, IndexesAreMild
  <2> HIDE DEF c
  <2> QED BY <2>2, <2>4, MildEach
<1>4. MildScript(b)
  <2>1. retypes = [n \in 1 .. 7 |-> retypes[n]]
    OBVIOUS
  <2>2. \A n \in 1 .. 7 : MildScript(retypes[n])
    BY RetypeIsMild
  <2> HIDE DEF retypes
  <2> QED BY <2>1, <2>2, MildFlatten
<1>5. MildScript(d)
  BY IndexesAreMild, MadeAgain, ColumnsAreMild, MildFour
<1> HIDE DEF a, b, c, d
<1> QED BY <1>1, <1>2, <1>3, <1>4, <1>5, MildJoin

LEMMA RegistrationIsMild ==
    /\ MildScript(PhoneCityNullableUp) /\ MildScript(RegistrationStatusUp)
    /\ MildScript(RegistrationNameUp) /\ MildScript(RegistrationStubUp)
<1>1. MildScript(PhoneCityNullableUp)
  BY ColumnsAreMild, MildTwo DEF PhoneCityNullableUp
<1>2. MildScript(RegistrationStatusUp)
  <2> DEFINE words == {"NOT NULL", "DEFAULT"}
             a == <<NewType("driver_registration_status_enum"),
                    AddBare("drivers", "registration_status", "driver_registration_status_enum", words)>>
             b == Each(RegistrationColumns, LAMBDA c : AddBare("drivers", c, "other", {}))
             d == <<FillColumn("drivers", "registration_status")>>
  <2>1. RegistrationStatusUp = a \o b \o d
    BY DEF RegistrationStatusUp
  <2>2. MildScript(b)
    <3>1. b = [i \in 1 .. 3 |-> AddBare("drivers", RegistrationColumns[i], "other", {})]
      BY DEF Each, RegistrationColumns
    <3>2. b = [i \in 1 .. 3 |-> b[i]]
      BY <3>1
    <3>3. \A i \in 1 .. 3 : Mild(b[i])
      BY <3>1, AddsAreMild
    <3> HIDE DEF b
    <3> QED BY <3>2, <3>3, MildEach
  <2> HIDE DEF words
  <2>3. MildScript(a)
    <3>1. Mild(AddBare("drivers", "registration_status", "driver_registration_status_enum", words))
      BY AddsAreMild DEF OrderUuid
    <3> QED BY <3>1, TypesAreMild, MildTwo
  <2>4. MildScript(d)
    <3>1. <<"drivers", "registration_status">> \notin Traces
      BY DEF Traces, CopiedColumns, OrderUuid
    <3> QED BY <3>1, DropsAreMild, MildOne
  <2> HIDE DEF a, b, d
  <2> QED BY <2>1, <2>2, <2>3, <2>4, MildJoin
<1>3. MildScript(RegistrationNameUp)
  <2>1. /\ <<"drivers", "registrationStatus">> \notin Traces
        /\ <<"drivers", "registration_status">> \notin Traces
    BY DEF Traces, CopiedColumns, OrderUuid
  <2> QED BY <2>1, DropsAreMild, MildOne DEF RegistrationNameUp
<1>4. MildScript(RegistrationStubUp)
  BY MildNone DEF RegistrationStubUp
<1> QED BY <1>1, <1>2, <1>3, <1>4

LEMMA LastScriptsAreMild ==
    /\ MildScript(LoginLockUp) /\ MildScript(DriverNameNullableUp)
    /\ MildScript(UniqueSellerOrderUp) /\ MildScript(SellerNameAddressUp)
<1>1. MildScript(LoginLockUp)
  <2> DEFINE f == LoginLockUp
  <2>1. f = [i \in 1 .. 2 |-> Add("admin_users", LoginLockColumns[i], "other")]
    BY DEF LoginLockUp, Each, LoginLockColumns
  <2>2. f = [i \in 1 .. 2 |-> f[i]]
    BY <2>1
  <2>3. \A i \in 1 .. 2 : Mild(f[i])
    BY <2>1, ColumnsAreMild
  <2> HIDE DEF f
  <2>4. MildScript(f)
    BY <2>2, <2>3, MildEach
  <2> QED BY <2>4 DEF f
<1>2. MildScript(DriverNameNullableUp)
  BY ColumnsAreMild, MildOne DEF DriverNameNullableUp
<1>3. MildScript(UniqueSellerOrderUp)
  <2>1. "DELETE" \in QuietVerbs
    BY DEF QuietVerbs, EasyVerbs
  <2> QED BY <2>1, QuietStmt, ColumnsAreMild, MildThree DEF UniqueSellerOrderUp
<1>4. MildScript(SellerNameAddressUp)
  <2> DEFINE f == SellerNameAddressUp
  <2>1. f = [i \in 1 .. 2 |-> Add("deliveries", SellerColumns[i], "other")]
    BY DEF SellerNameAddressUp, Each, SellerColumns
  <2>2. f = [i \in 1 .. 2 |-> f[i]]
    BY <2>1
  <2>3. \A i \in 1 .. 2 : Mild(f[i])
    BY <2>1, ColumnsAreMild
  <2> HIDE DEF f
  <2>4. MildScript(f)
    BY <2>2, <2>3, MildEach
  <2> QED BY <2>4 DEF f
<1> QED BY <1>1, <1>2, <1>3, <1>4

(* Only the backfill of the order ids and the contraction after it touch    *)
(* them.                                                                    *)
LEMMA ChainIsMild == ASSUME NEW n \in DOMAIN Chain, n \notin {5, 6} PROVE MildScript(Chain[n].up)
<1>1. CASE n \in 1 .. 12
  <2>1. /\ Chain[1].up = BaselineUp
        /\ Chain[2].up = DuplicateIndexUp
        /\ Chain[3].up = CityZoneUuidUp
        /\ Chain[4].up = RealignExpandUp
        /\ Chain[7].up = RealignIndexesUp
        /\ Chain[8].up = OutboxPriorityUp
        /\ Chain[9].up = BackfillJobsUp
        /\ Chain[10].up = DifferenceJobIdUp
        /\ Chain[11].up = CriticalAlignmentUp
        /\ Chain[12].up = SellerOrderNotNullUp
    BY DEF Chain, File
  <2>2. /\ MildScript(Chain[1].up)
        /\ MildScript(Chain[2].up)
        /\ MildScript(Chain[3].up)
        /\ MildScript(Chain[4].up)
        /\ MildScript(Chain[7].up)
        /\ MildScript(Chain[8].up)
        /\ MildScript(Chain[9].up)
        /\ MildScript(Chain[10].up)
        /\ MildScript(Chain[11].up)
        /\ MildScript(Chain[12].up)
    BY <2>1, BaselineIsMild, RealignmentIsMild, OutboxPriorityIsMild, BackfillJobsAreMild, AlignmentIsMild
  <2> QED BY <1>1, <2>2
<1>2. CASE n \in 13 .. 22
  <2>1. /\ Chain[13].up = DriverStatsUp
        /\ Chain[14].up = DeliveryMetricsUp
        /\ Chain[15].up = DispatchScoringUp
        /\ Chain[16].up = SafeDispatchUp
        /\ Chain[17].up = ActivityTrackingUp
        /\ Chain[18].up = CleanupUp
        /\ Chain[19].up = ActiveDriverIndexUp
        /\ Chain[20].up = SyncExpandUp
        /\ Chain[21].up = SyncOutboxEnumsUp
        /\ Chain[22].up = SyncDispatchEnumsUp
    BY DEF Chain, File
  <2>2. /\ MildScript(Chain[13].up)
        /\ MildScript(Chain[14].up)
        /\ MildScript(Chain[15].up)
        /\ MildScript(Chain[16].up)
        /\ MildScript(Chain[17].up)
        /\ MildScript(Chain[18].up)
        /\ MildScript(Chain[19].up)
        /\ MildScript(Chain[20].up)
        /\ MildScript(Chain[21].up)
        /\ MildScript(Chain[22].up)
    BY <2>1, StatisticsAreMild, DispatchScoringIsMild, TrackingIsMild, SyncExpandIsMild, SyncOutboxIsMild, SyncDispatchIsMild
  <2> QED BY <1>2, <2>2
<1>3. CASE n \in 23 .. 30
  <2>1. /\ Chain[23].up = PhoneCityNullableUp
        /\ Chain[24].up = RegistrationStatusUp
        /\ Chain[25].up = RegistrationNameUp
        /\ Chain[26].up = RegistrationStubUp
        /\ Chain[27].up = LoginLockUp
        /\ Chain[28].up = DriverNameNullableUp
        /\ Chain[29].up = UniqueSellerOrderUp
        /\ Chain[30].up = SellerNameAddressUp
    BY DEF Chain, File
  <2>2. /\ MildScript(Chain[23].up)
        /\ MildScript(Chain[24].up)
        /\ MildScript(Chain[25].up)
        /\ MildScript(Chain[26].up)
        /\ MildScript(Chain[27].up)
        /\ MildScript(Chain[28].up)
        /\ MildScript(Chain[29].up)
        /\ MildScript(Chain[30].up)
    BY <2>1, RegistrationIsMild, LastScriptsAreMild
  <2> QED BY <1>3, <2>2
<1>4. n \in 1 .. 30
  BY ChainLength
<1> QED BY <1>1, <1>2, <1>3, <1>4

LEMMA MildIsGentle == ASSUME NEW stmts, MildScript(stmts) PROVE GentleScript(stmts)
BY DEF MildScript, Mild, GentleScript

LEMMA GentleOne ==
    ASSUME NEW a, Gentle(a)
    PROVE  GentleScript(<<a>>)
<1> DEFINE S == {a}
<1>1. <<a>> \in Seq(S) /\ \A s \in S : Gentle(s)
  OBVIOUS
<1> HIDE DEF S
<1> QED BY <1>1 DEF GentleScript

LEMMA GentleThree ==
    ASSUME NEW a, NEW b, NEW c, Gentle(a), Gentle(b), Gentle(c)
    PROVE  GentleScript(<<a, b, c>>)
<1> DEFINE S == {a, b, c}
<1>1. <<a, b, c>> \in Seq(S) /\ \A s \in S : Gentle(s)
  OBVIOUS
<1> HIDE DEF S
<1> QED BY <1>1 DEF GentleScript

LEMMA RealignScripts ==
    Chain[5].up = <<NewExtension, OrderBackfill, DriverBackfill>> /\ Chain[6].up = <<OrderContraction>>
<1>1. Chain[5].up = RealignBackfillUp /\ Chain[6].up = RealignContractUp
  BY DEF Chain, File
<1>2. RealignBackfillUp = <<NewExtension, OrderBackfill, DriverBackfill>>
  BY DEF RealignBackfillUp, OrderBackfill, DriverBackfill
<1>3. RealignContractUp = <<OrderContraction>>
  BY DEF RealignContractUp, OrderContraction
<1> QED BY <1>1, <1>2, <1>3

(* No migration of the chain takes a table away, or a column that an online *)
(* migration copies from.                                                   *)
LEMMA ChainIsGentle == ASSUME NEW n \in DOMAIN Chain PROVE GentleScript(Chain[n].up)
<1>1. CASE n \notin {5, 6}
  BY <1>1, ChainIsMild, MildIsGentle
<1>2. CASE n = 5
  <2>1. /\ OrderBackfill.verb = "UPDATE" /\ DriverBackfill.verb = "UPDATE"
        /\ OrderBackfill.to # None /\ DriverBackfill.to # None
    BY DEF OrderBackfill, DriverBackfill, IfThere, Stmt, None
  <2>2. Gentle(OrderBackfill) /\ Gentle(DriverBackfill)
    BY <2>1 DEF Gentle, EasyVerbs
  <2>3. Gentle(NewExtension)
    <3>1. NewExtension.verb = "CREATE EXTENSION"
      BY DEF NewExtension, Stmt
    <3> QED BY <3>1 DEF Gentle, EasyVerbs
  <2> QED BY <1>2, <2>2, <2>3, GentleThree, RealignScripts
<1>3. CASE n = 6
  <2>1. /\ OrderContraction.verb = "REPLACE COLUMN" /\ OrderContraction.table = "deliveries"
        /\ OrderContraction.col = "seller_order_id_uuid"
    BY DEF OrderContraction, Stmt
  <2>2. Gentle(OrderContraction)
    BY <2>1 DEF Gentle, CopiedColumns
  <2> QED BY <1>3, <2>2, GentleOne, RealignScripts
<1> QED BY <1>1, <1>2, <1>3

LEMMA BaselineGrows ==
    ASSUME NEW d, HasCopied(d), Whole(d, Chain[1].up).ok
    PROVE  OnlineTables \subseteq DOMAIN Whole(d, Chain[1].up).db.tables
<1>1. 1 \in DOMAIN Chain
  BY ChainLength
<1>2. GentleScript(BaselineUp)
  BY <1>1, ChainIsGentle, BaselineTransaction
<1>3. \A k \in 1 .. Len(BaselineUp) : BaselineUp[k].verb = "CREATE TABLE"
             => BaselineUp[k].table \in DOMAIN Whole(d, BaselineUp).db.tables
  BY <1>2, GentleScriptGrows, BaselineTransaction
<1>4. OnlineTables \subseteq DOMAIN Whole(d, BaselineUp).db.tables
  BY <1>3, BaselineMakes DEF Makes
<1> QED BY <1>4, BaselineTransaction

-----------------------------------------------------------------------------
(* A child that applies migrations: the baseline first if nobody has, and   *)
(* within the statements of the next one.                                   *)
Applying(c) ==
    c.does = "run" /\ c.todo # <<>> =>
        /\ c.todo \in Seq(DOMAIN Chain)
        /\ Head(c.todo) = 1 \/ 1 \in Range(recorded)
        /\ c.at \in 0 .. Len(Chain[Head(c.todo)].up)

Child(does, todo, at) == [does |-> does, todo |-> todo, at |-> at]

(* The backfill, for an id that only looks like a UUID.                     *)
Excused(w) == w.at = 5 /\ w.unfit

(* As long as nobody reverts, the tables of the baseline are there when it  *)
(* is recorded, and the copied columns whenever their tables are.           *)
BaselineInv ==
    /\ checkout \in DOMAIN Chain /\ releases \subseteq DOMAIN Chain
    /\ DOMAIN child = Operators /\ DOMAIN outcome = Operators
    /\ \A o \in Operators : child[o] = Child(child[o].does, child[o].todo, child[o].at)
    /\ ~reverted =>
         /\ recorded \in Seq(Nat) /\ HasCopied(mdb)
         /\ 1 \in Range(recorded) => OnlineTables \subseteq DOMAIN mdb.tables
         /\ \A o \in Operators : Applying(child[o])
         /\ \A o \in Operators : outcome[o].how = "failed" =>
              Transactional(outcome[o].at) \/ Excused(outcome[o])

(* A step that writes nothing and starts no run.                            *)
LEMMA Quietly ==
    ASSUME BaselineInv, UNCHANGED <<mdb, recorded, releases, reverted>>, checkout' \in DOMAIN Chain,
           DOMAIN child' = Operators, DOMAIN outcome' = Operators,
           \A p \in Operators : \/ child'[p] = child[p]
                                \/ \E does, todo, at : child'[p] = Child(does, todo, at) /\ does # "run",
           \A p \in Operators : \/ outcome'[p] = outcome[p]
                                \/ outcome'[p].how # "failed"
                                \/ Transactional(outcome'[p].at) \/ Excused(outcome'[p])
    PROVE  BaselineInv'
<1>1. ASSUME NEW p \in Operators
      PROVE  /\ child'[p] = Child(child'[p].does, child'[p].todo, child'[p].at)
             /\ child'[p] = child[p] \/ child'[p].does # "run"
  BY DEF BaselineInv, Child
<1>2. ~reverted => \A p \in Operators : Applying(child[p])'
  BY <1>1 DEF BaselineInv, Applying
<1>3. ~reverted => \A p \in Operators : outcome'[p].how = "failed" =>
        Transactional(outcome'[p].at) \/ Excused(outcome'[p])
  BY DEF BaselineInv
<1> QED
  BY <1>1, <1>2, <1>3 DEF BaselineInv, Excused

LEMMA ExitOutcome ==
    ASSUME BaselineInv, NEW o \in Operators, NEW how, Exit(o, how)
    PROVE  /\ DOMAIN outcome' = Operators /\ outcome'[o] = how
           /\ \A p \in Operators : p # o => outcome'[p] = outcome[p]
BY DEF BaselineInv, Exit

LEMMA ChildEnds ==
    ASSUME BaselineInv, NEW o \in Operators, child' = [child EXCEPT ![o] = NoChild]
    PROVE  /\ DOMAIN child' = Operators
           /\ \A p \in Operators : \/ child'[p] = child[p]
                                   \/ \E does, todo, at : child'[p] = Child(does, todo, at) /\ does # "run"
<1>1. NoChild = Child("nothing", <<>>, 0)
  BY DEF NoChild, Child
<1> QED BY <1>1 DEF BaselineInv

LEMMA FailsQuietly ==
    ASSUME BaselineInv, NEW o \in Operators, NEW n, Fails(o, n), checkout' = checkout, releases' = releases,
           child[o].does = "run" => Transactional(n) \/ (n = 5 /\ Unfit(mdb))
    PROVE  BaselineInv'
<1>1. /\ DOMAIN child' = Operators
      /\ \A p \in Operators : \/ child'[p] = child[p]
                              \/ \E does, todo, at : child'[p] = Child(does, todo, at) /\ does # "run"
  BY ChildEnds DEF Fails
<1>2. /\ DOMAIN outcome' = Operators
      /\ \A p \in Operators : \/ outcome'[p] = outcome[p]
                              \/ outcome'[p].how # "failed"
                              \/ Transactional(outcome'[p].at) \/ Excused(outcome'[p])
  <2>1. CASE cli[o] = "idle"
    BY <2>1 DEF Fails, BaselineInv
  <2>2. CASE cli[o] # "idle"
    <3> DEFINE how == IF child[o].does = "run" THEN "failed" ELSE "revert failed"
    <3> DEFINE w == [how |-> how, at |-> n, unfit |-> Unfit(mdb)]
    <3>1. Exit(o, w)
      BY <2>2 DEF Fails
    <3>3. w.how = how /\ w.at = n /\ (w.unfit <=> Unfit(mdb))
      OBVIOUS
    <3> HIDE DEF w
    <3>2. /\ DOMAIN outcome' = Operators /\ outcome'[o] = w
          /\ \A p \in Operators : p # o => outcome'[p] = outcome[p]
      BY <3>1, ExitOutcome
    <3>4. w.how = "failed" => Transactional(w.at) \/ Excused(w)
      BY <3>3 DEF Excused
    <3> QED BY <3>2, <3>4
  <2> QED BY <2>1, <2>2
<1>3. UNCHANGED <<mdb, recorded, releases, reverted>> /\ checkout' \in DOMAIN Chain
  BY DEF Fails, BaselineInv
<1> QED BY <1>1, <1>2, <1>3, Quietly

LEMMA UpLength == ASSUME NEW n \in DOMAIN Chain PROVE Len(Chain[n].up) \in Nat
BY ChainIsGentle DEF GentleScript

LEMMA RangeAppend ==
    ASSUME NEW S, NEW s \in Seq(S), NEW x \in S
    PROVE  Append(s, x) \in Seq(S) /\ Range(Append(s, x)) = Range(s) \cup {x}
<1>1. /\ Append(s, x) \in Seq(S) /\ DOMAIN Append(s, x) = 1 .. (Len(s) + 1)
      /\ DOMAIN s = 1 .. Len(s) /\ Len(s) \in Nat
  OBVIOUS
<1>2. \A i \in 1 .. (Len(s) + 1) : Append(s, x)[i] = IF i = Len(s) + 1 THEN x ELSE s[i]
  OBVIOUS
<1> QED BY <1>1, <1>2 DEF Range

LEMMA TailIsSeq == ASSUME NEW S, NEW s \in Seq(S), s # <<>> PROVE Tail(s) \in Seq(S)
OBVIOUS

LEMMA NumberInChain == ASSUME NEW n \in DOMAIN Chain PROVE n \in Nat
<1>1. n \in 1 .. 30
  BY ChainLength
<1> QED BY <1>1

LEMMA StartsWithBaseline ==
    ASSUME BaselineInv, NEW o \in Operators, StartApply(o)
    PROVE  BaselineInv'
<1> DEFINE c == Child("run", Pending, 0)
<1>1. /\ DOMAIN child' = Operators /\ child'[o] = c
      /\ \A p \in Operators : p # o => child'[p] = child[p]
  BY DEF StartApply, BaselineInv, Child
<1>2. checkout \in Nat /\ 1 .. checkout \subseteq DOMAIN Chain
  <2>1. checkout \in 1 .. 30
    BY ChainLength DEF BaselineInv
  <2> QED BY <2>1, ChainLength
<1>3. /\ Pending \in Seq(1 .. checkout)
      /\ Pending # <<>> => Head(Pending) = 1 \/ 1 \in Range(recorded)
  BY <1>2, PendingIs
<1>4. c = Child(c.does, c.todo, c.at) /\ c.does = "run" /\ c.todo = Pending /\ c.at = 0
  BY DEF Child
<1>5. Applying(c)
  <2> SUFFICES ASSUME Pending # <<>>
               PROVE  /\ Pending \in Seq(DOMAIN Chain)
                      /\ Head(Pending) = 1 \/ 1 \in Range(recorded)
                      /\ 0 \in 0 .. Len(Chain[Head(Pending)].up)
    BY <1>4 DEF Applying
  <2>1. Pending \in Seq(DOMAIN Chain)
    BY <1>2, <1>3
  <2>2. Head(Pending) \in DOMAIN Chain
    BY <2>1
  <2>3. Len(Chain[Head(Pending)].up) \in Nat
    BY <2>2, UpLength
  <2> QED BY <1>3, <2>1, <2>3
<1> HIDE DEF c
<1>6. UNCHANGED <<mdb, recorded, checkout, releases, outcome, reverted>>
  BY DEF StartApply
<1>7. \A p \in Operators : child'[p] = Child(child'[p].does, child'[p].todo, child'[p].at)
  BY <1>1, <1>4 DEF BaselineInv
<1>8. ~reverted => \A p \in Operators : Applying(child[p])'
  <2> SUFFICES ASSUME ~reverted, NEW p \in Operators PROVE Applying(child[p])'
    OBVIOUS
  <2>1. Applying(child'[p])
    BY <1>1, <1>5 DEF BaselineInv
  <2> QED BY <1>6, <2>1 DEF Applying
<1> QED
  BY <1>1, <1>6, <1>7, <1>8 DEF BaselineInv

(* A migration, or one statement outside a transaction, that was executed. *)
LEMMA AppliesOn ==
    ASSUME BaselineInv, NEW o \in Operators, child[o].does = "run", child[o].todo # <<>>,
           NEW n, n = Head(child[o].todo),
           ~reverted => Grown(mdb, mdb'),
           UNCHANGED <<checkout, releases, outcome, reverted>>,
           \/ /\ Recorded(o, n)
              /\ ~reverted /\ n = 1 => OnlineTables \subseteq DOMAIN mdb'.tables
           \/ /\ recorded' = recorded /\ child' = [child EXCEPT ![o].at = @ + 1]
              /\ ~reverted => child[o].at < Len(Chain[n].up)
    PROVE  BaselineInv'
<1> DEFINE c == child[o]
<1>0. c = Child(c.does, c.todo, c.at) /\ DOMAIN child = Operators
  BY DEF BaselineInv
<1>1. CASE Recorded(o, n) /\ (~reverted /\ n = 1 => OnlineTables \subseteq DOMAIN mdb'.tables)
  <2>1. /\ recorded' = Append(recorded, n) /\ DOMAIN child' = Operators
        /\ child'[o] = Child("run", Tail(c.todo), 0)
        /\ \A p \in Operators : p # o => child'[p] = child[p]
    BY <1>0, <1>1 DEF Recorded, Child
  <2>2. /\ Child("run", Tail(c.todo), 0).does = "run" /\ Child("run", Tail(c.todo), 0).at = 0
        /\ Child("run", Tail(c.todo), 0).todo = Tail(c.todo)
    BY DEF Child
  <2>3. \A p \in Operators : child'[p] = Child(child'[p].does, child'[p].todo, child'[p].at)
    BY <2>1, <2>2 DEF BaselineInv
  <2>4. ASSUME ~reverted
        PROVE  /\ recorded' \in Seq(Nat) /\ HasCopied(mdb')
               /\ 1 \in Range(recorded') => OnlineTables \subseteq DOMAIN mdb'.tables
               /\ \A p \in Operators : Applying(child[p])'
    <3>1. recorded \in Seq(Nat) /\ c.todo \in Seq(DOMAIN Chain) /\ n \in DOMAIN Chain
      BY <2>4 DEF BaselineInv, Applying
    <3>2. n \in Nat
      BY <3>1, NumberInChain
    <3>3. recorded' \in Seq(Nat) /\ Range(recorded') = Range(recorded) \cup {n}
      BY <2>1, <3>1, <3>2, RangeAppend
    <3>4. HasCopied(mdb') /\ (1 \in Range(recorded) => OnlineTables \subseteq DOMAIN mdb'.tables)
      BY <2>4 DEF BaselineInv, Grown
    <3>5. n = 1 \/ 1 \in Range(recorded)
      BY <2>4 DEF BaselineInv, Applying
    <3>6. 1 \in Range(recorded')
      BY <3>3, <3>5
    <3>7. OnlineTables \subseteq DOMAIN mdb'.tables
      BY <1>1, <2>4, <3>4, <3>5
    <3>8. Applying(child[o])'
      <4> SUFFICES ASSUME Tail(c.todo) # <<>>
                   PROVE  Tail(c.todo) \in Seq(DOMAIN Chain) /\ 0 \in 0 .. Len(Chain[Head(Tail(c.todo))].up)
        BY <2>1, <2>2, <3>6 DEF Applying
      <4>1. Tail(c.todo) \in Seq(DOMAIN Chain)
        BY <3>1, TailIsSeq
      <4>2. Head(Tail(c.todo)) \in DOMAIN Chain
        <5> DEFINE rest == Tail(c.todo)
        <5> HIDE DEF rest
        <5>1. rest \in Seq(DOMAIN Chain) /\ rest # <<>>
          BY <4>1 DEF rest
        <5>2. Head(rest) \in DOMAIN Chain
          BY <5>1
        <5> QED BY <5>2 DEF rest
      <4>3. Len(Chain[Head(Tail(c.todo))].up) \in Nat
        BY <4>2, UpLength
      <4> QED BY <4>1, <4>3
    <3>9. \A p \in Operators : p # o => Applying(child[p])'
      BY <2>1, <2>4, <3>6 DEF BaselineInv, Applying
    <3> QED BY <3>3, <3>4, <3>7, <3>8, <3>9
  <2> QED
    BY <2>1, <2>3, <2>4 DEF BaselineInv
<1>2. CASE /\ recorded' = recorded /\ child' = [child EXCEPT ![o].at = @ + 1]
           /\ ~reverted => c.at < Len(Chain[n].up)
  <2>1. /\ DOMAIN child' = Operators
        /\ child'[o] = Child("run", c.todo, c.at + 1)
        /\ \A p \in Operators : p # o => child'[p] = child[p]
    BY <1>0, <1>2 DEF Child
  <2>2. /\ Child("run", c.todo, c.at + 1).does = "run" /\ Child("run", c.todo, c.at + 1).at = c.at + 1
        /\ Child("run", c.todo, c.at + 1).todo = c.todo
    BY DEF Child
  <2>3. \A p \in Operators : child'[p] = Child(child'[p].does, child'[p].todo, child'[p].at)
    BY <2>1, <2>2 DEF BaselineInv
  <2>4. ASSUME ~reverted
        PROVE  \A p \in Operators : Applying(child[p])'
    <3>1. c.todo \in Seq(DOMAIN Chain) /\ n \in DOMAIN Chain /\ c.at \in 0 .. Len(Chain[n].up)
      BY <2>4 DEF BaselineInv, Applying
    <3>2. c.at + 1 \in 0 .. Len(Chain[n].up)
      BY <1>2, <2>4, <3>1, UpLength
    <3>3. Applying(child[o])'
      BY <1>2, <2>1, <2>2, <2>4, <3>1, <3>2 DEF BaselineInv, Applying
    <3>4. \A p \in Operators : p # o => Applying(child[p])'
      BY <1>2, <2>1, <2>4 DEF BaselineInv, Applying
    <3> QED BY <3>3, <3>4
  <2> QED
    BY <1>2, <2>1, <2>3, <2>4 DEF BaselineInv, Grown
<1> QED BY <1>1, <1>2

LEMMA HeadIsIn == ASSUME NEW S, NEW s \in Seq(S), s # <<>> PROVE Head(s) \in S
OBVIOUS

(* After a revert nothing is promised.                                      *)
LEMMA FailsReverted ==
    ASSUME BaselineInv, NEW o \in Operators, NEW n, Fails(o, n), reverted,
           checkout' = checkout, releases' = releases
    PROVE  BaselineInv'
<1>1. /\ DOMAIN child' = Operators
      /\ \A p \in Operators : \/ child'[p] = child[p]
                              \/ \E does, todo, at : child'[p] = Child(does, todo, at) /\ does # "run"
  BY ChildEnds DEF Fails
<1>2. \A p \in Operators : child'[p] = Child(child'[p].does, child'[p].todo, child'[p].at)
  BY <1>1 DEF BaselineInv, Child
<1>3. DOMAIN outcome' = Operators /\ reverted'
  BY DEF Fails, Exit, BaselineInv
<1> QED BY <1>1, <1>2, <1>3 DEF BaselineInv

LEMMA NextStatement ==
    ASSUME NEW m \in Nat, NEW k \in 0 .. m, k # m
    PROVE  k + 1 \in 1 .. m /\ k < m
OBVIOUS

LEMMA ApplyKeepsBaseline ==
    ASSUME BaselineInv, NEW o \in Operators, ApplyMigration(o)
    PROVE  BaselineInv'
<1> DEFINE n == Head(child[o].todo)
           up == Chain[n].up
           at == child[o].at
<1>0. /\ child[o].does = "run" /\ child[o].todo # <<>>
      /\ UNCHANGED <<checkout, releases>>
  BY DEF ApplyMigration
<1>1. ASSUME ~reverted
      PROVE  /\ n \in DOMAIN Chain /\ GentleScript(up) /\ at \in 0 .. Len(up) /\ HasCopied(mdb)
             /\ n # 1 => OnlineTables \subseteq DOMAIN mdb.tables
  <2>1. child[o].todo \in Seq(DOMAIN Chain) /\ at \in 0 .. Len(up) /\ HasCopied(mdb)
    BY <1>0, <1>1 DEF BaselineInv, Applying
  <2>2. n \in DOMAIN Chain
    BY <1>0, <2>1, HeadIsIn
  <2>3. n # 1 => OnlineTables \subseteq DOMAIN mdb.tables
    BY <1>0, <1>1 DEF BaselineInv, Applying
  <2> QED BY <2>1, <2>2, <2>3, ChainIsGentle
<1>2. CASE Transactional(n) /\ Whole(mdb, up).ok
  <2>1. /\ mdb' = Whole(mdb, up).db /\ Recorded(o, n)
        /\ UNCHANGED <<outcome, reverted>>
    BY <1>2 DEF ApplyMigration
  <2>2. ~reverted => Grown(mdb, mdb')
    BY <1>1, <2>1, GentleScriptGrows
  <2>3. ~reverted /\ n = 1 => OnlineTables \subseteq DOMAIN mdb'.tables
    BY <1>1, <1>2, <2>1, BaselineGrows
  <2> HIDE DEF n
  <2> QED BY <1>0, <2>1, <2>2, <2>3, AppliesOn DEF n
<1>3. CASE Transactional(n) /\ ~Whole(mdb, up).ok
  <2>1. Fails(o, n)
    BY <1>3 DEF ApplyMigration
  <2> QED BY <1>0, <1>3, <2>1, FailsQuietly
<1>4. CASE ~Transactional(n) /\ at = Len(up)
  <2>1. Recorded(o, n) /\ UNCHANGED <<mdb, outcome, reverted>>
    BY <1>4 DEF ApplyMigration
  <2>2. n # 1
    BY <1>4, BaselineTransaction
  <2>3. ~reverted => Grown(mdb, mdb')
    BY <1>1, <2>1 DEF Grown
  <2> HIDE DEF n
  <2> QED BY <1>0, <2>1, <2>2, <2>3, AppliesOn DEF n
<1>5. CASE ~Transactional(n) /\ at # Len(up) /\ Executes(mdb, up[at + 1])
  <2>1. /\ mdb' = Effect(mdb, up[at + 1]) /\ child' = [child EXCEPT ![o].at = @ + 1]
        /\ UNCHANGED <<recorded, outcome, reverted>>
    BY <1>5 DEF ApplyMigration
  <2>2. ASSUME ~reverted
        PROVE  Grown(mdb, mdb') /\ at < Len(up)
    <3>1. PICK S : up \in Seq(S) /\ \A s \in S : Gentle(s)
      BY <1>1, <2>2 DEF GentleScript
    <3>2. at \in 0 .. Len(up) /\ Len(up) \in Nat
      BY <1>1, <2>2, <3>1
    <3>3. at + 1 \in 1 .. Len(up)
      BY <1>5, <3>2, NextStatement
    <3>4. Gentle(up[at + 1])
      BY <3>1, <3>3
    <3>5. Grown(mdb, mdb')
      BY <1>1, <2>1, <2>2, <3>4, GentleKeeps
    <3> QED BY <1>5, <3>2, <3>5, NextStatement
  <2> HIDE DEF n
  <2> QED BY <1>0, <2>1, <2>2, AppliesOn DEF n
<1>6. CASE ~Transactional(n) /\ at # Len(up) /\ ~Executes(mdb, up[at + 1])
  <2>1. Fails(o, n)
    BY <1>6 DEF ApplyMigration
  <2>3. CASE n = 5 /\ Unfit(mdb)
    BY <1>0, <2>1, <2>3, FailsQuietly
  <2>4. CASE reverted
    BY <1>0, <2>1, <2>4, FailsReverted
  <2>2. ASSUME ~reverted, ~(n = 5 /\ Unfit(mdb))
        PROVE  FALSE
    <3>1. n \in DOMAIN Chain /\ at \in 0 .. Len(up) /\ Len(up) \in Nat
      BY <1>1, <2>2, UpLength
    <3>2. at + 1 \in 1 .. Len(up)
      BY <1>6, <3>1, NextStatement
    <3>3. n # 1
      BY <1>6, BaselineTransaction
    <3> QED BY <1>1, <1>6, <2>2, <3>1, <3>2, <3>3, OnlineRepeats
  <2> QED BY <2>2, <2>3, <2>4
<1> QED
  BY <1>2, <1>3, <1>4, <1>5, <1>6

LEMMA RevertKeepsBaseline ==
    ASSUME BaselineInv, NEW o \in Operators, RevertMigration(o)
    PROVE  BaselineInv'
<1> DEFINE n == Head(child[o].todo)
<1>1. CASE Fails(o, n)
  <2>1. child[o].does # "run" /\ checkout' = checkout /\ releases' = releases
    BY DEF RevertMigration
  <2> QED BY <1>1, <2>1, FailsQuietly
<1>2. CASE reverted' = TRUE /\ child' = [child EXCEPT ![o] = NoChild]
  <2>1. /\ DOMAIN child' = Operators
        /\ \A p \in Operators : \/ child'[p] = child[p]
                                \/ \E does, todo, at : child'[p] = Child(does, todo, at) /\ does # "run"
    BY <1>2, ChildEnds
  <2>2. \A p \in Operators : child'[p] = Child(child'[p].does, child'[p].todo, child'[p].at)
    BY <2>1 DEF BaselineInv, Child
  <2>3. DOMAIN outcome' = Operators
    BY DEF RevertMigration, Exit, Fails, BaselineInv
  <2>4. checkout' = checkout /\ releases' = releases
    BY DEF RevertMigration
  <2> QED BY <1>2, <2>1, <2>2, <2>3, <2>4 DEF BaselineInv
<1> QED
  BY <1>1, <1>2 DEF RevertMigration

LEMMA WriteKeepsBaseline ==
    ASSUME BaselineInv, ApplicationWrites
    PROVE  BaselineInv'
<1> DEFINE ts == [t \in DOMAIN mdb.tables |-> TRUE]
           Cs(ids) == [k \in DOMAIN mdb.cols |->
                         Column(IF k = OrderId THEN ids
                                ELSE IF k[2] \in {"seller_order_id_uuid", "driver_id_uuid"} THEN {} ELSE {"row"},
                                mdb.cols[k].type)]
<1>0. PICK ids : mdb' = SetTables(mdb, ts, Cs(ids))
  BY DEF ApplicationWrites
<1> DEFINE cs == Cs(ids)
<1>1. mdb' = SetTables(mdb, ts, cs)
  BY <1>0
<1>2. DOMAIN ts = DOMAIN mdb.tables /\ DOMAIN cs = DOMAIN mdb.cols
  OBVIOUS
<1> HIDE DEF ts, cs
<1>3. DOMAIN mdb'.tables = DOMAIN mdb.tables /\ DOMAIN mdb'.cols = DOMAIN mdb.cols
  BY <1>1, <1>2 DEF SetTables, Database
<1>4. UNCHANGED <<recorded, checkout, releases, child, outcome, reverted>>
  BY DEF ApplicationWrites
<1>5. ~reverted => HasCopied(mdb') /\ \A o \in Operators : Applying(child[o])'
  BY <1>3, <1>4 DEF BaselineInv, HasCopied, Applying
<1> QED
  BY <1>3, <1>4, <1>5 DEF BaselineInv

(* What the server cuts off ends the child; at most an index was made.      *)
CutIndex(o) ==
    /\ child[o].does = "run" /\ child[o].todo # <<>>
    /\ LET n == Head(child[o].todo)
           k == child[o].at + 1
       IN  /\ ~Transactional(n) /\ k <= Len(Chain[n].up)
           /\ Has(Chain[n].up[k], "CONCURRENTLY") /\ Executes(mdb, Chain[n].up[k])
           /\ mdb' = Effect(mdb, Chain[n].up[k])

LEMMA CutIndexIs ==
    ASSUME BaselineInv, NEW o \in Operators, CutIndex(o), ~reverted
    PROVE  \E n \in DOMAIN Chain : \E k \in 1 .. Len(Chain[n].up) :
             /\ n \in {2, 7} /\ ~Transactional(n)
             /\ Executes(mdb, Chain[n].up[k]) /\ mdb' = Effect(mdb, Chain[n].up[k])
<1> DEFINE n == Head(child[o].todo)
           k == child[o].at + 1
<1>1. child[o].todo \in Seq(DOMAIN Chain) /\ child[o].at \in 0 .. Len(Chain[n].up) /\ child[o].todo # <<>>
  BY DEF BaselineInv, Applying, CutIndex
<1>2. /\ ~Transactional(n) /\ k <= Len(Chain[n].up)
      /\ Has(Chain[n].up[k], "CONCURRENTLY") /\ Executes(mdb, Chain[n].up[k])
      /\ mdb' = Effect(mdb, Chain[n].up[k])
  BY DEF CutIndex
<1>3. n \in DOMAIN Chain
  BY <1>1, HeadIsIn
<1>4. Len(Chain[n].up) \in Nat
  BY <1>3, UpLength
<1>5. k \in 1 .. Len(Chain[n].up)
  <2> HIDE DEF n
  <2> QED BY <1>1, <1>2, <1>4
<1> HIDE DEF n, k
<1>6. n # 5
  <2> SUFFICES ASSUME n = 5 PROVE FALSE
    OBVIOUS
  <2>1. Chain[n].up = <<NewExtension, OrderBackfill, DriverBackfill>>
    BY RealignScripts
  <2>2. Chain[n].up[k] \in {NewExtension, OrderBackfill, DriverBackfill}
    <3> HIDE DEF NewExtension, OrderBackfill, DriverBackfill
    <3> QED BY <1>5, <2>1
  <2>3. NewExtension.words = INE \cup NameWords(None)
    BY DEF NewExtension, Stmt
  <2>4. /\ OrderBackfill.words = ({"WHERE NULL"} \cup NameWords("seller_order_id_uuid")) \cup {"GUARDED"}
        /\ DriverBackfill.words = ({"WHERE NULL"} \cup NameWords("driver_id_uuid")) \cup {"GUARDED"}
    BY DEF OrderBackfill, DriverBackfill, IfThere, Stmt
  <2>5. /\ "CONCURRENTLY" \notin NewExtension.words /\ "CONCURRENTLY" \notin OrderBackfill.words
        /\ "CONCURRENTLY" \notin DriverBackfill.words
    BY <2>3, <2>4, NoWords DEF INE
  <2> QED BY <1>2, <2>2, <2>5 DEF Has
<1>7. n \in {2, 7}
  BY <1>2, <1>3, <1>6, NoTransaction
<1> QED BY <1>2, <1>3, <1>5, <1>7

LEMMA CutOffIs ==
    ASSUME BaselineInv, NEW o \in Operators, CutOff(o)
    PROVE  /\ UNCHANGED <<recorded, releases, reverted, checkout, raced>>
           /\ child' = child \/ child' = [child EXCEPT ![o] = NoChild]
           /\ \/ UNCHANGED <<cli, outcome>> /\ cli[o] = "idle" /\ child' = [child EXCEPT ![o] = NoChild]
              \/ Exit(o, Ended("cut off", 0))
           /\ \/ UNCHANGED <<mdb, clean>>
              \/ CutIndex(o) /\ Wrote(o) /\ child' = [child EXCEPT ![o] = NoChild]
<1>1. UNCHANGED <<recorded, releases, reverted, checkout, raced>>
  BY DEF CutOff
<1>2. CASE ChildCutOff(o)
  <2>1. child' = [child EXCEPT ![o] = NoChild] /\ child[o].todo # <<>>
    BY <1>2 DEF ChildCutOff
  <2>2. (UNCHANGED <<cli, outcome>> /\ cli[o] = "idle") \/ Exit(o, Ended("cut off", 0))
    BY <1>2 DEF ChildCutOff
  <2>3. UNCHANGED <<mdb, clean>> \/ (CutIndex(o) /\ Wrote(o))
    BY <1>2 DEF ChildCutOff, CutIndex
  <2> QED BY <1>1, <2>1, <2>2, <2>3
<1>3. CASE CommandCutOff(o)
  BY <1>1, <1>3 DEF CommandCutOff
<1> QED BY <1>2, <1>3 DEF CutOff

LEMMA CutOffKeepsBaseline ==
    ASSUME BaselineInv, NEW o \in Operators, CutOff(o)
    PROVE  BaselineInv'
<1>1. /\ UNCHANGED <<recorded, releases, reverted, checkout>>
      /\ child' = child \/ child' = [child EXCEPT ![o] = NoChild]
  BY CutOffIs
<1>2. /\ DOMAIN child' = Operators
      /\ \A p \in Operators : \/ child'[p] = child[p]
                              \/ \E does, todo, at : child'[p] = Child(does, todo, at) /\ does # "run"
  BY <1>1, ChildEnds DEF BaselineInv
<1>3. /\ DOMAIN outcome' = Operators
      /\ \A p \in Operators : outcome'[p] = outcome[p] \/ outcome'[p].how # "failed"
  <2>1. CASE outcome' = outcome
    BY <2>1 DEF BaselineInv
  <2>2. CASE Exit(o, Ended("cut off", 0))
    <3>1. Ended("cut off", 0).how = "cut off"
      BY DEF Ended
    <3>2. /\ DOMAIN outcome' = Operators /\ outcome'[o] = Ended("cut off", 0)
          /\ \A p \in Operators : p # o => outcome'[p] = outcome[p]
      BY <2>2, ExitOutcome
    <3> QED BY <3>1, <3>2
  <2> QED BY <2>1, <2>2, CutOffIs
<1>4. checkout' \in DOMAIN Chain
  BY <1>1 DEF BaselineInv
<1>5. CASE mdb' = mdb
  BY <1>1, <1>2, <1>3, <1>4, <1>5, Quietly
<1>6. CASE CutIndex(o) /\ ~reverted
  <2>0. PICK n \in DOMAIN Chain : \E k \in 1 .. Len(Chain[n].up) : mdb' = Effect(mdb, Chain[n].up[k])
    BY <1>6, CutIndexIs
  <2>1. PICK k \in 1 .. Len(Chain[n].up) : mdb' = Effect(mdb, Chain[n].up[k])
    BY <2>0
  <2>2. Gentle(Chain[n].up[k])
    BY ChainIsGentle DEF GentleScript
  <2>3. Grown(mdb, mdb')
    BY <1>6, <2>1, <2>2, GentleKeeps DEF BaselineInv
  <2>4. ASSUME NEW p \in Operators
        PROVE  /\ child'[p] = Child(child'[p].does, child'[p].todo, child'[p].at)
               /\ child'[p] = child[p] \/ child'[p].does # "run"
    BY <1>2 DEF BaselineInv, Child
  <2>5. \A p \in Operators : Applying(child[p])'
    BY <1>1, <1>6, <2>4 DEF BaselineInv, Applying
  <2>6. \A p \in Operators : outcome'[p].how = "failed" => Transactional(outcome'[p].at) \/ Excused(outcome'[p])
    BY <1>3, <1>6 DEF BaselineInv
  <2> QED BY <1>1, <1>2, <1>3, <1>4, <1>6, <2>3, <2>4, <2>5, <2>6 DEF BaselineInv, Grown, Excused
<1>7. CASE reverted
  <2>1. \A p \in Operators : child'[p] = Child(child'[p].does, child'[p].todo, child'[p].at)
    BY <1>2 DEF BaselineInv, Child
  <2> QED BY <1>1, <1>2, <1>3, <1>4, <1>7, <2>1 DEF BaselineInv
<1> QED BY <1>5, <1>6, <1>7, CutOffIs

(* Steps that only move the command, or end its child.                      *)
LEMMA CommandKeepsBaseline ==
    ASSUME BaselineInv, NEW o \in Operators,
           \/ RunMigrate(o) \/ CheckOrphanedMigrations(o) \/ AcquireAdvisoryLock(o)
           \/ RunSimulation(o) \/ SkipSimulation(o) \/ FinishApply(o) \/ Crash(o) \/ OrphanEnds(o)
    PROVE  BaselineInv'
<1>1. UNCHANGED <<mdb, recorded, releases, reverted, checkout>>
  BY DEF RunMigrate, CheckOrphanedMigrations, AcquireAdvisoryLock, RunSimulation, SkipSimulation,
         FinishApply, Crash, OrphanEnds
<1>2. child' = child \/ child' = [child EXCEPT ![o] = NoChild]
  BY DEF RunMigrate, CheckOrphanedMigrations, AcquireAdvisoryLock, RunSimulation, SkipSimulation,
         FinishApply, Crash, OrphanEnds
<1>3. \/ outcome' = outcome
      \/ \E how \in {"refused", "rehearsal failed", "applied", "killed"} : \E k : Exit(o, Ended(how, k))
  BY DEF RunMigrate, CheckOrphanedMigrations, AcquireAdvisoryLock, RunSimulation, SkipSimulation,
         FinishApply, Crash, OrphanEnds
<1>4. /\ DOMAIN child' = Operators
      /\ \A p \in Operators : \/ child'[p] = child[p]
                              \/ \E does, todo, at : child'[p] = Child(does, todo, at) /\ does # "run"
  BY <1>2, ChildEnds DEF BaselineInv
<1>5. /\ DOMAIN outcome' = Operators
      /\ \A p \in Operators : outcome'[p] = outcome[p] \/ outcome'[p].how # "failed"
  <2>1. CASE outcome' = outcome
    BY <2>1 DEF BaselineInv
  <2>2. ASSUME NEW how \in {"refused", "rehearsal failed", "applied", "killed"}, NEW k,
               Exit(o, Ended(how, k))
        PROVE  /\ DOMAIN outcome' = Operators
               /\ \A p \in Operators : outcome'[p] = outcome[p] \/ outcome'[p].how # "failed"
    <3>1. Ended(how, k).how = how
      BY DEF Ended
    <3>2. /\ DOMAIN outcome' = Operators /\ outcome'[o] = Ended(how, k)
          /\ \A p \in Operators : p # o => outcome'[p] = outcome[p]
      BY <2>2, ExitOutcome
    <3> QED BY <3>1, <3>2
  <2> QED BY <1>3, <2>1, <2>2
<1>6. checkout' \in DOMAIN Chain
  BY <1>1 DEF BaselineInv
<1> QED BY <1>1, <1>4, <1>5, <1>6, Quietly

LEMMA RunRevertKeepsBaseline ==
    ASSUME BaselineInv, NEW o \in Operators, RunRevert(o)
    PROVE  BaselineInv'
<1>1. /\ DOMAIN child' = Operators
      /\ \A p \in Operators : \/ child'[p] = child[p]
                              \/ child'[p] = Child("revert", <<Last(recorded)>>, 0)
  BY DEF RunRevert, BaselineInv, Child
<1>2. UNCHANGED <<mdb, recorded, releases, reverted, checkout, outcome>>
  BY DEF RunRevert
<1>3. checkout' \in DOMAIN Chain /\ DOMAIN outcome' = Operators
  BY <1>2 DEF BaselineInv
<1> QED BY <1>1, <1>2, <1>3, Quietly

LEMMA BaselineKept == CliSpec => []BaselineInv
<1>1. CliInit => BaselineInv
  <2> SUFFICES ASSUME CliInit PROVE BaselineInv
    OBVIOUS
  <2>1. PICK d \in Installations : mdb = d.db /\ recorded = d.recorded /\ releases = d.releases
    BY DEF CliInit
  <2>2. /\ recorded \in Seq(Nat) /\ releases \subseteq DOMAIN Chain
        /\ 1 \in Range(recorded) => OnlineTables \subseteq DOMAIN mdb.tables
        /\ HasCopied(mdb)
    BY <2>1, InstallationsAssumption
  <2>3. /\ DOMAIN child = Operators /\ \A o \in Operators : child[o] = NoChild
        /\ DOMAIN outcome = Operators /\ \A o \in Operators : outcome[o] = Ended("nothing", 0)
    BY DEF CliInit
  <2>4. NoChild = Child("nothing", <<>>, 0) /\ NoChild.does = "nothing" /\ Ended("nothing", 0).how = "nothing"
    BY DEF NoChild, Child, Ended
  <2>5. NoChild = Child(NoChild.does, NoChild.todo, NoChild.at)
    BY DEF NoChild, Child
  <2>6. checkout \in DOMAIN Chain
    BY <2>2 DEF CliInit
  <2> QED BY <2>2, <2>3, <2>4, <2>5, <2>6 DEF BaselineInv, Applying
<1>2. ASSUME BaselineInv, [CliNext]_cliVars
      PROVE  BaselineInv'
  <2>1. CASE UNCHANGED cliVars
    BY <1>2, <2>1 DEF cliVars, BaselineInv, Applying
  <2>2. ASSUME NEW k \in releases, Deploy(k)
        PROVE  BaselineInv'
    BY <1>2, <2>2 DEF Deploy, BaselineInv, Applying
  <2> QED
    BY <1>2, <2>1, <2>2, CommandKeepsBaseline, StartsWithBaseline, ApplyKeepsBaseline,
       RunRevertKeepsBaseline, RevertKeepsBaseline, WriteKeepsBaseline, CutOffKeepsBaseline DEF CliNext
<1> QED
  BY <1>1, <1>2, PTL DEF CliSpec

(* Whatever operators run, kill, rerun and deploy, in whatever order, and   *)
(* whatever the orphan of a killed run still does: a migration outside a    *)
(* transaction (DuplicateIndex, the backfill and the indexes of the         *)
(* realignment) fails only when an id to be copied looks like a UUID and is *)
(* none, and then only the backfill, as long as nobody reverts one.  The    *)
(* server may still cut it off, for the statement_timeout or the extension. *)
THEOREM OnlineMigrationsResume == CliSpec => []RerunResumes
<1>1. BaselineInv => RerunResumes
  BY DEF BaselineInv, RerunResumes, Excused
<1> QED
  BY <1>1, BaselineKept, PTL

-----------------------------------------------------------------------------
(* The ids of the orders through the realignment.                           *)

(* The numbers after r, in order.                                           *)
InOrder(s, r) == s \in Seq(Nat) /\ \A i \in 1 .. Len(s) : s[i] = r + i

LEMMA OneMore ==
    ASSUME NEW r \in Nat, NEW s, InOrder(s, r), NEW n, n = r + Len(s) + 1
    PROVE  /\ InOrder(s \o <<n>>, r) /\ InOrder(Append(s, n), r)
           /\ Len(s \o <<n>>) = Len(s) + 1 /\ Len(Append(s, n)) = Len(s) + 1
<1>1. s \in Seq(Nat) /\ Len(s) \in Nat /\ n \in Nat /\ \A i \in 1 .. Len(s) : s[i] = r + i
  BY DEF InOrder
<1>2. /\ s \o <<n>> \in Seq(Nat) /\ Len(s \o <<n>>) = Len(s) + 1
      /\ \A i \in 1 .. (Len(s) + 1) : (s \o <<n>>)[i] = IF i <= Len(s) THEN s[i] ELSE n
  BY <1>1
<1>3. /\ Append(s, n) \in Seq(Nat) /\ Len(Append(s, n)) = Len(s) + 1
      /\ \A i \in 1 .. (Len(s) + 1) : Append(s, n)[i] = IF i <= Len(s) THEN s[i] ELSE n
  BY <1>1
<1>4. \A i \in 1 .. (Len(s) + 1) : (IF i <= Len(s) THEN s[i] ELSE n) = r + i
  <2> TAKE i \in 1 .. (Len(s) + 1)
  <2>1. CASE i <= Len(s)
    <3>1. i \in 1 .. Len(s)
      BY <1>1, <2>1
    <3> QED BY <1>1, <2>1, <3>1
  <2>2. CASE ~(i <= Len(s))
    <3>1. i = Len(s) + 1
      BY <1>1, <2>2
    <3> QED BY <1>1, <2>2, <3>1
  <2> QED BY <2>1, <2>2
<1> QED BY <1>2, <1>3, <1>4 DEF InOrder

LEMMA OneLess ==
    ASSUME NEW r \in Nat, NEW s, InOrder(s, r), s # <<>>
    PROVE  Head(s) = r + 1 /\ InOrder(Tail(s), r + 1)
<1>1. s \in Seq(Nat) /\ Len(s) \in Nat /\ Len(s) # 0 /\ \A i \in 1 .. Len(s) : s[i] = r + i
  BY DEF InOrder
<1>2. Head(s) = s[1] /\ Tail(s) \in Seq(Nat) /\ Len(Tail(s)) = Len(s) - 1
  BY <1>1
<1>3. \A i \in 1 .. (Len(s) - 1) : Tail(s)[i] = s[i + 1] /\ i + 1 \in 1 .. Len(s)
  BY <1>1
<1>4. \A i \in 1 .. (Len(s) - 1) : Tail(s)[i] = (r + 1) + i
  BY <1>1, <1>3
<1> QED BY <1>1, <1>2, <1>4 DEF InOrder

LEMMA InOrderRange ==
    ASSUME NEW s, InOrder(s, 0), NEW n
    PROVE  n \in Range(s) <=> n \in 1 .. Len(s)
<1>1. DOMAIN s = 1 .. Len(s) /\ \A i \in 1 .. Len(s) : s[i] = i
  BY DEF InOrder
<1>2. Range(s) = {s[i] : i \in 1 .. Len(s)}
  BY <1>1 DEF Range
<1> QED BY <1>1, <1>2

(* What is pending follows what is recorded.                                *)
LEMMA PendingFollows ==
    ASSUME checkout \in Nat, InOrder(recorded, 0)
    PROVE  InOrder(Pending, Len(recorded))
<1> DEFINE ss == [n \in 1 .. checkout |-> IF n \in Range(recorded) THEN <<>> ELSE <<n>>]
           r == Len(recorded)
<1>0. r \in Nat
  BY DEF InOrder
<1>1. Pending = FlattenSeq(ss) /\ Len(ss) = checkout
  BY DEF Pending
<1>2. \A n \in 1 .. checkout : ss[n] = IF n <= r THEN <<>> ELSE <<n>>
  <2> HIDE DEF r
  <2>1. \A n \in 1 .. checkout : n \in Range(recorded) <=> n <= r
    BY <1>0, InOrderRange DEF r
  <2> QED BY <2>1
<1>3. ss \in Seq(Seq(Nat))
  <2>1. \A n \in 1 .. checkout : ss[n] \in Seq(Nat)
    <3> TAKE n \in 1 .. checkout
    <3>1. <<>> \in Seq(Nat) /\ <<n>> \in Seq(Nat)
      OBVIOUS
    <3> QED BY <3>1
  <2>2. ss = [n \in 1 .. checkout |-> ss[n]]
    OBVIOUS
  <2> HIDE DEF ss
  <2> QED BY <2>1, <2>2, IsSeqOf
<1> HIDE DEF ss, r
<1>4. CASE checkout = 0
  <2>1. FlattenSeq(ss) = ss /\ ss = <<>>
    BY <1>1, <1>3, <1>4 DEF FlattenSeq
  <2>2. Pending = <<>>
    BY <1>1, <2>1
  <2> QED BY <2>2 DEF InOrder
<1>5. CASE checkout # 0
  <2>1. PICK f : /\ FlattenSeq(ss) = f[checkout]
                 /\ \A i \in 1 .. checkout : f[i] = IF i = 1 THEN ss[i] ELSE f[i - 1] \o ss[i]
    <3>1. \E f : /\ FlattenSeq(ss) = f[Len(ss)]
                 /\ \A i \in 1 .. Len(ss) : f[i] = IF i = 1 THEN ss[i] ELSE f[i - 1] \o ss[i]
      <4>1. Len(ss) # 0
        BY <1>1, <1>5
      <4> QED BY <1>3, <4>1, FlattenFolds
    <3> QED BY <1>1, <3>1
  <2> DEFINE Good(i) == InOrder(f[i], r) /\ Len(f[i]) = (IF i <= r THEN 0 ELSE i - r)
             T == {i \in 1 .. checkout : ~Good(i)}
  <2>2. InOrder(<<>>, r) /\ Len(<<>>) = 0 /\ <<>> \in Seq(Nat)
    BY DEF InOrder
  <2>3. ASSUME T # {} PROVE FALSE
    <3>1. PICK m \in T : \A n \in T : m <= n
      <4> HIDE DEF Good
      <4>1. T \subseteq Nat
        OBVIOUS
      <4> HIDE DEF T
      <4> QED BY <2>3, <4>1, Least
    <3>2. m \in 1 .. checkout /\ ~Good(m)
      <4> HIDE DEF Good
      <4> QED OBVIOUS
    <3>3. m # 1 => Good(m - 1)
      <4> HIDE DEF Good
      <4>1. m # 1 => m - 1 \in 1 .. checkout
        BY <3>2
      <4>2. m - 1 \notin T
        BY <3>1, <3>2
      <4> QED BY <4>1, <4>2
    <3> HIDE DEF T
    <3>4. f[m] = IF m = 1 THEN ss[m] ELSE f[m - 1] \o ss[m]
      BY <2>1, <3>2
    <3>5. ss[m] = IF m <= r THEN <<>> ELSE <<m>>
      BY <1>2, <3>2
    <3> DEFINE before == IF m = 1 THEN <<>> ELSE f[m - 1]
    <3>6. InOrder(before, r) /\ Len(before) = (IF m - 1 <= r THEN 0 ELSE (m - 1) - r)
      BY <1>0, <2>2, <3>2, <3>3
    <3>7. f[m] = before \o ss[m]
      <4>1. <<>> \o ss[m] = ss[m]
        BY <3>5, <3>2, <1>3, <1>1
      <4> QED BY <3>4, <4>1
    <3>8. before \in Seq(Nat)
      BY <3>6 DEF InOrder
    <3> HIDE DEF before
    <3>9. CASE m <= r
      <4>1. Len(before) = 0
        BY <1>0, <3>2, <3>6, <3>9
      <4>2. before = <<>>
        BY <3>8, <4>1
      <4>3. f[m] = <<>>
        BY <3>5, <3>7, <3>9, <4>2
      <4> QED BY <2>2, <3>2, <3>9, <4>3
    <3>10. CASE ~(m <= r)
      <4>1. m = r + Len(before) + 1
        BY <1>0, <3>2, <3>6, <3>10
      <4>2. f[m] = before \o <<m>>
        BY <3>5, <3>7, <3>10
      <4>3. InOrder(f[m], r) /\ Len(f[m]) = Len(before) + 1
        BY <1>0, <3>6, <4>1, <4>2, OneMore
      <4>4. Len(f[m]) = m - r
        <5>1. Len(before) \in Nat
          BY <3>8
        <5> QED BY <1>0, <3>2, <4>1, <4>3, <5>1
      <4> QED BY <3>2, <3>10, <4>3, <4>4
    <3> QED BY <3>9, <3>10
  <2>4. Good(checkout)
    <3> HIDE DEF Good
    <3> QED BY <1>5, <2>3
  <2> QED BY <1>1, <2>1, <2>4 DEF r
<1> QED BY <1>4, <1>5

(* The backfill of the order ids is over and the contraction is not, or a   *)
(* run is between the two.                                                  *)
Past(c) == c.does = "run" /\ c.todo # <<>> /\ Head(c.todo) = 5 /\ c.at > 1
Filling == Len(recorded) = 5 \/ \E o \in Operators : Past(child[o])

(* Nobody reverted and no two runs met: migrations are applied in the order *)
(* of the chain by one process, every row knows its order, and so do the    *)
(* copies between backfill and contraction.                                 *)
TraceInv ==
    ~reverted /\ ~raced =>
        /\ InOrder(recorded, 0) /\ Traced(mdb)
        /\ \A o, p \in Operators : child[o].does = "run" /\ child[p].does = "run" => o = p
        /\ \A o \in Operators : child[o].does = "run" => InOrder(child[o].todo, Len(recorded))
        /\ Filling => Filled(mdb)

(* A step that writes nothing and starts no run.                            *)
LEMMA Silently ==
    ASSUME TraceInv, UNCHANGED <<mdb, recorded, reverted, raced>>,
           \A p \in Operators : child'[p] = child[p] \/ child'[p].does # "run"
    PROVE  TraceInv'
<1> SUFFICES ASSUME ~reverted, ~raced PROVE TraceInv'
  BY DEF TraceInv
<1>1. \A o, p \in Operators : child'[o].does = "run" /\ child'[p].does = "run" => o = p
  BY DEF TraceInv
<1>2. \A o \in Operators : child'[o].does = "run" => InOrder(child'[o].todo, Len(recorded))
  BY DEF TraceInv
<1>3. Filling' => Filling
  <2>1. \A o \in Operators : Past(child'[o]) => Past(child[o])
    BY DEF Past
  <2>2. Filling' <=> Len(recorded') = 5 \/ \E o \in Operators : Past(child'[o])
    BY DEF Filling, Past
  <2> QED BY <2>1, <2>2 DEF Filling
<1>4. InOrder(recorded, 0) /\ Traced(mdb) /\ (Filling' => Filled(mdb))
  BY <1>3 DEF TraceInv
<1> HIDE DEF Filling
<1> QED BY <1>1, <1>2, <1>4 DEF TraceInv, InOrder, Traced, Filled, HasRows

LEMMA EndsSilently ==
    ASSUME BaselineInv, NEW o \in Operators, child' = [child EXCEPT ![o] = NoChild]
    PROVE  \A p \in Operators : child'[p] = child[p] \/ child'[p].does # "run"
<1>1. NoChild.does # "run"
  BY DEF NoChild
<1> QED BY <1>1 DEF BaselineInv

(* Steps that only move the command, or end its child.                      *)
LEMMA CommandTraces ==
    ASSUME BaselineInv, TraceInv, NEW o \in Operators,
           \/ RunMigrate(o) \/ CheckOrphanedMigrations(o) \/ AcquireAdvisoryLock(o)
           \/ RunSimulation(o) \/ SkipSimulation(o) \/ FinishApply(o) \/ Crash(o) \/ OrphanEnds(o)
    PROVE  TraceInv'
<1>1. UNCHANGED <<mdb, recorded, reverted, raced>>
  BY DEF RunMigrate, CheckOrphanedMigrations, AcquireAdvisoryLock, RunSimulation, SkipSimulation,
         FinishApply, Crash, OrphanEnds
<1>2. child' = child \/ child' = [child EXCEPT ![o] = NoChild]
  BY DEF RunMigrate, CheckOrphanedMigrations, AcquireAdvisoryLock, RunSimulation, SkipSimulation,
         FinishApply, Crash, OrphanEnds
<1>3. \A p \in Operators : child'[p] = child[p] \/ child'[p].does # "run"
  BY <1>2, EndsSilently
<1> QED BY <1>1, <1>3, Silently

LEMMA RevertTraces ==
    ASSUME BaselineInv, TraceInv, NEW o \in Operators, RunRevert(o) \/ RevertMigration(o)
    PROVE  TraceInv'
<1>1. CASE RunRevert(o)
  <2>1. /\ UNCHANGED <<mdb, recorded, reverted, raced>>
        /\ child' = [child EXCEPT ![o] = [does |-> "revert", todo |-> <<Last(recorded)>>, at |-> 0]]
    BY <1>1 DEF RunRevert
  <2>2. \A p \in Operators : child'[p] = child[p] \/ child'[p].does = "revert"
    BY <2>1 DEF BaselineInv
  <2>3. \A p \in Operators : child'[p] = child[p] \/ child'[p].does # "run"
    BY <2>2
  <2> QED BY <2>1, <2>3, Silently
<1>2. CASE RevertMigration(o) /\ reverted' = TRUE
  BY <1>2 DEF TraceInv
<1>3. CASE RevertMigration(o) /\ Fails(o, Head(child[o].todo))
  <2>1. UNCHANGED <<mdb, recorded, reverted, raced>> /\ child' = [child EXCEPT ![o] = NoChild]
    BY <1>3 DEF Fails, RevertMigration
  <2> QED BY <2>1, EndsSilently, Silently
<1> QED BY <1>1, <1>2, <1>3 DEF RevertMigration

LEMMA StartTraces ==
    ASSUME BaselineInv, TraceInv, NEW o \in Operators, StartApply(o)
    PROVE  TraceInv'
<1>1. /\ UNCHANGED <<mdb, recorded, reverted>>
      /\ raced' = (raced \/ \E p \in Operators : child[p].does = "run")
  BY DEF StartApply
<1> SUFFICES ASSUME ~reverted', ~raced' PROVE TraceInv'
  BY DEF TraceInv
<1>2. ~reverted /\ ~raced /\ \A p \in Operators : child[p].does # "run"
  BY <1>1
<1> DEFINE c == Child("run", Pending, 0)
<1>3. child'[o] = c /\ \A p \in Operators : p # o => child'[p] = child[p]
  BY DEF StartApply, BaselineInv, Child
<1>4. c.does = "run" /\ c.todo = Pending /\ c.at = 0
  BY DEF Child
<1> HIDE DEF c
<1>5. InOrder(recorded, 0) /\ Traced(mdb) /\ (Filling => Filled(mdb))
  BY <1>2 DEF TraceInv
<1>6. InOrder(Pending, Len(recorded))
  <2>1. checkout \in Nat
    BY NumberInChain DEF BaselineInv
  <2> QED BY <1>5, <2>1, PendingFollows
<1>7. \A q, p \in Operators : child'[q].does = "run" /\ child'[p].does = "run" => q = p
  BY <1>2, <1>3
<1>8. \A p \in Operators : child'[p].does = "run" => InOrder(child'[p].todo, Len(recorded))
  BY <1>2, <1>3, <1>4, <1>6
<1>9. Filling' => Filling
  <2>1. \A p \in Operators : ~Past(child'[p])
    BY <1>2, <1>3, <1>4 DEF Past
  <2>2. Filling' <=> Len(recorded') = 5 \/ \E p \in Operators : Past(child'[p])
    BY DEF Filling, Past
  <2> QED BY <1>1, <2>1, <2>2 DEF Filling
<1> HIDE DEF Filling
<1>10. InOrder(recorded', 0) /\ Traced(mdb') /\ (Filling' => Filled(mdb'))
  BY <1>1, <1>5, <1>9
<1>11. \A p \in Operators : child'[p].does = "run" => InOrder(child'[p].todo, Len(recorded'))
  BY <1>1, <1>8
<1> QED BY <1>7, <1>10, <1>11 DEF TraceInv, InOrder, Traced, Filled, HasRows

LEMMA WriteTraces ==
    ASSUME BaselineInv, TraceInv, ApplicationWrites
    PROVE  TraceInv'
<1>1. /\ UNCHANGED <<recorded, child, reverted>>
      /\ raced' = (raced \/ (BackfillDone /\ 6 \notin Range(recorded)))
      /\ "deliveries" \in DOMAIN mdb.tables
  BY DEF ApplicationWrites
<1> SUFFICES ASSUME ~reverted', ~raced' PROVE TraceInv'
  BY DEF TraceInv
<1>2. ~reverted /\ ~raced /\ ~(BackfillDone /\ 6 \notin Range(recorded))
  BY <1>1
<1>3. /\ InOrder(recorded, 0)
      /\ \A o, p \in Operators : child[o].does = "run" /\ child[p].does = "run" => o = p
      /\ \A o \in Operators : child[o].does = "run" => InOrder(child[o].todo, Len(recorded))
  BY <1>2 DEF TraceInv
<1>4. Len(recorded) \in Nat /\ \A n : n \in Range(recorded) <=> n \in 1 .. Len(recorded)
  BY <1>3, InOrderRange DEF InOrder
<1>5. ~Filling
  <2>1. CASE Len(recorded) = 5
    BY <1>2, <1>4, <2>1 DEF BackfillDone
  <2>2. ASSUME NEW o \in Operators, Past(child[o]) PROVE FALSE
    <3>1. Head(child[o].todo) = Len(recorded) + 1
      BY <1>3, <1>4, <2>2, OneLess DEF Past
    <3>2. 6 \notin Range(recorded)
      BY <1>4, <2>2, <3>1 DEF Past
    <3>3. BackfillDone
      BY <2>2 DEF BackfillDone, Past
    <3> QED BY <1>2, <3>2, <3>3
  <2> QED BY <1>2, <2>1, <2>2 DEF Filling
<1>6. ~Filling'
  BY <1>1, <1>5 DEF Filling, Past
<1> DEFINE ts == [t \in DOMAIN mdb.tables |-> TRUE]
           Cs(ids) == [k \in DOMAIN mdb.cols |->
                         Column(IF k = OrderId THEN ids
                                ELSE IF k[2] \in {"seller_order_id_uuid", "driver_id_uuid"} THEN {} ELSE {"row"},
                                mdb.cols[k].type)]
<1>0. PICK ids \in OrderIds(mdb.cols[OrderId].type) : mdb' = SetTables(mdb, ts, Cs(ids))
  BY DEF ApplicationWrites
<1> DEFINE cs == Cs(ids)
<1>7. mdb' = SetTables(mdb, ts, cs)
  BY <1>0
<1>8. mdb'.tables = ts /\ mdb'.cols = cs
  BY <1>7 DEF SetTables, Database
<1>9. OrderId \in DOMAIN mdb.cols
  <2>1. HasCopied(mdb)
    BY <1>2 DEF BaselineInv
  <2> QED BY <1>1, <2>1 DEF HasCopied, CopiedColumns, OrderId
<1>10. DOMAIN cs = DOMAIN mdb.cols
  OBVIOUS
<1>11. "order" \in cs[OrderId].data
  <2>1. cs[OrderId] = Column(ids, mdb.cols[OrderId].type)
    BY <1>9
  <2> HIDE DEF cs
  <2>2. cs[OrderId].data = ids
    BY <2>1 DEF Column
  <2>3. "order" \in ids
    BY <1>0 DEF OrderIds
  <2> QED BY <2>2, <2>3
<1>12. OrderUuid \in DOMAIN mdb.cols => cs[OrderUuid].data = {}
  <2> SUFFICES ASSUME OrderUuid \in DOMAIN mdb.cols PROVE cs[OrderUuid].data = {}
    OBVIOUS
  <2>1. OrderUuid # OrderId /\ OrderUuid[2] = "seller_order_id_uuid"
    BY DEF OrderUuid, OrderId
  <2>2. cs[OrderUuid] = Column({}, mdb.cols[OrderUuid].type)
    BY <2>1
  <2> QED BY <2>2 DEF Column
<1> HIDE DEF ts, cs
<1>13. Traced(mdb')
  BY <1>8, <1>9, <1>10, <1>11, <1>12 DEF Traced
<1>14. Traced(mdb)' /\ InOrder(recorded, 0)'
  BY <1>1, <1>3, <1>13 DEF Traced, HasRows, InOrder
<1>15. \A o \in Operators : child'[o].does = "run" => InOrder(child[o].todo, Len(recorded))'
  BY <1>1, <1>3 DEF InOrder
<1> HIDE DEF Filling
<1> QED BY <1>1, <1>3, <1>6, <1>14, <1>15 DEF TraceInv

(* The run that goes on with the migration after the last one recorded.     *)
LEMMA RunsNext ==
    ASSUME TraceInv, ~reverted, ~raced, NEW o \in Operators, child[o].does = "run", child[o].todo # <<>>,
           NEW n, n = Head(child[o].todo)
    PROVE  /\ n = Len(recorded) + 1 /\ Len(recorded) \in Nat
           /\ InOrder(Tail(child[o].todo), n) /\ InOrder(Append(recorded, n), 0)
           /\ Len(Append(recorded, n)) = n
           /\ \A p \in Operators : p # o => child[p].does # "run"
           /\ n = 6 => Filled(mdb)
           /\ n = 5 /\ child[o].at > 1 => Filled(mdb)
<1>1. /\ InOrder(recorded, 0) /\ InOrder(child[o].todo, Len(recorded))
      /\ \A p \in Operators : p # o => child[p].does # "run"
      /\ Filling => Filled(mdb)
  BY DEF TraceInv
<1>2. Len(recorded) \in Nat
  BY <1>1 DEF InOrder
<1>3. n = Len(recorded) + 1 /\ InOrder(Tail(child[o].todo), n)
  BY <1>1, <1>2, OneLess
<1>4. n = 0 + Len(recorded) + 1
  BY <1>2, <1>3
<1>5. InOrder(Append(recorded, n), 0) /\ Len(Append(recorded, n)) = n
  BY <1>1, <1>3, <1>4, OneMore
<1>6. n = 6 => Filling
  <2>1. n = 6 => Len(recorded) = 5
    <3> DEFINE r == Len(recorded)
    <3>1. n = r + 1 /\ r \in Nat
      BY <1>2, <1>3
    <3> HIDE DEF r
    <3>2. n = 6 => r = 5
      BY <3>1
    <3> QED BY <3>2 DEF r
  <2> QED BY <2>1 DEF Filling
<1>7. n = 5 /\ child[o].at > 1 => Filling
  BY DEF Filling, Past
<1> QED BY <1>1, <1>2, <1>3, <1>5, <1>6, <1>7

LEMMA TracesOn ==
    ASSUME BaselineInv, TraceInv, ~reverted', ~raced', UNCHANGED <<reverted, raced>>, NEW o \in Operators,
           child[o].does = "run", child[o].todo # <<>>, NEW n, n = Head(child[o].todo),
           Traced(mdb'),
           \/ Recorded(o, n) /\ (n = 5 => Filled(mdb'))
           \/ /\ recorded' = recorded /\ child' = [child EXCEPT ![o].at = @ + 1]
              /\ (n = 5 /\ child[o].at # 0) \/ n = 6 => Filled(mdb')
              /\ child[o].at \in Nat
    PROVE  TraceInv'
<1>0. /\ n = Len(recorded) + 1 /\ Len(recorded) \in Nat
      /\ InOrder(Tail(child[o].todo), n) /\ InOrder(Append(recorded, n), 0)
      /\ Len(Append(recorded, n)) = n
      /\ \A p \in Operators : p # o => child[p].does # "run"
  BY RunsNext
<1>1. InOrder(recorded, 0) /\ InOrder(child[o].todo, Len(recorded))
  BY DEF TraceInv
<1>2. child[o] = Child(child[o].does, child[o].todo, child[o].at) /\ DOMAIN child = Operators
  BY DEF BaselineInv
<1>3. CASE Recorded(o, n) /\ (n = 5 => Filled(mdb'))
  <2>1. /\ recorded' = Append(recorded, n)
        /\ child'[o] = Child("run", Tail(child[o].todo), 0)
        /\ \A p \in Operators : p # o => child'[p] = child[p]
    BY <1>2, <1>3 DEF Recorded, Child
  <2>2. child'[o].at = 0 /\ child'[o].todo = Tail(child[o].todo)
    BY <2>1 DEF Child
  <2>3. InOrder(recorded', 0) /\ Len(recorded') = n
    BY <1>0, <2>1
  <2>4. \A q, p \in Operators : child'[q].does = "run" /\ child'[p].does = "run" => q = p
    BY <1>0, <2>1
  <2>5. \A p \in Operators : child'[p].does = "run" => InOrder(child'[p].todo, Len(recorded'))
    BY <1>0, <2>1, <2>2, <2>3
  <2>6. \A p \in Operators : ~Past(child'[p])
    BY <1>0, <2>1, <2>2 DEF Past
  <2>7. Filling' => Filled(mdb')
    <3>1. Filling' <=> Len(recorded') = 5 \/ \E p \in Operators : Past(child'[p])
      BY DEF Filling, Past
    <3> QED BY <1>3, <2>3, <2>6, <3>1
  <2> HIDE DEF Filling
  <2> QED BY <2>3, <2>4, <2>5, <2>7 DEF TraceInv, InOrder, Traced, Filled, HasRows
<1>4. CASE /\ recorded' = recorded /\ child' = [child EXCEPT ![o].at = @ + 1]
           /\ (n = 5 /\ child[o].at # 0) \/ n = 6 => Filled(mdb')
           /\ child[o].at \in Nat
  <2>1. /\ child'[o] = Child("run", child[o].todo, child[o].at + 1)
        /\ \A p \in Operators : p # o => child'[p] = child[p]
    BY <1>2, <1>4 DEF Child
  <2>2. child'[o].todo = child[o].todo /\ child'[o].at = child[o].at + 1
    BY <2>1 DEF Child
  <2>3. \A q, p \in Operators : child'[q].does = "run" /\ child'[p].does = "run" => q = p
    BY <1>0, <2>1
  <2>4. \A p \in Operators : child'[p].does = "run" => InOrder(child'[p].todo, Len(recorded'))
    BY <1>0, <1>1, <1>4, <2>1, <2>2
  <2>5. \A p \in Operators : Past(child'[p]) => p = o /\ n = 5 /\ child[o].at # 0
    BY <1>0, <1>4, <2>1, <2>2 DEF Past
  <2>6. Filling' => Filled(mdb')
    <3>1. Filling' <=> Len(recorded') = 5 \/ \E p \in Operators : Past(child'[p])
      BY DEF Filling, Past
    <3>2. Len(recorded') = 5 => n = 6
      BY <1>0, <1>4
    <3> QED BY <1>4, <2>5, <3>1, <3>2
  <2>7. InOrder(recorded', 0)
    BY <1>1, <1>4
  <2> HIDE DEF Filling
  <2> QED BY <2>3, <2>4, <2>6, <2>7 DEF TraceInv, InOrder, Traced, Filled, HasRows
<1> QED BY <1>3, <1>4

LEMMA ExtensionStays == \A d : Effect(d, NewExtension) = d
<1>1. NewExtension.verb = "CREATE EXTENSION"
  BY DEF NewExtension, Stmt
<1>2. \A d : Change(d, NewExtension) = d
  BY <1>1 DEF Change
<1> QED BY <1>2 DEF Effect

LEMMA BackfillOutside == ~Transactional(5)
BY DEF Transactional, Chain, File, Marked

LEMMA DriverBackfillIsMild == Mild(DriverBackfill) /\ DriverBackfill.verb = "UPDATE"
<1>1. /\ DriverBackfill.verb = "UPDATE" /\ DriverBackfill.table = "assignments"
      /\ DriverBackfill.col = "driver_id_uuid" /\ DriverBackfill.to # None
  BY DEF DriverBackfill, IfThere, Stmt, None
<1>2. <<"assignments", "driver_id_uuid">> \notin {OrderId, OrderUuid}
  BY DEF OrderId, OrderUuid
<1> QED BY <1>1, <1>2 DEF Mild, Gentle, EasyVerbs

LEMMA ApplyTraces ==
    ASSUME BaselineInv, TraceInv, NEW o \in Operators, ApplyMigration(o)
    PROVE  TraceInv'
<1> DEFINE n == Head(child[o].todo)
           up == Chain[n].up
           at == child[o].at
<1>0. /\ child[o].does = "run" /\ child[o].todo # <<>> /\ raced' = raced
  BY DEF ApplyMigration
<1>1. CASE Fails(o, n)
  <2>1. UNCHANGED <<mdb, recorded, reverted, raced>> /\ child' = [child EXCEPT ![o] = NoChild]
    BY <1>0, <1>1 DEF Fails
  <2> QED BY <2>1, EndsSilently, Silently
<1>2. ASSUME ~Fails(o, n), ~reverted', ~raced' PROVE TraceInv'
  <2>0. reverted' = reverted /\ ~reverted /\ ~raced
    BY <1>0, <1>2 DEF ApplyMigration
  <2>1. n \in DOMAIN Chain /\ at \in 0 .. Len(up) /\ Len(up) \in Nat
    <3>1. child[o].todo \in Seq(DOMAIN Chain) /\ at \in 0 .. Len(up)
      BY <1>0, <2>0 DEF BaselineInv, Applying
    <3>2. n \in DOMAIN Chain
      BY <1>0, <3>1, HeadIsIn
    <3> QED BY <3>1, <3>2, UpLength
  <2>2. /\ n = 6 => Filled(mdb)
        /\ n = 5 /\ at > 1 => Filled(mdb)
    BY <1>0, <2>0, RunsNext
  <2>3. Traced(mdb)
    BY <2>0 DEF TraceInv
  <2>4. CASE Transactional(n) /\ Whole(mdb, up).ok
    <3>1. mdb' = Whole(mdb, up).db /\ Recorded(o, n)
      BY <2>4 DEF ApplyMigration
    <3>2. n # 5
      BY <2>4, BackfillOutside
    <3>3. Traced(mdb')
      <4>1. CASE n # 6
        BY <2>1, <2>3, <3>1, <3>2, <4>1, ChainIsMild, MildScriptTraces
      <4>2. CASE n = 6
        <5>1. up = <<OrderContraction>>
          BY <4>2, RealignScripts
        <5>2. Whole(mdb, <<OrderContraction>>).db = Effect(mdb, OrderContraction)
          BY <2>4, <5>1, OneStatement DEF Whole
        <5> QED BY <2>2, <2>3, <3>1, <4>2, <5>1, <5>2, ContractionKeeps
      <4> QED BY <4>1, <4>2
    <3> HIDE DEF n
    <3> QED BY <1>0, <1>2, <2>0, <3>1, <3>2, <3>3, TracesOn DEF n
  <2>5. CASE ~Transactional(n) /\ at = Len(up)
    <3>1. Recorded(o, n) /\ mdb' = mdb
      BY <2>5 DEF ApplyMigration
    <3>2. n = 5 => Filled(mdb)
      <4> SUFFICES ASSUME n = 5 PROVE at > 1
        BY <2>2
      <4>1. up = <<NewExtension, OrderBackfill, DriverBackfill>>
        BY RealignScripts
      <4>2. Len(<<NewExtension, OrderBackfill, DriverBackfill>>) = 3
        OBVIOUS
      <4>3. at = 3
        BY <2>5, <4>1, <4>2
      <4> HIDE DEF at
      <4> QED BY <4>3
    <3>3. Traced(mdb') /\ (n = 5 => Filled(mdb'))
      BY <2>3, <3>1, <3>2
    <3> HIDE DEF n
    <3> QED BY <1>0, <1>2, <2>0, <3>1, <3>3, TracesOn DEF n
  <2>6. CASE ~Transactional(n) /\ at # Len(up) /\ Executes(mdb, up[at + 1])
    <3>1. /\ mdb' = Effect(mdb, up[at + 1]) /\ child' = [child EXCEPT ![o].at = @ + 1]
          /\ recorded' = recorded
      BY <2>6 DEF ApplyMigration
    <3>2. n \in {2, 5, 7}
      BY <2>1, <2>6, NoTransaction
    <3>3. at + 1 \in 1 .. Len(up)
      BY <2>1, <2>6, NextStatement
    <3>4. CASE n # 5
      <4>1. PICK S : up \in Seq(S) /\ \A s \in S : Mild(s)
        BY <2>1, <3>2, <3>4, ChainIsMild DEF MildScript
      <4>2. Mild(up[at + 1])
        BY <3>3, <4>1
      <4>3. Traced(mdb')
        BY <2>3, <2>6, <3>1, <4>2, MildKeeps
      <4>4. n # 5 /\ n # 6
        BY <3>2, <3>4
      <4>5. child[o].at \in Nat
        BY <2>1
      <4> HIDE DEF n
      <4> QED BY <1>0, <1>2, <2>0, <3>1, <4>3, <4>4, <4>5, TracesOn DEF n
    <3>5. CASE n = 5
      <4>1. up = <<NewExtension, OrderBackfill, DriverBackfill>>
        BY <3>5, RealignScripts
      <4>2. Len(up) = 3 /\ up[1] = NewExtension /\ up[2] = OrderBackfill /\ up[3] = DriverBackfill
        BY <4>1
      <4>3. at = 0 \/ at = 1 \/ at = 2
        BY <2>1, <2>6, <4>2
      <4>4. Traced(mdb') /\ (at # 0 => Filled(mdb'))
        <5>0. CASE at = 0
          <6>0. up[at + 1] = NewExtension
            <7> HIDE DEF up, at
            <7> QED BY <4>2, <5>0
          <6>1. mdb' = Effect(mdb, NewExtension)
            <7> HIDE DEF up, at, n
            <7> QED BY <3>1, <6>0, Zenon
          <6>2. mdb' = mdb
            BY <6>1, ExtensionStays
          <6> QED BY <2>3, <5>0, <6>2
        <5>1. CASE at = 1
          <6>0. up[at + 1] = OrderBackfill
            <7> HIDE DEF up, at
            <7> QED BY <4>2, <5>1
          <6>1. mdb' = Effect(mdb, OrderBackfill)
            <7> HIDE DEF up, at, n
            <7> QED BY <3>1, <6>0, Zenon
          <6> QED BY <2>3, <6>1, BackfillFills
        <5>2. CASE at = 2
          <6>0. up[at + 1] = DriverBackfill
            <7> HIDE DEF up, at
            <7> QED BY <4>2, <5>2
          <6>1. mdb' = Effect(mdb, DriverBackfill) /\ Executes(mdb, DriverBackfill)
            <7> HIDE DEF up, at, n
            <7> QED BY <2>6, <3>1, <6>0, Zenon
          <6>2. Filled(mdb)
            BY <2>2, <3>5, <5>2
          <6> QED BY <2>3, <6>1, <6>2, DriverBackfillIsMild, MildKeeps
        <5> QED BY <4>3, <5>0, <5>1, <5>2
      <4>5. child[o].at \in Nat
        BY <2>1
      <4> HIDE DEF n
      <4>6. n # 6
        BY <3>5
      <4> QED BY <1>0, <1>2, <2>0, <3>1, <4>4, <4>5, <4>6, TracesOn DEF n
    <3> QED BY <3>4, <3>5
  <2> QED BY <1>2, <2>4, <2>5, <2>6 DEF ApplyMigration
<1>3. reverted' \/ raced' => TraceInv'
  BY DEF TraceInv
<1> QED BY <1>1, <1>2, <1>3

LEMMA OnlineIndexesAreMild ==
    ASSUME NEW n \in {2, 7}, NEW k \in 1 .. Len(Chain[n].up)
    PROVE  Mild(Chain[n].up[k]) /\ Chain[n].up[k].verb = "CREATE INDEX"
<1>0. n \in DOMAIN Chain
  <2>1. n \in 1 .. 30
    OBVIOUS
  <2> QED BY <2>1, ChainLength
<1>1. Mild(Chain[n].up[k])
  BY <1>0, ChainIsMild DEF MildScript
<1>2. CASE n = 2
  <2>1. Chain[n].up = <<Concurrently(Index("driver_offers", "idx_driver_offers_delivery_id"))>>
    BY <1>2, OnlineMigrations DEF DuplicateIndexUp
  <2>2. Chain[n].up[k] = Concurrently(Index("driver_offers", "idx_driver_offers_delivery_id"))
    BY <2>1
  <2> QED BY <1>1, <2>2 DEF Concurrently, Index, Stmt
<1>3. CASE n = 7
  <2>1. RealignIndexesUp = [m \in 1 .. 4 |-> Concurrently(Index(RealignIndexNames[m][1], RealignIndexNames[m][2]))]
    BY DEF RealignIndexesUp, Each, RealignIndexNames
  <2>2. k \in 1 .. 4 /\ Chain[n].up[k] = RealignIndexesUp[k]
    <3>1. Len(RealignIndexesUp) = 4
      BY <2>1
    <3> QED BY <1>3, <3>1, OnlineMigrations
  <2>3. Chain[n].up[k] = Concurrently(Index(RealignIndexNames[k][1], RealignIndexNames[k][2]))
    BY <2>1, <2>2
  <2> QED BY <1>1, <2>3 DEF Concurrently, Index, Stmt
<1> QED BY <1>2, <1>3

(* An index made before the server cut the statement off moves no id.       *)
LEMMA CutOffTraces ==
    ASSUME BaselineInv, TraceInv, NEW o \in Operators, CutOff(o)
    PROVE  TraceInv'
<1>1. /\ UNCHANGED <<recorded, reverted, raced>>
      /\ child' = child \/ child' = [child EXCEPT ![o] = NoChild]
  BY CutOffIs
<1>2. \A p \in Operators : child'[p] = child[p] \/ child'[p].does # "run"
  BY <1>1, EndsSilently
<1>3. CASE mdb' = mdb
  BY <1>1, <1>2, <1>3, Silently
<1>4. CASE CutIndex(o) /\ ~reverted /\ ~raced
  <2>0. PICK n \in DOMAIN Chain : \E k \in 1 .. Len(Chain[n].up) :
          n \in {2, 7} /\ Executes(mdb, Chain[n].up[k]) /\ mdb' = Effect(mdb, Chain[n].up[k])
    BY <1>4, CutIndexIs
  <2>1. PICK k \in 1 .. Len(Chain[n].up) :
          n \in {2, 7} /\ Executes(mdb, Chain[n].up[k]) /\ mdb' = Effect(mdb, Chain[n].up[k])
    BY <2>0
  <2> DEFINE s == Chain[n].up[k]
  <2>2. Mild(s) /\ s.verb = "CREATE INDEX"
    <3>1. n \in {2, 7}
      BY <2>1
    <3> QED BY <3>1, OnlineIndexesAreMild, Zenon
  <2>9. Executes(mdb, s) /\ mdb' = Effect(mdb, s)
    BY <2>1
  <2> HIDE DEF s
  <2>3. Traced(mdb') /\ (Filled(mdb) => Filled(mdb'))
    BY <1>4, <2>2, <2>9, MildKeeps DEF TraceInv
  <2>4. \A q, p \in Operators : child'[q].does = "run" /\ child'[p].does = "run" => q = p
    BY <1>2, <1>4 DEF TraceInv
  <2>5. \A p \in Operators : child'[p].does = "run" => InOrder(child'[p].todo, Len(recorded'))
    BY <1>1, <1>2, <1>4 DEF TraceInv
  <2>6. Filling' => Filling
    <3>1. \A p \in Operators : Past(child'[p]) => Past(child[p])
      BY <1>2 DEF Past
    <3>2. Filling' <=> Len(recorded') = 5 \/ \E p \in Operators : Past(child'[p])
      BY DEF Filling, Past
    <3> QED BY <1>1, <3>1, <3>2 DEF Filling
  <2> HIDE DEF Filling
  <2>7. Filling' => Filled(mdb')
    BY <1>4, <2>3, <2>6 DEF TraceInv
  <2>8. InOrder(recorded', 0)
    BY <1>1, <1>4 DEF TraceInv
  <2> QED BY <2>3, <2>4, <2>5, <2>7, <2>8 DEF TraceInv, InOrder, Traced, Filled, HasRows
<1>5. CASE reverted \/ raced
  BY <1>1, <1>5 DEF TraceInv
<1> QED BY <1>3, <1>4, <1>5, CutOffIs

LEMMA TraceKept == CliSpec => []TraceInv
<1>1. CliInit => TraceInv
  <2> SUFFICES ASSUME CliInit PROVE TraceInv
    OBVIOUS
  <2>1. PICK d \in Installations : mdb = d.db /\ recorded = d.recorded
    BY DEF CliInit
  <2>2. /\ recorded \in Seq(Nat) /\ \A k \in 1 .. Len(recorded) : recorded[k] = k
        /\ Traced(mdb) /\ (Len(recorded) = 5 => Filled(mdb))
    BY <2>1, InstallationsAssumption
  <2>3. InOrder(recorded, 0)
    BY <2>2 DEF InOrder
  <2>4. \A o \in Operators : child[o].does # "run"
    BY DEF CliInit, NoChild
  <2> QED BY <2>2, <2>3, <2>4 DEF TraceInv, Filling, Past
<1>2. ASSUME BaselineInv, TraceInv, [CliNext]_cliVars
      PROVE  TraceInv'
  <2>1. CASE UNCHANGED cliVars
    BY <1>2, <2>1, Silently DEF cliVars
  <2>2. ASSUME NEW k \in releases, Deploy(k)
        PROVE  TraceInv'
    BY <1>2, <2>2, Silently DEF Deploy
  <2> QED
    BY <1>2, <2>1, <2>2, CommandTraces, StartTraces, ApplyTraces, RevertTraces, WriteTraces, CutOffTraces DEF CliNext
<1> QED
  BY <1>1, <1>2, BaselineKept, PTL DEF CliSpec

(* Whatever operators run, kill, rerun and deploy and wherever a migration  *)
(* is cut off or fails: a delivery whose order id was a UUID still knows    *)
(* it, unless someone reverts, the row was written between the backfill and *)
(* the contraction of the id (migrations 1774093828155 and 156), or a run   *)
(* began beside the orphan of another.                                      *)
THEOREM OrderIdsKept == CliSpec => []OrderIdsSurvive
<1>1. TraceInv => OrderIdsSurvive
  <2> SUFFICES ASSUME ~reverted, ~raced, HasRows(mdb), TraceInv
               PROVE  \E k \in ColsOf(mdb, "deliveries") : "order" \in mdb.cols[k].data
    BY DEF OrderIdsSurvive, HasRows
  <2>1. OrderId \in DOMAIN mdb.cols /\ "order" \in mdb.cols[OrderId].data
    BY DEF TraceInv, Traced
  <2>2. OrderId \in ColsOf(mdb, "deliveries")
    BY <2>1 DEF ColsOf, OrderId
  <2> QED BY <2>1, <2>2
<1> QED
  BY <1>1, TraceKept, PTL

-----------------------------------------------------------------------------
(* The rehearsal leaves out what is done outside a transaction.             *)

(* e is d after some of that: indexes more, and columns filled that were    *)
(* empty, not with ids that are no UUIDs.                                   *)
Fed(a, b) ==
    /\ b.type = a.type
    /\ b.data \cap NoUuids \subseteq a.data
    /\ a.data # {} => b.data # {}
FedColumns(f, g) == DOMAIN g = DOMAIN f /\ \A k \in DOMAIN f : Fed(f[k], g[k])
MoreIndexes(f, g) == DOMAIN f \subseteq DOMAIN g /\ DOMAIN g \subseteq DOMAIN f \cup OnlineIndexes
Ahead(d, e) ==
    /\ e.tables = d.tables /\ e.types = d.types
    /\ FedColumns(d.cols, e.cols) /\ MoreIndexes(d.indexes, e.indexes)

LEMMA AheadOfItself == ASSUME NEW d PROVE Ahead(d, d)
BY DEF Ahead, FedColumns, Fed, MoreIndexes

LEMMA FedWith ==
    ASSUME NEW f, NEW g, FedColumns(f, g), NEW k, NEW a, NEW b, Fed(a, b)
    PROVE  FedColumns(With(f, k, a), With(g, k, b))
<1> HIDE DEF Fed
<1> QED BY DEF FedColumns, With

LEMMA FedWithout ==
    ASSUME NEW f, NEW g, FedColumns(f, g), NEW ks
    PROVE  FedColumns(Without(f, ks), Without(g, ks))
<1> HIDE DEF Fed
<1> QED BY DEF FedColumns, Without

LEMMA FedSame == ASSUME NEW a PROVE Fed(a, a)
BY DEF Fed

LEMMA FedColumn ==
    ASSUME NEW x, NEW y, NEW ty, y \cap NoUuids \subseteq x, x # {} => y # {}
    PROVE  Fed(Column(x, ty), Column(y, ty))
<1> DEFINE a == Column(x, ty)
           b == Column(y, ty)
<1>1. a.data = x /\ a.type = ty /\ b.data = y /\ b.type = ty
  BY DEF Column
<1> HIDE DEF a, b
<1>2. Fed(a, b)
  BY <1>1 DEF Fed
<1> QED BY <1>2 DEF a, b

LEMMA AheadCols ==
    ASSUME NEW d, NEW e, Ahead(d, e), NEW f, NEW g, FedColumns(f, g)
    PROVE  Ahead(SetCols(d, f), SetCols(e, g))
<1> DEFINE a == SetCols(d, f)
           b == SetCols(e, g)
<1>1. /\ a.tables = d.tables /\ a.cols = f /\ a.indexes = d.indexes /\ a.types = d.types
      /\ b.tables = e.tables /\ b.cols = g /\ b.indexes = e.indexes /\ b.types = e.types
  BY DEF SetCols, Database
<1> HIDE DEF a, b
<1>2. Ahead(a, b)
  BY <1>1 DEF Ahead
<1> QED BY <1>2 DEF a, b

LEMMA AheadTypes ==
    ASSUME NEW d, NEW e, Ahead(d, e), NEW f, NEW g, FedColumns(f, g), NEW tys
    PROVE  Ahead(SetTypes(d, f, tys), SetTypes(e, g, tys))
<1> DEFINE a == SetTypes(d, f, tys)
           b == SetTypes(e, g, tys)
<1>1. /\ a.tables = d.tables /\ a.cols = f /\ a.indexes = d.indexes /\ a.types = tys
      /\ b.tables = e.tables /\ b.cols = g /\ b.indexes = e.indexes /\ b.types = tys
  BY DEF SetTypes, Database
<1> HIDE DEF a, b
<1>2. Ahead(a, b)
  BY <1>1 DEF Ahead
<1> QED BY <1>2 DEF a, b

LEMMA AheadTables ==
    ASSUME NEW d, NEW e, Ahead(d, e), NEW f, NEW g, FedColumns(f, g), NEW ts
    PROVE  Ahead(SetTables(d, ts, f), SetTables(e, ts, g))
<1> DEFINE a == SetTables(d, ts, f)
           b == SetTables(e, ts, g)
<1>1. /\ a.tables = ts /\ a.cols = f /\ a.indexes = d.indexes /\ a.types = d.types
      /\ b.tables = ts /\ b.cols = g /\ b.indexes = e.indexes /\ b.types = e.types
  BY DEF SetTables, Database
<1> HIDE DEF a, b
<1>2. Ahead(a, b)
  BY <1>1 DEF Ahead
<1> QED BY <1>2 DEF a, b

LEMMA SetIndexesIs ==
    ASSUME NEW d, NEW ix
    PROVE  /\ SetIndexes(d, ix).tables = d.tables /\ SetIndexes(d, ix).cols = d.cols
           /\ SetIndexes(d, ix).indexes = ix /\ SetIndexes(d, ix).types = d.types
BY DEF SetIndexes, Database

(* An index that both get, or that one of them had already.                 *)
LEMMA AheadIndexes ==
    ASSUME NEW d, NEW e, NEW a, NEW b, Ahead(d, e),
           a = d \/ \E ix : a = SetIndexes(d, ix),
           b = e \/ \E ix : b = SetIndexes(e, ix),
           MoreIndexes(a.indexes, b.indexes)
    PROVE  Ahead(a, b)
<1>1. a.tables = d.tables /\ a.cols = d.cols /\ a.types = d.types
  BY SetIndexesIs
<1>2. b.tables = e.tables /\ b.cols = e.cols /\ b.types = e.types
  BY SetIndexesIs
<1> QED BY <1>1, <1>2 DEF Ahead

IndexVerbs == {"CREATE INDEX", "DROP INDEX"}

LEMMA AheadThere ==
    ASSUME NEW d, NEW e, Ahead(d, e), NEW s, s.verb \notin IndexVerbs
    PROVE  There(d, s) = There(e, s) /\ Skipped(d, s) = Skipped(e, s)
<1>0. /\ e.tables = d.tables /\ e.types = d.types /\ DOMAIN e.cols = DOMAIN d.cols
  BY DEF Ahead, FedColumns
<1>1. There(d, s) = There(e, s)
  BY <1>0 DEF There, IndexVerbs
<1> QED BY <1>0, <1>1 DEF Skipped

LEMMA AheadExists ==
    ASSUME NEW d, NEW e, Ahead(d, e), NEW ty
    PROVE  TypeExists(d, ty) => TypeExists(e, ty)
BY DEF Ahead, TypeExists

(* Statements on tables and columns.                                        *)
LEMMA AheadColumnStep ==
    ASSUME NEW d, NEW e, Ahead(d, e), NEW s, CanRun(d, s),
           s.verb \in {"ADD", "ADD COLUMN", "ALTER COLUMN TYPE", "DROP COLUMN", "RENAME COLUMN", "REPLACE COLUMN"}
    PROVE  CanRun(e, s) /\ Ahead(Change(d, s), Change(e, s))
<1> DEFINE k == <<s.table, s.col>>
           n == <<s.table, s.to>>
<1>0. /\ e.tables = d.tables /\ FedColumns(d.cols, e.cols) /\ DOMAIN e.cols = DOMAIN d.cols
      /\ TypeExists(d, s.type) => TypeExists(e, s.type)
      /\ k \in DOMAIN d.cols => Fed(d.cols[k], e.cols[k])
  BY AheadExists DEF Ahead, FedColumns
<1>1. CASE s.verb \in {"ADD", "ADD COLUMN"}
  <2> DEFINE v == Column(IF Has(s, "DEFAULT") /\ d.tables[s.table] THEN {"fill"} ELSE {}, s.type)
  <2>1. CanRun(e, s)
    BY <1>0, <1>1 DEF CanRun
  <2>2. Change(d, s) = SetCols(d, With(d.cols, k, v)) /\ Change(e, s) = SetCols(e, With(e.cols, k, v))
    BY <1>0, <1>1 DEF Change
  <2> HIDE DEF v, k
  <2>3. FedColumns(With(d.cols, k, v), With(e.cols, k, v))
    BY <1>0, FedSame, FedWith
  <2> QED BY <2>1, <2>2, <2>3, AheadCols
<1>2. CASE s.verb = "ALTER COLUMN TYPE"
  <2>0. k \in DOMAIN d.cols /\ TypeExists(d, s.type) /\ Fits(d.cols[k].data, s.type)
    BY <1>2 DEF CanRun
  <2>9. Fits(e.cols[k].data, s.type)
    <3> DEFINE x == d.cols[k].data
               y == e.cols[k].data
    <3>1. y \cap NoUuids \subseteq x /\ Fits(x, s.type) /\ LongText \in NoUuids
      BY <1>0, <2>0 DEF Fed, NoUuids
    <3> HIDE DEF x, y
    <3>2. Fits(y, s.type)
      BY <3>1 DEF Fits
    <3> QED BY <3>2 DEF y
  <2>1. CanRun(e, s) /\ k \in DOMAIN d.cols
    BY <1>0, <1>2, <2>0, <2>9 DEF CanRun
  <2> DEFINE v == Column(d.cols[k].data, s.type)
             w == Column(e.cols[k].data, s.type)
  <2>2. Change(d, s) = SetCols(d, With(d.cols, k, v)) /\ Change(e, s) = SetCols(e, With(e.cols, k, w))
    BY <1>2 DEF Change
  <2>3. Fed(v, w)
    <3> DEFINE x == d.cols[k].data
               y == e.cols[k].data
    <3>1. y \cap NoUuids \subseteq x /\ (x # {} => y # {})
      BY <1>0, <2>1 DEF Fed
    <3> HIDE DEF x, y
    <3>2. Fed(Column(x, s.type), Column(y, s.type))
      BY <3>1, FedColumn
    <3> QED BY <3>2 DEF x, y
  <2> HIDE DEF v, w, k
  <2>4. FedColumns(With(d.cols, k, v), With(e.cols, k, w))
    BY <1>0, <2>3, FedWith
  <2> QED BY <2>1, <2>2, <2>4, AheadCols
<1>3. CASE s.verb = "DROP COLUMN"
  <2>1. CanRun(e, s)
    BY <1>0, <1>3 DEF CanRun
  <2>2. Change(d, s) = SetCols(d, Without(d.cols, {k})) /\ Change(e, s) = SetCols(e, Without(e.cols, {k}))
    BY <1>3 DEF Change
  <2> HIDE DEF k
  <2>3. FedColumns(Without(d.cols, {k}), Without(e.cols, {k}))
    BY <1>0, FedWithout
  <2> QED BY <2>1, <2>2, <2>3, AheadCols
<1>4. CASE s.verb \in {"RENAME COLUMN", "REPLACE COLUMN"}
  <2>1. CanRun(e, s) /\ k \in DOMAIN d.cols
    BY <1>0, <1>4 DEF CanRun
  <2> DEFINE f == Without(d.cols, {k})
             g == Without(e.cols, {k})
             v == d.cols[k]
             w == e.cols[k]
  <2>2. Change(d, s) = SetCols(d, With(f, n, v)) /\ Change(e, s) = SetCols(e, With(g, n, w))
    BY <1>4 DEF Change
  <2>3. FedColumns(f, g)
    BY <1>0, FedWithout
  <2>4. Fed(v, w)
    BY <1>0, <2>1
  <2> HIDE DEF f, g, v, w, k, n
  <2>5. FedColumns(With(f, n, v), With(g, n, w))
    BY <2>3, <2>4, FedWith
  <2> QED BY <2>1, <2>2, <2>5, AheadCols
<1> QED BY <1>1, <1>2, <1>3, <1>4

(* What an UPDATE leaves of a value, in a database and in one ahead of it.   *)
LEMMA ConvertedIsAhead ==
    ASSUME NEW x, NEW y, y \cap NoUuids \subseteq x, x # {} => y # {}, NEW ty
    PROVE  /\ Malformed \notin x => AsUuid(y) \cap NoUuids = {}
           /\ (AsUuid(x) = {} <=> x = {}) /\ (AsUuid(y) = {} <=> y = {})
           /\ CastOf(y, ty) \cap NoUuids \subseteq CastOf(x, ty)
           /\ CastOf(x, ty) # {} => CastOf(y, ty) # {}
<1>0. /\ NoUuids = {FreeForm, Malformed, LongText} /\ FreeForm # LongText /\ Malformed # LongText
      /\ FreeForm # Malformed /\ "random" \notin NoUuids /\ "cut" \notin NoUuids
  BY DEF NoUuids, FreeForm, Malformed, LongText
<1>1. Malformed \notin x => AsUuid(y) \cap NoUuids = {}
  <2> SUFFICES ASSUME Malformed \notin x, NEW v \in AsUuid(y), v \in NoUuids PROVE FALSE
    OBVIOUS
  <2>1. PICK w \in y : v = IF w \in {FreeForm, LongText} THEN "random" ELSE w
    BY DEF AsUuid
  <2>2. v = w /\ w = Malformed
    BY <1>0, <2>1
  <2> QED BY <1>0, <2>2
<1>2. (AsUuid(x) = {} <=> x = {}) /\ (AsUuid(y) = {} <=> y = {})
  BY DEF AsUuid
<1>3. \A v : v \in Shortened(y) /\ v \in NoUuids => v \in y /\ v # LongText
  <2> SUFFICES ASSUME NEW v, v \in Shortened(y), v \in NoUuids PROVE v \in y /\ v # LongText
    OBVIOUS
  <2>1. PICK w \in y : v = IF w = LongText THEN "cut" ELSE w
    BY DEF Shortened
  <2> QED BY <1>0, <2>1
<1>4. \A v : v \in x /\ v # LongText => v \in Shortened(x)
  BY DEF Shortened
<1>5. (Shortened(x) = {} <=> x = {}) /\ (Shortened(y) = {} <=> y = {})
  BY DEF Shortened
<1>6. Shortened(y) \cap NoUuids \subseteq Shortened(x)
  BY <1>3, <1>4
<1> QED BY <1>1, <1>2, <1>5, <1>6 DEF CastOf

LEMMA AheadUpdateStep ==
    ASSUME NEW d, NEW e, Ahead(d, e), NEW s, Gentle(s), CanRun(d, s), s.verb = "UPDATE"
    PROVE  CanRun(e, s) /\ Ahead(Change(d, s), Change(e, s))
<1> DEFINE k == <<s.table, s.col>>
           n == <<s.table, s.to>>
           From(old, src, rows) ==
             IF Has(s, "WHERE NULL") THEN (IF old = {} THEN AsUuid(src) ELSE old)
             ELSE IF s.to = None THEN (IF old = {} /\ rows THEN {"fill"} ELSE old)
             ELSE IF Has(s, "CAST") THEN CastOf(src, s.type) ELSE src
           rs == d.tables[s.table]
           od == d.cols[k].data
           oe == e.cols[k].data
           sd == d.cols[n].data
           se == e.cols[n].data
           v == Column(From(od, sd, rs), d.cols[k].type)
           w == Column(From(oe, se, rs), e.cols[k].type)
<1>0. /\ e.tables = d.tables /\ FedColumns(d.cols, e.cols) /\ DOMAIN e.cols = DOMAIN d.cols
      /\ \A c \in DOMAIN d.cols : Fed(d.cols[c], e.cols[c])
  BY DEF Ahead, FedColumns
<1>1. k \in DOMAIN d.cols /\ s.table \in DOMAIN d.tables /\ (s.to # None => UpdateConverts(d, s, k, n))
  BY DEF CanRun
<1>2. s.to # None => n \in DOMAIN d.cols
  BY <1>1 DEF UpdateConverts
<1>3. oe \cap NoUuids \subseteq od /\ (od # {} => oe # {})
  BY <1>0, <1>1 DEF Fed
<1>4. s.to # None => se \cap NoUuids \subseteq sd /\ (sd # {} => se # {})
  BY <1>0, <1>2 DEF Fed
<1>5. s.to # None => /\ Has(s, "CAST") /\ s.type = "uuid" => sd \cap NoUuids = {}
                     /\ Has(s, "WHERE NULL") /\ od = {} => Malformed \notin sd
  BY <1>1 DEF UpdateConverts
<1>6. CanRun(e, s)
  <2>1. ASSUME s.to # None PROVE UpdateConverts(e, s, k, n)
    <3>1. n \in DOMAIN e.cols
      BY <1>0, <1>2, <2>1
    <3>2. Has(s, "CAST") /\ s.type = "uuid" => se \cap NoUuids = {}
      <4> HIDE DEF sd, se
      <4> QED BY <1>4, <1>5, <2>1
    <3>3. Has(s, "WHERE NULL") /\ oe = {} => Malformed \notin se
      <4>1. Malformed \in NoUuids
        BY DEF NoUuids
      <4> HIDE DEF sd, se, od, oe
      <4> QED BY <1>3, <1>4, <1>5, <2>1, <4>1
    <3> QED BY <3>1, <3>2, <3>3 DEF UpdateConverts
  <2> QED BY <1>0, <1>1, <2>1 DEF CanRun
<1>7. Change(d, s) = SetCols(d, With(d.cols, k, v)) /\ Change(e, s) = SetCols(e, With(e.cols, k, w))
  BY <1>0 DEF Change
<1>8. e.cols[k].type = d.cols[k].type
  BY <1>0, <1>1 DEF Fed
<1>9. Has(s, "WHERE NULL") => s.to # None
  BY DEF Gentle, Has
<1>10. "fill" \notin NoUuids
  BY DEF NoUuids, FreeForm, Malformed, LongText
<1> HIDE DEF rs, od, oe, sd, se
<1>11. From(oe, se, rs) \cap NoUuids \subseteq From(od, sd, rs)
  <2>1. CASE Has(s, "WHERE NULL")
    <3>1. od = {} => AsUuid(se) \cap NoUuids = {}
      BY <1>4, <1>5, <1>9, <2>1, ConvertedIsAhead
    <3> QED BY <1>3, <2>1, <3>1
  <2>2. CASE ~Has(s, "WHERE NULL") /\ s.to # None /\ Has(s, "CAST")
    BY <1>4, <2>2, ConvertedIsAhead
  <2>3. CASE ~Has(s, "WHERE NULL") /\ ~(s.to # None /\ Has(s, "CAST"))
    BY <1>3, <1>4, <1>10, <2>3
  <2> QED BY <2>1, <2>2, <2>3
<1>12. From(od, sd, rs) # {} => From(oe, se, rs) # {}
  <2>1. CASE Has(s, "WHERE NULL")
    <3>1. AsUuid(sd) # {} => AsUuid(se) # {}
      BY <1>4, <1>9, <2>1, ConvertedIsAhead
    <3> QED BY <1>3, <2>1, <3>1
  <2>2. CASE ~Has(s, "WHERE NULL") /\ s.to # None /\ Has(s, "CAST")
    BY <1>4, <2>2, ConvertedIsAhead
  <2>3. CASE ~Has(s, "WHERE NULL") /\ ~(s.to # None /\ Has(s, "CAST"))
    BY <1>3, <1>4, <2>3
  <2> QED BY <2>1, <2>2, <2>3
<1> HIDE DEF From, k, n
<1>13. Fed(v, w)
  BY <1>8, <1>11, <1>12, FedColumn
<1> HIDE DEF v, w
<1>14. FedColumns(With(d.cols, k, v), With(e.cols, k, w))
  BY <1>0, <1>13, FedWith
<1> QED BY <1>6, <1>7, <1>14, AheadCols

(* Statements on tables and types, and those that change nothing here.      *)
LEMMA AheadTypeStep ==
    ASSUME NEW d, NEW e, Ahead(d, e), NEW s, CanRun(d, s),
           s.verb \in {"CREATE TYPE", "RENAME TYPE", "DROP TYPE"}
    PROVE  CanRun(e, s) /\ Ahead(Change(d, s), Change(e, s))
<1>0. /\ e.types = d.types /\ FedColumns(d.cols, e.cols) /\ DOMAIN e.cols = DOMAIN d.cols
      /\ \A c \in DOMAIN d.cols : Fed(d.cols[c], e.cols[c])
  BY DEF Ahead, FedColumns
<1>1. CanRun(e, s)
  BY <1>0 DEF CanRun, Fed
<1>2. CASE s.verb \in {"CREATE TYPE", "DROP TYPE"}
  <2>1. PICK tys : Change(d, s) = SetTypes(d, d.cols, tys) /\ Change(e, s) = SetTypes(e, e.cols, tys)
    BY <1>0, <1>2 DEF Change
  <2> QED BY <1>0, <1>1, <2>1, AheadTypes
<1>3. CASE s.verb = "RENAME TYPE"
  <2> DEFINE Of(c) == Column(c.data, IF c.type = s.type THEN s.to ELSE c.type)
             f == [c \in DOMAIN d.cols |-> Of(d.cols[c])]
             g == [c \in DOMAIN e.cols |-> Of(e.cols[c])]
             tys == (d.types \ {s.type}) \cup {s.to}
  <2>1. Change(d, s) = SetTypes(d, f, tys) /\ Change(e, s) = SetTypes(e, g, tys)
    BY <1>0, <1>3 DEF Change
  <2>2. ASSUME NEW c \in DOMAIN d.cols
        PROVE  Fed(Of(d.cols[c]), Of(e.cols[c]))
    <3> DEFINE x == d.cols[c].data
               y == e.cols[c].data
               ty == IF d.cols[c].type = s.type THEN s.to ELSE d.cols[c].type
    <3>1. /\ y \cap NoUuids \subseteq x /\ (x # {} => y # {})
          /\ e.cols[c].type = d.cols[c].type
      BY <1>0 DEF Fed
    <3>2. Of(d.cols[c]) = Column(x, ty) /\ Of(e.cols[c]) = Column(y, ty)
      BY <3>1
    <3> HIDE DEF x, y, ty, Of
    <3> QED BY <3>1, <3>2, FedColumn
  <2> HIDE DEF Of
  <2>3. FedColumns(f, g)
    BY <1>0, <2>2 DEF FedColumns
  <2> HIDE DEF f, g, tys
  <2> QED BY <1>1, <2>1, <2>3, AheadTypes
<1> QED BY <1>2, <1>3

LEMMA AheadTableStep ==
    ASSUME NEW d, NEW e, Ahead(d, e), NEW s, CanRun(d, s), s.verb = "CREATE TABLE"
    PROVE  CanRun(e, s) /\ Ahead(Change(d, s), Change(e, s))
<1>0. /\ e.tables = d.tables /\ FedColumns(d.cols, e.cols) /\ DOMAIN e.cols = DOMAIN d.cols
      /\ \A c \in DOMAIN d.cols : Fed(d.cols[c], e.cols[c])
  BY DEF Ahead, FedColumns
<1>1. CanRun(e, s)
  BY <1>0, AheadExists DEF CanRun
<1> DEFINE ks == {<<s.table, m>> : m \in DOMAIN s.cols}
           New(c) == Column({}, s.cols[c[2]])
           f == [c \in DOMAIN d.cols \cup ks |-> IF c[1] = s.table THEN New(c) ELSE d.cols[c]]
           g == [c \in DOMAIN e.cols \cup ks |-> IF c[1] = s.table THEN New(c) ELSE e.cols[c]]
           ts == With(d.tables, s.table, FALSE)
<1>2. Change(d, s) = SetTables(d, ts, f) /\ Change(e, s) = SetTables(e, ts, g)
  BY <1>0 DEF Change
<1>3. \A c \in ks : c[1] = s.table
  <2> HIDE DEF New, f, g, ts
  <2> TAKE c \in ks
  <2>1. PICK m \in DOMAIN s.cols : c = <<s.table, m>>
    OBVIOUS
  <2> QED BY <2>1
<1> HIDE DEF New, ks
<1>4. FedColumns(f, g)
  <2>1. DOMAIN f = DOMAIN d.cols \cup ks /\ DOMAIN g = DOMAIN f
    BY <1>0
  <2>2. ASSUME NEW c \in DOMAIN d.cols \cup ks
        PROVE  Fed(f[c], g[c])
    <3>1. CASE c[1] = s.table
      BY <1>0, <3>1, FedSame
    <3>2. CASE c[1] # s.table
      <4>1. c \in DOMAIN d.cols /\ f[c] = d.cols[c] /\ g[c] = e.cols[c]
        BY <1>0, <1>3, <3>2
      <4> QED BY <1>0, <4>1
    <3> QED BY <3>1, <3>2
  <2> HIDE DEF f, g
  <2> QED BY <2>1, <2>2 DEF FedColumns
<1> HIDE DEF f, g, ts
<1> QED BY <1>1, <1>2, <1>4, AheadTables

LEMMA AheadStillStep ==
    ASSUME NEW d, NEW e, Ahead(d, e), NEW s, CanRun(d, s),
           s.verb \in {"SET NOT NULL", "DROP NOT NULL", "ADD CONSTRAINT", "INSERT", "DELETE", "CREATE EXTENSION"}
    PROVE  CanRun(e, s) /\ Ahead(Change(d, s), Change(e, s))
<1>0. /\ e.tables = d.tables /\ DOMAIN e.cols = DOMAIN d.cols
      /\ \A c \in DOMAIN d.cols : Fed(d.cols[c], e.cols[c])
  BY DEF Ahead, FedColumns
<1>1. CanRun(e, s)
  BY <1>0 DEF CanRun, Fed
<1>2. Change(d, s) = d /\ Change(e, s) = e
  BY DEF Change
<1> QED BY <1>1, <1>2

(* Statements on indexes: an index that is there already is left alone.     *)
LEMMA AheadIndexStep ==
    ASSUME NEW d, NEW e, Ahead(d, e), NEW s, Gentle(s), Executes(d, s), s.verb \in IndexVerbs
    PROVE  Executes(e, s) /\ Ahead(Effect(d, s), Effect(e, s))
<1>0. e.tables = d.tables /\ MoreIndexes(d.indexes, e.indexes)
  BY DEF Ahead
<1>1. (There(d, s) <=> s.col \in DOMAIN d.indexes) /\ (There(e, s) <=> s.col \in DOMAIN e.indexes)
  BY DEF There, IndexVerbs
<1> DEFINE a == Effect(d, s)
           b == Effect(e, s)
<1>2. CASE s.verb = "CREATE INDEX"
  <2>1. /\ CanRun(d, s) <=> s.table \in DOMAIN d.tables /\ s.col \notin DOMAIN d.indexes /\ ~Has(s, "MALFORMED")
        /\ CanRun(e, s) <=> s.table \in DOMAIN e.tables /\ s.col \notin DOMAIN e.indexes /\ ~Has(s, "MALFORMED")
    BY <1>2 DEF CanRun
  <2>2. /\ Change(d, s) = SetIndexes(d, With(d.indexes, s.col, s.table))
        /\ Change(e, s) = SetIndexes(e, With(e.indexes, s.col, s.table))
    BY <1>2 DEF Change
  <2>9. /\ DOMAIN Change(d, s).indexes = DOMAIN d.indexes \cup {s.col}
        /\ DOMAIN Change(e, s).indexes = DOMAIN e.indexes \cup {s.col}
    <3> DEFINE f == With(d.indexes, s.col, s.table)
               g == With(e.indexes, s.col, s.table)
    <3>1. DOMAIN f = DOMAIN d.indexes \cup {s.col} /\ DOMAIN g = DOMAIN e.indexes \cup {s.col}
      BY WithDomain
    <3>2. Change(d, s) = SetIndexes(d, f) /\ Change(e, s) = SetIndexes(e, g)
      BY <2>2
    <3> HIDE DEF f, g
    <3>3. Change(d, s).indexes = f /\ Change(e, s).indexes = g
      BY <3>2 DEF SetIndexes, Database
    <3> QED BY <3>1, <3>3
  <2>3. Has(s, "IF NOT EXISTS") \/ s.col \notin OnlineIndexes
    BY <1>2 DEF Gentle, Has
  <2>4. CASE s.col \in DOMAIN e.indexes /\ s.col \notin DOMAIN d.indexes
    <3>1. Has(s, "IF NOT EXISTS") /\ s.col \in OnlineIndexes
      BY <1>0, <2>3, <2>4 DEF MoreIndexes
    <3>2. Skipped(e, s) /\ b = e
      BY <1>1, <2>4, <3>1 DEF Skipped, Effect
    <3>3. a = d \/ a = Change(d, s)
      BY DEF Effect
    <3> HIDE DEF a, b
    <3>6. DOMAIN a.indexes = DOMAIN d.indexes \/ DOMAIN a.indexes = DOMAIN d.indexes \cup {s.col}
      BY <2>9, <3>3
    <3>4. MoreIndexes(a.indexes, b.indexes)
      BY <1>0, <2>4, <3>2, <3>6 DEF MoreIndexes
    <3>5. Ahead(a, b)
      BY <2>2, <3>2, <3>3, <3>4, AheadIndexes
    <3> QED BY <3>2, <3>5 DEF Executes, a, b
  <2>5. CASE s.col \in DOMAIN d.indexes <=> s.col \in DOMAIN e.indexes
    <3>1. Skipped(e, s) = Skipped(d, s)
      BY <1>0, <1>1, <2>5 DEF Skipped
    <3>2. Executes(e, s)
      BY <1>0, <2>1, <2>5, <3>1 DEF Executes
    <3>3. CASE Skipped(d, s)
      <4>1. a = d /\ b = e
        BY <3>1, <3>3 DEF Effect
      <4> QED BY <3>2, <4>1
    <3>4. CASE ~Skipped(d, s)
      <4>1. a = Change(d, s) /\ b = Change(e, s)
        BY <3>1, <3>4 DEF Effect
      <4> HIDE DEF a, b
      <4>4. DOMAIN a.indexes = DOMAIN d.indexes \cup {s.col} /\ DOMAIN b.indexes = DOMAIN e.indexes \cup {s.col}
        BY <2>9, <4>1
      <4>2. MoreIndexes(a.indexes, b.indexes)
        BY <1>0, <4>4 DEF MoreIndexes
      <4>3. Ahead(a, b)
        BY <2>2, <4>1, <4>2, AheadIndexes
      <4> QED BY <3>2, <4>3 DEF a, b
    <3> QED BY <3>3, <3>4
  <2> QED BY <1>0, <2>4, <2>5 DEF MoreIndexes
<1>3. CASE s.verb = "DROP INDEX"
  <2>1. (CanRun(d, s) <=> s.col \in DOMAIN d.indexes) /\ (CanRun(e, s) <=> s.col \in DOMAIN e.indexes)
    BY <1>3 DEF CanRun
  <2>2. /\ Change(d, s) = SetIndexes(d, Without(d.indexes, {s.col}))
        /\ Change(e, s) = SetIndexes(e, Without(e.indexes, {s.col}))
    BY <1>3 DEF Change
  <2>3. Executes(e, s)
    BY <1>0, <1>1, <1>3, <2>1 DEF Executes, Skipped, MoreIndexes
  <2>4. \A f : DOMAIN Without(f, {s.col}) = DOMAIN f \ {s.col}
    BY DEF Without
  <2>9. /\ DOMAIN Change(d, s).indexes = DOMAIN d.indexes \ {s.col}
        /\ DOMAIN Change(e, s).indexes = DOMAIN e.indexes \ {s.col}
    <3> DEFINE f == Without(d.indexes, {s.col})
               g == Without(e.indexes, {s.col})
    <3>1. DOMAIN f = DOMAIN d.indexes \ {s.col} /\ DOMAIN g = DOMAIN e.indexes \ {s.col}
      BY <2>4
    <3>2. Change(d, s) = SetIndexes(d, f) /\ Change(e, s) = SetIndexes(e, g)
      BY <2>2
    <3> HIDE DEF f, g
    <3>3. Change(d, s).indexes = f /\ Change(e, s).indexes = g
      BY <3>2 DEF SetIndexes, Database
    <3> QED BY <3>1, <3>3
  <2>5. (a = d \/ a = Change(d, s)) /\ (b = e \/ b = Change(e, s))
    BY DEF Effect
  <2>6. CASE a = d
    <3>1. s.col \in DOMAIN d.indexes => b = e
      <4>1. s.col \in DOMAIN d.indexes /\ ~Skipped(d, s) => a.indexes # d.indexes
        <5>1. ASSUME s.col \in DOMAIN d.indexes, ~Skipped(d, s)
              PROVE  DOMAIN a.indexes # DOMAIN d.indexes
          <6>1. a = Change(d, s)
            BY <5>1 DEF Effect
          <6> HIDE DEF a
          <6> QED BY <2>9, <5>1, <6>1
        <5> QED BY <5>1
      <4>2. s.col \in DOMAIN d.indexes => Skipped(d, s)
        BY <2>6, <4>1
      <4>3. s.col \in DOMAIN d.indexes => Skipped(e, s)
        BY <1>0, <1>1, <1>3, <4>2 DEF Skipped, MoreIndexes
      <4> QED BY <4>3 DEF Effect
    <3> HIDE DEF a, b
    <3>4. b = e \/ DOMAIN b.indexes = DOMAIN e.indexes \ {s.col}
      BY <2>5, <2>9
    <3>2. MoreIndexes(a.indexes, b.indexes)
      BY <1>0, <2>6, <3>1, <3>4 DEF MoreIndexes
    <3>3. Ahead(a, b)
      BY <2>2, <2>5, <3>2, AheadIndexes
    <3> QED BY <2>3, <3>3 DEF a, b
  <2>7. CASE a # d
    <3>1. ~Skipped(d, s) /\ s.col \in DOMAIN d.indexes
      BY <2>1, <2>7 DEF Effect, Executes
    <3>2. ~Skipped(e, s)
      BY <1>0, <1>1, <3>1 DEF Skipped, MoreIndexes
    <3>3. a = Change(d, s) /\ b = Change(e, s)
      BY <3>1, <3>2 DEF Effect
    <3> HIDE DEF a, b
    <3>6. DOMAIN a.indexes = DOMAIN d.indexes \ {s.col} /\ DOMAIN b.indexes = DOMAIN e.indexes \ {s.col}
      BY <2>9, <3>3
    <3>4. MoreIndexes(a.indexes, b.indexes)
      BY <1>0, <3>6 DEF MoreIndexes
    <3>5. Ahead(a, b)
      BY <2>2, <3>3, <3>4, AheadIndexes
    <3> QED BY <2>3, <3>5 DEF a, b
  <2> QED BY <2>6, <2>7
<1> QED BY <1>2, <1>3 DEF IndexVerbs

(* What can be done on the one can be done on the other, and it stays       *)
(* ahead.                                                                   *)
LEMMA AheadStep ==
    ASSUME NEW d, NEW e, Ahead(d, e), NEW s, Gentle(s), Executes(d, s)
    PROVE  Executes(e, s) /\ Ahead(Effect(d, s), Effect(e, s))
<1>1. CASE s.verb \in IndexVerbs
  BY <1>1, AheadIndexStep
<1>2. CASE s.verb \notin IndexVerbs
  <2>1. Skipped(d, s) = Skipped(e, s)
    BY <1>2, AheadThere
  <2>2. CASE Skipped(d, s)
    BY <2>1, <2>2 DEF Executes, Effect
  <2>3. CASE ~Skipped(d, s)
    <3>1. CanRun(d, s)
      BY <2>3 DEF Executes
    <3>2. CanRun(e, s) /\ Ahead(Change(d, s), Change(e, s))
      BY <1>2, <3>1, AheadColumnStep, AheadUpdateStep, AheadTypeStep, AheadTableStep, AheadStillStep
         DEF Gentle, EasyVerbs, IndexVerbs
    <3> QED BY <2>1, <2>3, <3>2 DEF Executes, Effect
  <2> QED BY <2>2, <2>3
<1> QED BY <1>1, <1>2

LEMMA AheadScript ==
    ASSUME NEW d, NEW e, Ahead(d, e), NEW stmts, GentleScript(stmts), Whole(d, stmts).ok
    PROVE  Whole(e, stmts).ok /\ Ahead(Whole(d, stmts).db, Whole(e, stmts).db)
<1>0. PICK S : stmts \in Seq(S) /\ \A s \in S : Gentle(s)
  BY DEF GentleScript
<1> DEFINE A == Script(d, stmts)
           B == Script(e, stmts)
           Good(n) == A[n].ok => B[n].ok /\ Ahead(A[n].db, B[n].db)
           T == {n \in 0 .. Len(stmts) : ~(Good(n) /\ DOMAIN A[n] = {"db", "ok"})}
<1>1. /\ \A n \in 0 .. Len(stmts) : A[n] = IF n = 0 THEN ScriptStart(d) ELSE ScriptStep(A[n - 1], stmts[n])
      /\ \A n \in 0 .. Len(stmts) : B[n] = IF n = 0 THEN ScriptStart(e) ELSE ScriptStep(B[n - 1], stmts[n])
  <2>1. A = [n \in 0 .. Len(stmts) |-> IF n = 0 THEN ScriptStart(d) ELSE ScriptStep(A[n - 1], stmts[n])]
    BY <1>0, ScriptIs
  <2>2. B = [n \in 0 .. Len(stmts) |-> IF n = 0 THEN ScriptStart(e) ELSE ScriptStep(B[n - 1], stmts[n])]
    BY <1>0, ScriptIs
  <2> HIDE DEF A, B
  <2> QED BY <2>1, <2>2
<1> HIDE DEF A, B
<1>2. ASSUME T # {} PROVE FALSE
  <2>1. PICK n \in T : \A m \in T : n <= m
    <3> HIDE DEF Good
    <3>1. T \subseteq 0 .. Len(stmts) /\ 0 .. Len(stmts) \subseteq Nat
      BY <1>0
    <3> HIDE DEF T
    <3> QED BY <1>2, <3>1, Least
  <2>2. n \in 0 .. Len(stmts) /\ Len(stmts) \in Nat
    <3> HIDE DEF Good
    <3> QED BY <1>0
  <2>3. ~(Good(n) /\ DOMAIN A[n] = {"db", "ok"})
    <3> HIDE DEF Good
    <3> QED OBVIOUS
  <2>4. \A m \in 0 .. Len(stmts) : m \notin T => Good(m) /\ DOMAIN A[m] = {"db", "ok"}
    <3> HIDE DEF Good
    <3> QED OBVIOUS
  <2> HIDE DEF T
  <2>5. n # 0
    <3>0. 0 \in 0 .. Len(stmts)
      BY <1>0
    <3>1. A[0] = ScriptStart(d) /\ B[0] = ScriptStart(e)
      BY <1>1, <3>0
    <3>2. A[0].db = d /\ B[0].db = e /\ B[0].ok /\ DOMAIN A[0] = {"db", "ok"}
      BY <3>1 DEF ScriptStart
    <3> QED BY <2>3, <3>2
  <2>6. Good(n - 1) /\ DOMAIN A[n - 1] = {"db", "ok"} /\ stmts[n] \in S
    <3> HIDE DEF Good
    <3>1. n - 1 \in 0 .. Len(stmts) /\ n \in 1 .. Len(stmts)
      BY <2>2, <2>5
    <3>2. n - 1 \notin T
      BY <2>1, <2>2
    <3> QED BY <1>0, <2>4, <3>1, <3>2
  <2>7. A[n] = ScriptStep(A[n - 1], stmts[n]) /\ B[n] = ScriptStep(B[n - 1], stmts[n])
    BY <1>1, <2>2, <2>5
  <2>8. CASE A[n - 1].ok /\ Executes(A[n - 1].db, stmts[n])
    <3>1. A[n].db = Effect(A[n - 1].db, stmts[n]) /\ DOMAIN A[n] = {"db", "ok"}
      BY <2>7, <2>8 DEF ScriptStep
    <3>2. B[n - 1].ok /\ Ahead(A[n - 1].db, B[n - 1].db) /\ Gentle(stmts[n])
      BY <1>0, <2>6, <2>8
    <3>3. /\ Executes(B[n - 1].db, stmts[n])
          /\ Ahead(Effect(A[n - 1].db, stmts[n]), Effect(B[n - 1].db, stmts[n]))
      BY <2>8, <3>2, AheadStep
    <3>4. B[n].ok /\ B[n].db = Effect(B[n - 1].db, stmts[n])
      BY <2>7, <3>2, <3>3 DEF ScriptStep
    <3> QED BY <2>3, <3>1, <3>3, <3>4
  <2>9. CASE ~(A[n - 1].ok /\ Executes(A[n - 1].db, stmts[n]))
    <3>1. A[n] = [A[n - 1] EXCEPT !.ok = FALSE]
      BY <2>7, <2>9 DEF ScriptStep
    <3>2. ~A[n].ok /\ DOMAIN A[n] = {"db", "ok"}
      BY <2>6, <3>1
    <3> QED BY <2>3, <3>2
  <2> QED BY <2>8, <2>9
<1>3. Good(Len(stmts))
  <2> HIDE DEF Good
  <2>1. Len(stmts) \in 0 .. Len(stmts)
    BY <1>0
  <2> QED BY <1>2, <2>1
<1>4. Whole(d, stmts) = A[Len(stmts)] /\ Whole(e, stmts) = B[Len(stmts)]
  BY DEF Whole, A, B
<1> QED BY <1>3, <1>4

-----------------------------------------------------------------------------
(* What the next migration makes of a database in a run that a rehearsal    *)
(* stands for, and a whole list of them.                                    *)
Passes(d, n, e) ==
    IF Transactional(n) THEN Whole(d, Chain[n].up).ok /\ e = Whole(d, Chain[n].up).db ELSE e = d
Goes(d, ns, e) ==
    \E g : g[0] = d /\ g[Len(ns)] = e /\ \A k \in 1 .. Len(ns) : Passes(g[k - 1], ns[k], g[k])

LEMMA GoesNowhere == ASSUME NEW d PROVE Goes(d, <<>>, d)
<1> DEFINE g == [k \in {0} |-> d]
<1>1. g[0] = d /\ Len(<<>>) = 0 /\ 1 .. 0 = {}
  OBVIOUS
<1> HIDE DEF g
<1> QED BY <1>1 DEF Goes

LEMMA GoesFurther ==
    ASSUME NEW S, NEW ns \in Seq(S), NEW n \in S, NEW d, NEW c, Goes(d, ns, c), NEW e, Passes(c, n, e)
    PROVE  Goes(d, Append(ns, n), e)
<1> DEFINE m == Len(ns)
           all == Append(ns, n)
<1>0. m \in Nat /\ Len(all) = m + 1 /\ all[m + 1] = n /\ \A k \in 1 .. m : all[k] = ns[k]
  OBVIOUS
<1>1. PICK g : g[0] = d /\ g[m] = c /\ \A k \in 1 .. m : Passes(g[k - 1], ns[k], g[k])
  BY DEF Goes
<1> DEFINE h == [k \in 0 .. (m + 1) |-> IF k = m + 1 THEN e ELSE g[k]]
<1> HIDE DEF m, all
<1>2. h[0] = d /\ h[m] = c /\ h[m + 1] = e /\ \A k \in 0 .. m : h[k] = g[k]
  BY <1>0, <1>1
<1> HIDE DEF h
<1>3. ASSUME NEW k \in 1 .. (m + 1) PROVE Passes(h[k - 1], all[k], h[k])
  <2>1. CASE k = m + 1
    <3>1. k - 1 = m
      BY <1>0, <2>1
    <3> QED BY <1>0, <1>2, <2>1, <3>1
  <2>2. CASE k # m + 1
    <3>1. k \in 1 .. m /\ k \in 0 .. m /\ k - 1 \in 0 .. m
      BY <1>0, <2>2
    <3>2. Passes(g[k - 1], ns[k], g[k]) /\ all[k] = ns[k] /\ h[k - 1] = g[k - 1] /\ h[k] = g[k]
      BY <1>0, <1>1, <1>2, <3>1
    <3> QED BY <3>2
  <2> QED BY <2>1, <2>2
<1>4. Goes(d, all, e)
  BY <1>0, <1>2, <1>3 DEF Goes
<1> QED BY <1>4 DEF all

LEMMA GoesOn ==
    ASSUME NEW S, NEW ns \in Seq(S), ns # <<>>, NEW d, NEW e, Goes(d, ns, e)
    PROVE  \E c : Passes(d, Head(ns), c) /\ Goes(c, Tail(ns), e)
<1> DEFINE m == Len(ns)
           rest == Tail(ns)
<1>0. /\ m \in Nat /\ m # 0 /\ Len(rest) = m - 1 /\ Head(ns) = ns[1]
      /\ \A k \in 1 .. (m - 1) : rest[k] = ns[k + 1]
  OBVIOUS
<1>1. PICK g : g[0] = d /\ g[m] = e /\ \A k \in 1 .. m : Passes(g[k - 1], ns[k], g[k])
  BY DEF Goes
<1> DEFINE h == [k \in 0 .. (m - 1) |-> g[k + 1]]
<1> HIDE DEF m, rest
<1>2. h[0] = g[1] /\ h[m - 1] = e /\ \A k \in 0 .. (m - 1) : h[k] = g[k + 1]
  <2>1. 0 \in 0 .. (m - 1) /\ m - 1 \in 0 .. (m - 1) /\ (m - 1) + 1 = m /\ 0 + 1 = 1
    BY <1>0
  <2>2. \A k \in 0 .. (m - 1) : h[k] = g[k + 1]
    OBVIOUS
  <2> HIDE DEF h
  <2>3. h[0] = g[0 + 1] /\ h[m - 1] = g[(m - 1) + 1]
    BY <2>1, <2>2
  <2> QED BY <1>1, <2>1, <2>2, <2>3
<1> HIDE DEF h
<1>3. Passes(d, Head(ns), g[1])
  <2>1. 1 \in 1 .. m /\ 1 - 1 = 0
    BY <1>0
  <2>2. Passes(g[1 - 1], ns[1], g[1])
    BY <1>1, <2>1
  <2> QED BY <1>0, <1>1, <2>1, <2>2
<1>4. ASSUME NEW k \in 1 .. (m - 1) PROVE Passes(h[k - 1], rest[k], h[k])
  <2>1. k + 1 \in 1 .. m /\ (k + 1) - 1 = k /\ k - 1 \in 0 .. (m - 1) /\ (k - 1) + 1 = k /\ k \in 0 .. (m - 1)
    BY <1>0
  <2>2. Passes(g[(k + 1) - 1], ns[k + 1], g[k + 1])
    BY <1>1, <2>1
  <2>3. h[k - 1] = g[(k - 1) + 1] /\ h[k] = g[k + 1] /\ rest[k] = ns[k + 1]
    BY <1>0, <1>2, <2>1
  <2> QED BY <2>1, <2>2, <2>3
<1>5. Goes(g[1], rest, e)
  BY <1>0, <1>2, <1>4 DEF Goes
<1> QED BY <1>3, <1>5 DEF rest

(* The same list can be run on a database that is ahead.                    *)
LEMMA AheadPasses ==
    ASSUME NEW d, NEW e, Ahead(d, e), NEW n \in DOMAIN Chain, NEW c, Passes(d, n, c)
    PROVE  \E b : Passes(e, n, b) /\ Ahead(c, b)
<1>1. CASE Transactional(n)
  <2>1. GentleScript(Chain[n].up) /\ Whole(d, Chain[n].up).ok /\ c = Whole(d, Chain[n].up).db
    BY <1>1, ChainIsGentle DEF Passes
  <2>2. Whole(e, Chain[n].up).ok /\ Ahead(c, Whole(e, Chain[n].up).db)
    BY <2>1, AheadScript
  <2> QED BY <1>1, <2>2 DEF Passes
<1>2. CASE ~Transactional(n)
  BY <1>2 DEF Passes
<1> QED BY <1>1, <1>2

LEMMA AheadGoes ==
    ASSUME NEW ns \in Seq(DOMAIN Chain), NEW d, NEW e, Goes(d, ns, e), NEW a, Ahead(d, a)
    PROVE  \E b : Goes(a, ns, b)
<1>1. PICK g : g[0] = d /\ g[Len(ns)] = e /\ \A k \in 1 .. Len(ns) : Passes(g[k - 1], ns[k], g[k])
  BY DEF Goes
<1> DEFINE Upto(h, m) == /\ h[0] = a /\ Ahead(g[m], h[m])
                         /\ \A k \in 1 .. m : Passes(h[k - 1], ns[k], h[k])
           T == {m \in 0 .. Len(ns) : ~ \E h : Upto(h, m)}
<1>2. ASSUME T # {} PROVE FALSE
  <2>1. PICK m \in T : \A n \in T : m <= n
    <3>1. T \subseteq 0 .. Len(ns) /\ 0 .. Len(ns) \subseteq Nat
      <4> HIDE DEF Upto
      <4> QED OBVIOUS
    <3> HIDE DEF T
    <3> QED BY <1>2, <3>1, Least
  <2>2. m \in 0 .. Len(ns) /\ Len(ns) \in Nat /\ ~ \E h : Upto(h, m)
    <3> HIDE DEF Upto
    <3> QED OBVIOUS
  <2>3. CASE m = 0
    <3> DEFINE h == [k \in {0} |-> a]
    <3>1. h[0] = a /\ 1 .. 0 = {}
      OBVIOUS
    <3> HIDE DEF h
    <3>2. Upto(h, 0)
      BY <1>1, <3>1
    <3> HIDE DEF Upto
    <3> QED BY <2>2, <2>3, <3>2
  <2>4. CASE m # 0
    <3>1. m - 1 \in 0 .. Len(ns) /\ m - 1 \notin T /\ m \in 1 .. Len(ns) /\ m \in Nat
      <4> HIDE DEF T
      <4> QED BY <2>1, <2>2, <2>4
    <3>2. PICK h : Upto(h, m - 1)
      <4> HIDE DEF Upto
      <4> QED BY <3>1
    <3>3. ns[m] \in DOMAIN Chain /\ Passes(g[m - 1], ns[m], g[m]) /\ Ahead(g[m - 1], h[m - 1])
      BY <1>1, <3>1, <3>2
    <3>4. PICK b : Passes(h[m - 1], ns[m], b) /\ Ahead(g[m], b)
      BY <3>3, AheadPasses
    <3> DEFINE f == [k \in 0 .. m |-> IF k = m THEN b ELSE h[k]]
    <3>5. f[m] = b /\ \A k \in 0 .. (m - 1) : f[k] = h[k]
      BY <3>1
    <3> HIDE DEF f
    <3>6. f[0] = a
      <4>1. 0 \in 0 .. (m - 1)
        BY <2>4, <3>1
      <4> QED BY <3>2, <3>5, <4>1
    <3>7. ASSUME NEW k \in 1 .. m PROVE Passes(f[k - 1], ns[k], f[k])
      <4>1. CASE k = m
        <5>1. m - 1 \in 0 .. (m - 1)
          BY <2>4, <3>1
        <5> QED BY <3>4, <3>5, <4>1, <5>1
      <4>2. CASE k # m
        <5>1. k \in 1 .. (m - 1) /\ k \in 0 .. (m - 1) /\ k - 1 \in 0 .. (m - 1)
          BY <3>1, <4>2
        <5>2. Passes(h[k - 1], ns[k], h[k])
          BY <3>2, <5>1
        <5> QED BY <3>5, <5>1, <5>2
      <4> QED BY <4>1, <4>2
    <3>8. Upto(f, m)
      BY <3>4, <3>5, <3>6, <3>7
    <3> HIDE DEF Upto
    <3> QED BY <2>2, <3>8
  <2> QED BY <2>3, <2>4
<1>3. PICK h : Upto(h, Len(ns))
  <2>1. Len(ns) \in 0 .. Len(ns)
    OBVIOUS
  <2> HIDE DEF Upto
  <2> QED BY <1>2, <2>1
<1> QED BY <1>3 DEF Goes

-----------------------------------------------------------------------------
(* The recursion of Migrated, one migration at a time.                      *)
MigratedStep(before, n, ns) == IF before.ok /\ n \in ns THEN Whole(before.db, Chain[n].up) ELSE before

LEMMA MigratedIs ==
    ASSUME NEW db0, NEW m0 \in Nat, NEW ns
    PROVE  \E f : /\ Migrated(db0, m0, ns) = f[m0]
                  /\ \A n \in 0 .. m0 : f[n] = IF n = 0 THEN ScriptStart(db0) ELSE MigratedStep(f[n - 1], n, ns)
<1> DEFINE Is(f, m) == f = [n \in 0 .. m |-> IF n = 0 THEN ScriptStart(db0) ELSE MigratedStep(f[n - 1], n, ns)]
           T == {m \in Nat : ~ \E f : Is(f, m)}
<1>1. ASSUME T # {} PROVE FALSE
  <2>1. PICK m \in T : \A n \in T : m <= n
    <3> T \subseteq Nat OBVIOUS
    <3> HIDE DEF T
    <3> QED BY <1>1, Least
  <2>2. CASE m = 0
    <3>1. Is([n \in 0 .. 0 |-> ScriptStart(db0)], 0)
      OBVIOUS
    <3> QED BY <2>1, <2>2, <3>1
  <2>3. CASE m # 0
    <3>1. m - 1 \in Nat /\ m - 1 \notin T
      <4> m \in Nat OBVIOUS
      <4> HIDE DEF T
      <4> QED BY <2>1, <2>3
    <3>2. PICK f : Is(f, m - 1)
      BY <3>1
    <3> DEFINE g == [n \in 0 .. m |-> IF n = m THEN MigratedStep(f[m - 1], m, ns) ELSE f[n]]
    <3>3. \A n \in 0 .. m : g[n] = IF n = 0 THEN ScriptStart(db0) ELSE MigratedStep(g[n - 1], n, ns)
      <4> TAKE n \in 0 .. m
      <4> HIDE DEF ScriptStart, MigratedStep
      <4>1. \A k \in 0 .. (m - 1) : f[k] = IF k = 0 THEN ScriptStart(db0) ELSE MigratedStep(f[k - 1], k, ns)
        BY <3>1, <3>2
      <4> QED BY <2>3, <3>1, <4>1
    <3>4. Is(g, m)
      BY <3>3
    <3> QED BY <2>1, <3>4
  <2> QED BY <2>2, <2>3
<1>2. \E f : Is(f, m0)
  BY <1>1
<1> DEFINE F == CHOOSE f : Is(f, m0)
<1>3. Migrated(db0, m0, ns) = F[m0]
  BY DEF Migrated, ScriptStart, MigratedStep
<1>4. Is(F, m0)
  <2> HIDE DEF Is
  <2> QED BY <1>2
<1> HIDE DEF F
<1>5. \A n \in 0 .. m0 : F[n] = IF n = 0 THEN ScriptStart(db0) ELSE MigratedStep(F[n - 1], n, ns)
  BY <1>4
<1> HIDE DEF Is
<1> QED BY <1>3, <1>5

(* The rehearsal stands for the run of what is pending.                     *)
LEMMA RehearsalGoes ==
    ASSUME checkout \in Nat, Rehearsal
    PROVE  \E e : Goes(mdb, Pending, e)
<1> DEFINE ss == [n \in 1 .. checkout |-> IF n \in Range(recorded) THEN <<>> ELSE <<n>>]
           S == 1 .. checkout
<1>1. ss \in Seq(Seq(S)) /\ Len(ss) = checkout
  <2>1. \A n \in 1 .. checkout : ss[n] \in Seq(S)
    <3> TAKE n \in 1 .. checkout
    <3>1. <<>> \in Seq(S) /\ <<n>> \in Seq(S)
      OBVIOUS
    <3> QED BY <3>1
  <2>2. ss = [n \in 1 .. checkout |-> ss[n]] /\ Len(ss) = checkout
    OBVIOUS
  <2> HIDE DEF ss, S
  <2> QED BY <2>1, <2>2, IsSeqOf
<1>2. \A n \in 1 .. checkout : ss[n] = IF n \in Range(recorded) THEN <<>> ELSE <<n>>
  OBVIOUS
<1>3. Pending = FlattenSeq(ss)
  BY DEF Pending
<1> HIDE DEF ss
<1>4. CASE checkout = 0
  <2>1. Pending = <<>>
    BY <1>4, PendingIs
  <2> QED BY <2>1, GoesNowhere
<1>5. CASE checkout # 0
  <2>1. PICK f : /\ FlattenSeq(ss) = f[checkout]
                 /\ \A i \in 1 .. checkout : f[i] = IF i = 1 THEN ss[i] ELSE f[i - 1] \o ss[i]
                 /\ \A i \in 1 .. checkout : f[i] \in Seq(S)
    <3> HIDE DEF S
    <3> QED BY <1>1, <1>5, FlattenFolds
  <2>2. PICK a : /\ Migrated(mdb, checkout, Rehearsed) = a[checkout]
                 /\ \A n \in 0 .. checkout : a[n] = IF n = 0 THEN ScriptStart(mdb)
                                                    ELSE MigratedStep(a[n - 1], n, Rehearsed)
    BY MigratedIs
  <2> DEFINE F(i) == IF i = 0 THEN <<>> ELSE f[i]
             T == {i \in 0 .. checkout : a[i].ok /\ ~Goes(mdb, F(i), a[i].db)}
  <2>3. /\ F(0) = <<>>
        /\ \A i \in 0 .. checkout : F(i) \in Seq(S)
        /\ \A i \in 1 .. checkout : F(i) = F(i - 1) \o ss[i]
    <3>1. \A i \in 1 .. checkout : ss[i] \in Seq(S)
      BY <1>1
    <3>0. <<>> \in Seq(S) /\ \A s \in Seq(S) : <<>> \o s = s
      OBVIOUS
    <3>2. \A i \in 0 .. checkout : F(i) \in Seq(S)
      <4>1. \A i \in 0 .. checkout : i # 0 => i \in 1 .. checkout
        OBVIOUS
      <4> HIDE DEF S
      <4> QED BY <2>1, <3>0, <4>1
    <3>3. ASSUME NEW i \in 1 .. checkout PROVE F(i) = F(i - 1) \o ss[i]
      <4>1. CASE i = 1
        <5>1. F(i) = ss[i] /\ F(i - 1) = <<>> /\ ss[i] \in Seq(S)
          BY <2>1, <3>1, <4>1
        <5> HIDE DEF F, S
        <5>2. <<>> \o ss[i] = ss[i]
          BY <3>0, <5>1
        <5> QED BY <5>1, <5>2
      <4>2. CASE i # 1
        <5>1. F(i) = f[i] /\ F(i - 1) = f[i - 1]
          BY <4>2
        <5>2. f[i] = f[i - 1] \o ss[i]
          BY <2>1, <4>2
        <5> HIDE DEF F
        <5> QED BY <5>1, <5>2
      <4> QED BY <4>1, <4>2
    <3> QED BY <3>2, <3>3
  <2> HIDE DEF F
  <2>4. ASSUME T # {} PROVE FALSE
    <3>1. PICK i \in T : \A n \in T : i <= n
      <4>1. T \subseteq 0 .. checkout /\ 0 .. checkout \subseteq Nat
        OBVIOUS
      <4> HIDE DEF T
      <4> QED BY <2>4, <4>1, Least
    <3>2. i \in 0 .. checkout /\ a[i].ok /\ ~Goes(mdb, F(i), a[i].db)
      OBVIOUS
    <3>3. i # 0
      <4>1. 0 \in 0 .. checkout
        OBVIOUS
      <4>2. a[0] = ScriptStart(mdb)
        BY <2>2, <4>1
      <4>3. a[0].db = mdb
        BY <4>2 DEF ScriptStart
      <4> QED BY <2>3, <3>2, <4>3, GoesNowhere
    <3>4. i - 1 \in 0 .. checkout /\ i - 1 \notin T /\ i \in 1 .. checkout /\ i \in S
      <4> HIDE DEF T
      <4> QED BY <3>1, <3>2, <3>3
    <3>5. a[i] = MigratedStep(a[i - 1], i, Rehearsed)
      BY <2>2, <3>2, <3>3
    <3>6. a[i - 1].ok
      BY <3>2, <3>5 DEF MigratedStep
    <3>7. Goes(mdb, F(i - 1), a[i - 1].db)
      BY <3>4, <3>6
    <3> HIDE DEF T
    <3>8. CASE i \in Range(recorded)
      <4>1. i \notin Rehearsed
        BY <3>8 DEF Rehearsed
      <4>2. a[i] = a[i - 1]
        BY <3>5, <4>1 DEF MigratedStep
      <4>3. F(i) = F(i - 1) \o <<>> /\ F(i - 1) \in Seq(S)
        BY <1>2, <2>3, <3>4, <3>8
      <4>4. F(i) = F(i - 1)
        BY <4>3
      <4> QED BY <3>2, <3>7, <4>2, <4>4
    <3>9. CASE i \notin Range(recorded)
      <4>1. (i \in Rehearsed) <=> Transactional(i)
        BY <3>4, <3>9 DEF Rehearsed
      <4>2. Passes(a[i - 1].db, i, a[i].db)
        BY <3>2, <3>5, <3>6, <4>1 DEF MigratedStep, Passes
      <4>3. F(i) = F(i - 1) \o <<i>> /\ F(i - 1) \in Seq(S)
        BY <1>2, <2>3, <3>4, <3>9
      <4>4. F(i) = Append(F(i - 1), i)
        BY <3>4, <4>3
      <4> HIDE DEF S
      <4>5. Goes(mdb, Append(F(i - 1), i), a[i].db)
        BY <3>4, <3>7, <4>2, <4>3, GoesFurther
      <4> QED BY <3>2, <4>4, <4>5
    <3> QED BY <3>8, <3>9
  <2>5. checkout \in 0 .. checkout /\ a[checkout].ok /\ F(checkout) = Pending
    BY <1>3, <1>5, <2>1, <2>2 DEF Rehearsal, F
  <2> QED BY <2>4, <2>5
<1> QED BY <1>4, <1>5

(* What is done outside a transaction.                                      *)
LEMMA IndexIsAhead ==
    ASSUME NEW d, NEW t, NEW i \in OnlineIndexes
    PROVE  Ahead(d, Effect(d, Concurrently(Index(t, i))))
<1> DEFINE s == Concurrently(Index(t, i))
           e == Effect(d, s)
<1>1. s.verb = "CREATE INDEX" /\ s.table = t /\ s.col = i
  BY DEF Concurrently, Index, Stmt
<1> HIDE DEF s
<1>2. CASE e = d
  <2>1. Ahead(d, e)
    BY <1>2, AheadOfItself
  <2> QED BY <2>1 DEF s
<1>3. CASE e # d
  <2> DEFINE f == With(d.indexes, i, t)
  <2>1. DOMAIN f = DOMAIN d.indexes \cup {i}
    BY WithDomain
  <2> HIDE DEF f
  <2>2. e = SetIndexes(d, f)
    BY <1>1, <1>3 DEF Effect, Change, f
  <2>3. e.indexes = f
    BY <2>2 DEF SetIndexes, Database
  <2>4. MoreIndexes(d.indexes, e.indexes)
    BY <2>1, <2>3 DEF MoreIndexes
  <2> HIDE DEF e
  <2>5. Ahead(d, e)
    BY <2>2, <2>4, AheadOfItself, AheadIndexes
  <2> QED BY <2>5 DEF e, s
<1> QED BY <1>2, <1>3

LEMMA SetColsAhead ==
    ASSUME NEW d, NEW g, FedColumns(d.cols, g)
    PROVE  Ahead(d, SetCols(d, g))
<1> DEFINE b == SetCols(d, g)
<1>1. b.tables = d.tables /\ b.cols = g /\ b.indexes = d.indexes /\ b.types = d.types
  BY DEF SetCols, Database
<1> HIDE DEF b
<1>2. Ahead(d, b)
  BY <1>1, AheadOfItself DEF Ahead
<1> QED BY <1>2 DEF b

LEMMA BackfillIsAhead ==
    ASSUME NEW d, NEW s, s.verb = "UPDATE", "WHERE NULL" \in s.words, s.to # None, Executes(d, s)
    PROVE  Ahead(d, Effect(d, s))
<1> DEFINE k == <<s.table, s.col>>
           old == d.cols[k].data
           src == d.cols[<<s.table, s.to>>].data
           new == IF old = {} THEN AsUuid(src) ELSE old
           v == Column(new, d.cols[k].type)
<1>1. CASE Skipped(d, s)
  BY <1>1, AheadOfItself DEF Effect
<1>2. CASE ~Skipped(d, s)
  <2>1. k \in DOMAIN d.cols
    BY <1>2 DEF Executes, CanRun
  <2>2. Effect(d, s) = SetCols(d, With(d.cols, k, v))
    BY <1>2 DEF Effect, Change, Has
  <2>3. old = {} => AsUuid(src) \cap NoUuids = {}
    <3>1. UpdateConverts(d, s, k, <<s.table, s.to>>)
      BY <1>2 DEF Executes, CanRun
    <3>2. old = {} => Malformed \notin src
      BY <3>1 DEF UpdateConverts, Has
    <3> HIDE DEF src, old
    <3> QED BY <3>2, ConvertedIsAhead
  <2>4. v.data = new /\ v.type = d.cols[k].type
    BY DEF Column
  <2> HIDE DEF v
  <2>5. Fed(d.cols[k], v)
    <3> HIDE DEF src, k
    <3> QED BY <2>3, <2>4 DEF Fed
  <2> HIDE DEF k
  <2>6. FedColumns(d.cols, With(d.cols, k, v))
    <3>1. \A c \in DOMAIN d.cols : Fed(d.cols[c], d.cols[c])
      BY FedSame
    <3> HIDE DEF Fed
    <3> QED BY <2>1, <2>5, <3>1 DEF FedColumns, With
  <2> QED BY <2>2, <2>6, SetColsAhead
<1> QED BY <1>1, <1>2

LEMMA OnlineIsAhead ==
    ASSUME NEW n \in DOMAIN Chain, ~Transactional(n), NEW k \in 1 .. Len(Chain[n].up),
           NEW d, Executes(d, Chain[n].up[k])
    PROVE  Ahead(d, Effect(d, Chain[n].up[k]))
<1>1. CASE n = 2
  <2>1. Chain[n].up = <<Concurrently(Index("driver_offers", "idx_driver_offers_delivery_id"))>>
    BY <1>1, OnlineMigrations DEF DuplicateIndexUp
  <2>2. Chain[n].up[k] = Concurrently(Index("driver_offers", "idx_driver_offers_delivery_id"))
    BY <2>1
  <2>3. "idx_driver_offers_delivery_id" \in OnlineIndexes
    BY DEF OnlineIndexes
  <2> QED BY <2>2, <2>3, IndexIsAhead
<1>2. CASE n = 5
  <2>1. Chain[n].up[k] \in {NewExtension, OrderBackfill, DriverBackfill}
    <3>1. Chain[n].up = <<NewExtension, OrderBackfill, DriverBackfill>>
      BY <1>2, RealignScripts
    <3> HIDE DEF NewExtension, OrderBackfill, DriverBackfill
    <3> QED BY <3>1
  <2>2. /\ OrderBackfill.verb = "UPDATE" /\ "WHERE NULL" \in OrderBackfill.words /\ OrderBackfill.to # None
        /\ DriverBackfill.verb = "UPDATE" /\ "WHERE NULL" \in DriverBackfill.words /\ DriverBackfill.to # None
    BY DEF OrderBackfill, DriverBackfill, IfThere, Stmt, None
  <2>3. Ahead(d, Effect(d, NewExtension))
    BY ExtensionStays, AheadOfItself
  <2> QED BY <2>1, <2>2, <2>3, BackfillIsAhead
<1>3. CASE n = 7
  <2>1. RealignIndexesUp = [m \in 1 .. 4 |-> Concurrently(Index(RealignIndexNames[m][1], RealignIndexNames[m][2]))]
    BY DEF RealignIndexesUp, Each, RealignIndexNames
  <2>2. k \in 1 .. 4 /\ Chain[n].up[k] = RealignIndexesUp[k]
    <3>1. Len(RealignIndexesUp) = 4
      BY <2>1
    <3> QED BY <1>3, <3>1, OnlineMigrations
  <2>3. \A m \in 1 .. 4 : RealignIndexNames[m][2] \in OnlineIndexes
    BY DEF RealignIndexNames, OnlineIndexes
  <2>4. Chain[n].up[k] = Concurrently(Index(RealignIndexNames[k][1], RealignIndexNames[k][2]))
    BY <2>1, <2>2
  <2> QED BY <2>2, <2>3, <2>4, IndexIsAhead
<1> QED
  BY <1>1, <1>2, <1>3, NoTransaction

-----------------------------------------------------------------------------
(* A command that has not started its child.                                *)
Early == {"governed", "waiting", "locked", "rehearsed"}

(* An operator whose rehearsal nobody has spoilt: what is left of the run   *)
(* goes through, and no run of the operator has failed but at the backfill, *)
(* for an id that only looks like a UUID.                                   *)
Unspoilt(o) ==
    /\ cli[o] = "rehearsed" => Rehearsal
    /\ child[o].does = "run" => \E e : Goes(mdb, child[o].todo, e)
    /\ cli[o] = "idle" => outcome[o].how # "failed" \/ Excused(outcome[o])

CleanInv ==
    /\ DOMAIN cli = Operators /\ DOMAIN clean = Operators
    /\ \A o \in Operators : cli[o] \in Early => child[o] = NoChild
    /\ ~reverted => \A o \in Operators : clean[o] => Unspoilt(o)

LEMMA SameRehearsal ==
    ASSUME UNCHANGED <<mdb, recorded, checkout>>
    PROVE  Rehearsal => Rehearsal'
BY DEF Rehearsal, Rehearsed

LEMMA NotRunning == NoChild.does # "run" /\ NoChild.todo = <<>>
BY DEF NoChild

(* An operator the step is not about.                                       *)
LEMMA OthersUnspoilt ==
    ASSUME NEW p \in Operators, Unspoilt(p), mdb' = mdb, Rehearsal => Rehearsal',
           cli'[p] = cli[p], child'[p] = child[p], outcome'[p] = outcome[p]
    PROVE  Unspoilt(p)'
BY DEF Unspoilt, Excused

(* A step of o that leaves the others alone and keeps or spoils its own.    *)
LEMMA OneOperator ==
    ASSUME CleanInv, BaselineInv, NEW o \in Operators,
           ~reverted' => ~reverted /\ mdb' = mdb /\ (Rehearsal => Rehearsal'),
           DOMAIN cli' = Operators, DOMAIN clean' = Operators,
           \A p \in Operators \ {o} : /\ cli'[p] = cli[p] /\ child'[p] = child[p]
                                      /\ outcome'[p] = outcome[p] /\ (clean'[p] => clean[p]),
           cli'[o] \in Early => child'[o] = NoChild,
           ~reverted' /\ clean'[o] => Unspoilt(o)'
    PROVE  CleanInv'
<1>1. \A p \in Operators : cli'[p] \in Early => child'[p] = NoChild
  BY DEF CleanInv
<1>2. ASSUME ~reverted', NEW p \in Operators, clean'[p]
      PROVE  Unspoilt(p)'
  <2>1. CASE p = o
    BY <1>2, <2>1
  <2>2. CASE p # o
    <3>1. Unspoilt(p)
      BY <1>2, <2>2 DEF CleanInv
    <3> QED BY <1>2, <2>2, <3>1, OthersUnspoilt
  <2> QED BY <2>1, <2>2
<1>3. ~reverted' => \A p \in Operators : clean'[p] => Unspoilt(p)'
  BY <1>2
<1> QED BY <1>1, <1>3 DEF CleanInv

LEMMA ExitsClean ==
    ASSUME CleanInv, BaselineInv, NEW o \in Operators, NEW how, Exit(o, how)
    PROVE  /\ DOMAIN cli' = Operators /\ cli'[o] = "idle" /\ outcome'[o] = how
           /\ \A p \in Operators \ {o} : cli'[p] = cli[p] /\ outcome'[p] = outcome[p]
BY DEF CleanInv, BaselineInv, Exit

LEMMA MovesClean ==
    ASSUME CleanInv, NEW o \in Operators, NEW to, cli' = [cli EXCEPT ![o] = to]
    PROVE  DOMAIN cli' = Operators /\ cli'[o] = to /\ \A p \in Operators \ {o} : cli'[p] = cli[p]
BY DEF CleanInv

(* The command up to its rehearsal, and the end of it.                      *)
LEMMA ExitKeepsClean ==
    ASSUME CleanInv, BaselineInv, NEW o \in Operators,
           NEW how \in {"refused", "rehearsal failed", "applied", "killed", "cut off"}, NEW n, Exit(o, Ended(how, n)),
           UNCHANGED <<mdb, recorded, checkout, reverted, clean>>,
           child' = [child EXCEPT ![o] = NoChild] \/ child' = child
    PROVE  CleanInv'
<1>1. /\ DOMAIN cli' = Operators /\ cli'[o] = "idle" /\ outcome'[o] = Ended(how, n)
      /\ \A p \in Operators \ {o} : cli'[p] = cli[p] /\ outcome'[p] = outcome[p]
  BY ExitsClean
<1>2. Ended(how, n).how # "failed"
  BY DEF Ended
<1>3. (child'[o] = NoChild \/ child'[o] = child[o]) /\ \A p \in Operators \ {o} : child'[p] = child[p]
  BY DEF BaselineInv
<1>4. Rehearsal => Rehearsal'
  BY SameRehearsal
<1>5. ASSUME ~reverted', clean'[o] PROVE Unspoilt(o)'
  <2>1. Unspoilt(o)
    BY <1>5 DEF CleanInv
  <2> QED BY <1>1, <1>2, <1>3, <2>1, NotRunning DEF Unspoilt
<1>6. cli'[o] \notin Early
  BY <1>1 DEF Early
<1>7. DOMAIN clean' = Operators
  BY DEF CleanInv
<1> QED BY <1>1, <1>3, <1>4, <1>5, <1>6, <1>7, OneOperator

LEMMA MoveKeepsClean ==
    ASSUME CleanInv, BaselineInv, NEW o \in Operators, NEW to, cli' = [cli EXCEPT ![o] = to],
           UNCHANGED <<mdb, recorded, checkout, reverted, outcome, child>>,
           to # "idle", to = "rehearsed" => (clean'[o] => Rehearsal), child[o] = NoChild,
           clean' = clean \/ \E x : clean' = [clean EXCEPT ![o] = x]
    PROVE  CleanInv'
<1>1. DOMAIN cli' = Operators /\ cli'[o] = to /\ \A p \in Operators \ {o} : cli'[p] = cli[p]
  BY MovesClean
<1>2. Rehearsal => Rehearsal'
  BY SameRehearsal
<1>3. ASSUME ~reverted', clean'[o] PROVE Unspoilt(o)'
  BY <1>1, <1>2, <1>3, NotRunning DEF Unspoilt
<1>4. DOMAIN clean' = Operators /\ \A p \in Operators \ {o} : clean'[p] = clean[p]
  BY DEF CleanInv
<1> QED BY <1>1, <1>2, <1>3, <1>4, OneOperator

LEMMA CommandKeepsClean ==
    ASSUME CleanInv, BaselineInv, NEW o \in Operators,
           \/ RunMigrate(o) \/ CheckOrphanedMigrations(o) \/ AcquireAdvisoryLock(o)
           \/ RunSimulation(o) \/ SkipSimulation(o) \/ FinishApply(o) \/ Crash(o)
    PROVE  CleanInv'
<1>0. UNCHANGED <<mdb, recorded, checkout, reverted>>
  BY DEF RunMigrate, CheckOrphanedMigrations, AcquireAdvisoryLock, RunSimulation, SkipSimulation,
         FinishApply, Crash
<1>1. CASE RunMigrate(o)
  <2>1. CASE Exit(o, Ended("refused", checkout))
    BY <1>0, <1>1, <2>1, ExitKeepsClean DEF RunMigrate
  <2>2. CASE cli' = [cli EXCEPT ![o] = "governed"] /\ outcome' = outcome
    BY <1>0, <1>1, <2>2, MoveKeepsClean DEF RunMigrate
  <2> QED BY <1>1, <2>1, <2>2 DEF RunMigrate
<1>2. CASE CheckOrphanedMigrations(o)
  <2>1. CASE Exit(o, Ended("refused", checkout))
    BY <1>0, <1>2, <2>1, ExitKeepsClean DEF CheckOrphanedMigrations
  <2>2. CASE cli' = [cli EXCEPT ![o] = "waiting"] /\ outcome' = outcome
    <3>1. child[o] = NoChild
      BY <1>2 DEF CheckOrphanedMigrations, CleanInv, Early
    <3> QED BY <1>0, <1>2, <2>2, <3>1, MoveKeepsClean DEF CheckOrphanedMigrations
  <2> QED BY <1>2, <2>1, <2>2 DEF CheckOrphanedMigrations
<1>3. CASE AcquireAdvisoryLock(o)
  <2>1. child[o] = NoChild
    BY <1>3 DEF AcquireAdvisoryLock, CleanInv, Early
  <2> QED BY <1>0, <1>3, <2>1, MoveKeepsClean DEF AcquireAdvisoryLock
<1>4. CASE RunSimulation(o)
  <2>1. CASE Exit(o, Ended("rehearsal failed", checkout)) /\ clean' = clean
    BY <1>0, <1>4, <2>1, ExitKeepsClean DEF RunSimulation
  <2>2. CASE Rehearsal
    <3>1. child[o] = NoChild
      BY <1>4 DEF RunSimulation, CleanInv, Early
    <3>2. \E x : clean' = [clean EXCEPT ![o] = x]
      BY <1>4, <2>2 DEF RunSimulation
    <3> QED BY <1>0, <1>4, <2>2, <3>1, <3>2, MoveKeepsClean DEF RunSimulation
  <2> QED BY <1>4, <2>1, <2>2 DEF RunSimulation
<1>5. CASE SkipSimulation(o)
  <2>1. child[o] = NoChild
    BY <1>5 DEF SkipSimulation, CleanInv, Early
  <2>2. (\E x : clean' = [clean EXCEPT ![o] = x]) /\ ~clean'[o]
    BY <1>5 DEF SkipSimulation, CleanInv
  <2> QED BY <1>0, <1>5, <2>1, <2>2, MoveKeepsClean DEF SkipSimulation
<1>6. CASE FinishApply(o)
  BY <1>0, <1>6, ExitKeepsClean DEF FinishApply
<1>7. CASE Crash(o)
  BY <1>0, <1>7, ExitKeepsClean DEF Crash
<1> QED BY <1>1, <1>2, <1>3, <1>4, <1>5, <1>6, <1>7

(* What is cut off has not failed.                                          *)
LEMMA CutOffKeepsClean ==
    ASSUME CleanInv, BaselineInv, NEW o \in Operators, CutOff(o)
    PROVE  CleanInv'
<1>0. /\ UNCHANGED <<recorded, checkout, reverted>>
      /\ child' = child \/ child' = [child EXCEPT ![o] = NoChild]
  BY CutOffIs
<1>1. /\ child'[o] = child[o] \/ child'[o] = NoChild
      /\ \A p \in Operators \ {o} : child'[p] = child[p]
  BY <1>0 DEF BaselineInv
<1>2. Ended("cut off", 0).how # "failed"
  BY DEF Ended
<1>3. /\ DOMAIN cli' = Operators /\ cli'[o] = "idle"
      /\ \A p \in Operators \ {o} : cli'[p] = cli[p] /\ outcome'[p] = outcome[p]
      /\ \/ cli[o] = "idle" /\ outcome' = outcome
         \/ outcome'[o] = Ended("cut off", 0)
  <2>1. CASE Exit(o, Ended("cut off", 0))
    BY <2>1, ExitsClean
  <2>2. CASE UNCHANGED <<cli, outcome>> /\ cli[o] = "idle"
    BY <2>2 DEF CleanInv
  <2> QED BY <2>1, <2>2, CutOffIs
<1>4. cli'[o] \notin Early
  BY <1>3 DEF Early
<1>5. ASSUME ~reverted, clean[o], child'[o] = NoChild \/ mdb' = mdb PROVE Unspoilt(o)'
  <2>1. Unspoilt(o)
    BY <1>5 DEF CleanInv
  <2>2. outcome'[o].how # "failed" \/ Excused(outcome'[o])
    BY <1>2, <1>3, <2>1 DEF Unspoilt
  <2>3. child'[o].does = "run" => \E e : Goes(mdb', child'[o].todo, e)
    BY <1>1, <1>5, <2>1, NotRunning DEF Unspoilt
  <2> QED BY <1>3, <2>2, <2>3 DEF Unspoilt, Excused
<1>6. CASE UNCHANGED <<mdb, clean>>
  <2>1. Rehearsal => Rehearsal'
    BY <1>0, <1>6, SameRehearsal
  <2>2. DOMAIN clean' = Operators
    BY <1>6 DEF CleanInv
  <2> QED BY <1>0, <1>1, <1>3, <1>4, <1>5, <1>6, <2>1, <2>2, OneOperator
<1>7. CASE Wrote(o) /\ child' = [child EXCEPT ![o] = NoChild]
  <2>1. child'[o] = NoChild
    BY <1>7 DEF BaselineInv
  <2>2. DOMAIN clean' = Operators /\ \A p \in Operators : clean'[p] => p = o /\ clean[o]
    BY <1>7 DEF Wrote
  <2>3. ~reverted' => \A p \in Operators : clean'[p] => Unspoilt(p)'
    BY <1>0, <1>5, <2>1, <2>2
  <2>4. \A p \in Operators : cli'[p] \in Early => child'[p] = NoChild
    BY <1>1, <1>3, <1>4 DEF CleanInv
  <2> QED BY <1>3, <2>2, <2>3, <2>4 DEF CleanInv
<1> QED BY <1>6, <1>7, CutOffIs

LEMMA StartKeepsClean ==
    ASSUME CleanInv, BaselineInv, NEW o \in Operators, StartApply(o)
    PROVE  CleanInv'
<1> DEFINE c == Child("run", Pending, 0)
<1>0. UNCHANGED <<mdb, recorded, checkout, reverted, outcome, clean>>
  BY DEF StartApply
<1>1. DOMAIN cli' = Operators /\ cli'[o] = "applying" /\ \A p \in Operators \ {o} : cli'[p] = cli[p]
  BY MovesClean DEF StartApply
<1>2. child'[o] = c /\ \A p \in Operators \ {o} : child'[p] = child[p]
  BY DEF StartApply, BaselineInv, Child
<1>3. c.todo = Pending
  BY DEF Child
<1> HIDE DEF c
<1>4. Rehearsal => Rehearsal'
  BY <1>0, SameRehearsal
<1>5. ASSUME ~reverted', clean'[o] PROVE Unspoilt(o)'
  <2>1. Rehearsal
    BY <1>0, <1>5 DEF StartApply, CleanInv, Unspoilt
  <2>2. checkout \in Nat
    BY NumberInChain DEF BaselineInv
  <2>3. \E e : Goes(mdb, Pending, e)
    BY <2>1, <2>2, RehearsalGoes
  <2>4. \E e : Goes(mdb', child'[o].todo, e)
    BY <1>0, <1>2, <1>3, <2>3
  <2> QED BY <1>1, <2>4 DEF Unspoilt
<1>6. cli'[o] \notin Early /\ DOMAIN clean' = Operators
  BY <1>0, <1>1 DEF Early, CleanInv
<1> QED BY <1>0, <1>1, <1>2, <1>4, <1>5, <1>6, OneOperator

LEMMA OrphanKeepsClean ==
    ASSUME CleanInv, BaselineInv, NEW o \in Operators, OrphanEnds(o)
    PROVE  CleanInv'
<1>0. UNCHANGED <<mdb, recorded, checkout, reverted, outcome, clean, cli>> /\ cli[o] = "idle"
  BY DEF OrphanEnds
<1>1. child'[o] = NoChild /\ \A p \in Operators \ {o} : child'[p] = child[p]
  BY DEF OrphanEnds, BaselineInv
<1>2. Rehearsal => Rehearsal'
  BY <1>0, SameRehearsal
<1>3. ASSUME ~reverted', clean'[o] PROVE Unspoilt(o)'
  BY <1>0, <1>1, <1>3, NotRunning DEF CleanInv, Unspoilt, Excused
<1>4. DOMAIN cli' = Operators /\ DOMAIN clean' = Operators
  BY <1>0 DEF CleanInv
<1> QED BY <1>0, <1>1, <1>2, <1>3, <1>4, OneOperator

LEMMA RunRevertKeepsClean ==
    ASSUME CleanInv, BaselineInv, NEW o \in Operators, RunRevert(o)
    PROVE  CleanInv'
<1> DEFINE c == Child("revert", <<Last(recorded)>>, 0)
<1>0. UNCHANGED <<mdb, recorded, checkout, reverted, outcome, clean>>
  BY DEF RunRevert
<1>1. DOMAIN cli' = Operators /\ cli'[o] = "reverting" /\ \A p \in Operators \ {o} : cli'[p] = cli[p]
  BY MovesClean DEF RunRevert
<1>2. child'[o] = c /\ \A p \in Operators \ {o} : child'[p] = child[p]
  BY DEF RunRevert, BaselineInv, Child
<1>3. c.does # "run"
  BY DEF Child
<1> HIDE DEF c
<1>4. Rehearsal => Rehearsal'
  BY <1>0, SameRehearsal
<1>5. Unspoilt(o)'
  BY <1>1, <1>2, <1>3 DEF Unspoilt
<1>6. cli'[o] \notin Early /\ DOMAIN clean' = Operators
  BY <1>0, <1>1 DEF Early, CleanInv
<1> QED BY <1>0, <1>1, <1>2, <1>4, <1>5, <1>6, OneOperator

(* A child that fails; its run was not rehearsed on what it found.          *)
LEMMA FailsKeepsClean ==
    ASSUME CleanInv, BaselineInv, NEW o \in Operators, NEW n, Fails(o, n), checkout' = checkout,
           child[o].does = "run" => reverted \/ ~clean[o] \/ (n = 5 /\ Unfit(mdb))
    PROVE  CleanInv'
<1>0. UNCHANGED <<mdb, recorded, checkout, reverted, clean>>
  BY DEF Fails
<1>1. child'[o] = NoChild /\ \A p \in Operators \ {o} : child'[p] = child[p]
  BY DEF Fails, BaselineInv
<1>2. Rehearsal => Rehearsal'
  BY <1>0, SameRehearsal
<1>3. DOMAIN clean' = Operators
  BY <1>0 DEF CleanInv
<1>4. CASE cli[o] = "idle"
  <2>1. cli' = cli /\ outcome' = outcome
    BY <1>4 DEF Fails
  <2>2. ASSUME ~reverted', clean'[o] PROVE Unspoilt(o)'
    BY <1>0, <1>1, <1>4, <2>1, <2>2, NotRunning DEF CleanInv, Unspoilt, Excused
  <2>3. DOMAIN cli' = Operators
    BY <2>1 DEF CleanInv
  <2> QED BY <1>0, <1>1, <1>2, <1>3, <2>1, <2>2, <2>3, OneOperator
<1>5. CASE cli[o] # "idle"
  <2> DEFINE how == IF child[o].does = "run" THEN "failed" ELSE "revert failed"
             w == [how |-> how, at |-> n, unfit |-> Unfit(mdb)]
  <2>1. Exit(o, w)
    BY <1>5 DEF Fails
  <2>3. w.how = how /\ w.at = n /\ (w.unfit <=> Unfit(mdb))
    OBVIOUS
  <2> HIDE DEF w
  <2>2. /\ DOMAIN cli' = Operators /\ cli'[o] = "idle" /\ outcome'[o] = w
        /\ \A p \in Operators \ {o} : cli'[p] = cli[p] /\ outcome'[p] = outcome[p]
    BY <2>1, ExitsClean
  <2>4. ASSUME ~reverted', clean'[o] PROVE Unspoilt(o)'
    <3>1. w.how # "failed" \/ Excused(w)
      BY <1>0, <2>3, <2>4 DEF Excused
    <3>2. outcome'[o].how # "failed" \/ Excused(outcome'[o])
      BY <2>2, <3>1
    <3> QED BY <1>1, <2>2, <3>2, NotRunning DEF Unspoilt, Excused
  <2>5. cli'[o] \notin Early
    BY <2>2 DEF Early
  <2> QED BY <1>0, <1>1, <1>2, <1>3, <2>2, <2>4, <2>5, OneOperator
<1> QED BY <1>4, <1>5

LEMMA RevertKeepsClean ==
    ASSUME CleanInv, BaselineInv, NEW o \in Operators, RevertMigration(o)
    PROVE  CleanInv'
<1> DEFINE n == Head(child[o].todo)
<1>1. CASE Fails(o, n)
  <2>1. child[o].does # "run" /\ checkout' = checkout
    BY DEF RevertMigration
  <2> QED BY <1>1, <2>1, FailsKeepsClean
<1>2. CASE /\ reverted' = TRUE /\ child' = [child EXCEPT ![o] = NoChild] /\ Wrote(o)
           /\ \/ Exit(o, Ended("reverted", n))
              \/ cli' = cli
  <2>1. child'[o] = NoChild /\ \A p \in Operators \ {o} : child'[p] = child[p]
    BY <1>2 DEF BaselineInv
  <2>2. DOMAIN clean' = Operators
    BY <1>2 DEF Wrote
  <2>3. /\ DOMAIN cli' = Operators /\ (cli'[o] = "idle" \/ cli'[o] = cli[o])
        /\ \A p \in Operators \ {o} : cli'[p] = cli[p]
    BY <1>2, ExitsClean DEF CleanInv
  <2>4. \A p \in Operators : cli'[p] \in Early => child'[p] = NoChild
    BY <2>1, <2>3 DEF CleanInv
  <2> QED BY <1>2, <2>2, <2>3, <2>4 DEF CleanInv
<1> QED
  BY <1>1, <1>2 DEF RevertMigration

LEMMA WriteKeepsClean ==
    ASSUME CleanInv, BaselineInv, ApplicationWrites
    PROVE  CleanInv'
<1>1. cli' = cli /\ child' = child /\ clean' = [p \in Operators |-> FALSE]
  BY DEF ApplicationWrites
<1> QED BY <1>1 DEF CleanInv

LEMMA DeployKeepsClean ==
    ASSUME CleanInv, BaselineInv, NEW n, Deploy(n)
    PROVE  CleanInv'
<1>1. /\ UNCHANGED <<mdb, cli, child, outcome, clean, reverted>>
      /\ \A o \in Operators : cli[o] = "idle" /\ child[o] = NoChild
  BY DEF Deploy, Quiet
<1>2. ASSUME NEW o \in Operators, Unspoilt(o) PROVE Unspoilt(o)'
  BY <1>1, <1>2, NotRunning DEF Unspoilt, Excused
<1> QED BY <1>1, <1>2 DEF CleanInv

-----------------------------------------------------------------------------
(* The child of o goes on to todo, and nobody else is left with a rehearsal *)
(* of a database that was.                                                  *)
LEMMA RunKeepsClean ==
    ASSUME CleanInv, BaselineInv, NEW o \in Operators, child[o].does = "run",
           UNCHANGED <<cli, outcome, reverted>>,
           NEW todo, NEW at, child'[o] = Child("run", todo, at),
           \A p \in Operators \ {o} : child'[p] = child[p],
           \/ Wrote(o)
           \/ clean' = clean /\ mdb' = mdb /\ (~reverted /\ Rehearsal => Rehearsal'),
           ~reverted /\ clean[o] => \E e : Goes(mdb', todo, e)
    PROVE  CleanInv'
<1>1. cli[o] \notin Early /\ cli[o] # "rehearsed"
  BY NotRunning DEF CleanInv, Early
<1>2. Child("run", todo, at).does = "run" /\ Child("run", todo, at).todo = todo
  BY DEF Child
<1>3. ASSUME ~reverted, clean[o] PROVE Unspoilt(o)'
  <2>1. cli[o] = "idle" => outcome[o].how # "failed" \/ Excused(outcome[o])
    BY <1>3 DEF CleanInv, Unspoilt
  <2> QED BY <1>1, <1>2, <1>3, <2>1 DEF Unspoilt, Excused
<1>4. \A p \in Operators : cli'[p] \in Early => child'[p] = NoChild
  BY <1>1 DEF CleanInv
<1>5. CASE Wrote(o)
  <2>1. DOMAIN clean' = Operators /\ \A p \in Operators : clean'[p] => p = o /\ clean[o]
    BY <1>5 DEF Wrote
  <2>2. ~reverted' => \A p \in Operators : clean'[p] => Unspoilt(p)'
    BY <1>3, <2>1
  <2> QED BY <1>4, <2>1, <2>2 DEF CleanInv
<1>6. CASE clean' = clean /\ mdb' = mdb /\ (~reverted /\ Rehearsal => Rehearsal')
  <2>1. ASSUME ~reverted', NEW p \in Operators, clean'[p]
        PROVE  Unspoilt(p)'
    <3>1. CASE p = o
      BY <1>3, <1>6, <2>1, <3>1
    <3>2. CASE p # o
      <4>1. Unspoilt(p) /\ (Rehearsal => Rehearsal')
        BY <1>6, <2>1 DEF CleanInv
      <4> QED BY <1>6, <3>2, <4>1, OthersUnspoilt
    <3> QED BY <3>1, <3>2
  <2>2. ~reverted' => \A p \in Operators : clean'[p] => Unspoilt(p)'
    BY <2>1
  <2> QED BY <1>4, <1>6, <2>2 DEF CleanInv
<1> QED BY <1>5, <1>6

LEMMA ApplyKeepsClean ==
    ASSUME CleanInv, BaselineInv, NEW o \in Operators, ApplyMigration(o)
    PROVE  CleanInv'
<1> DEFINE todo == child[o].todo
           n == Head(todo)
           up == Chain[n].up
           at == child[o].at
<1>0. /\ child[o].does = "run" /\ todo # <<>> /\ checkout' = checkout
      /\ child[o] = Child("run", todo, at) /\ DOMAIN child = Operators
  BY DEF ApplyMigration, BaselineInv
<1>1. ASSUME ~reverted
      PROVE  /\ todo \in Seq(DOMAIN Chain) /\ n \in DOMAIN Chain /\ at \in 0 .. Len(up) /\ Len(up) \in Nat
             /\ HasCopied(mdb)
             /\ n # 1 => OnlineTables \subseteq DOMAIN mdb.tables
  <2>1. todo \in Seq(DOMAIN Chain) /\ at \in 0 .. Len(up) /\ HasCopied(mdb)
    BY <1>0, <1>1 DEF BaselineInv, Applying
  <2>2. n \in DOMAIN Chain
    BY <1>0, <2>1, HeadIsIn
  <2>3. n # 1 => OnlineTables \subseteq DOMAIN mdb.tables
    BY <1>0, <1>1 DEF BaselineInv, Applying
  <2> QED BY <2>1, <2>2, <2>3, UpLength
<1>2. ASSUME ~reverted, clean[o]
      PROVE  \E c, e : Passes(mdb, n, c) /\ Goes(c, Tail(todo), e)
  <2>1. PICK e : Goes(mdb, todo, e)
    BY <1>0, <1>2 DEF CleanInv, Unspoilt
  <2> QED BY <1>0, <1>1, <1>2, <2>1, GoesOn
<1>3. ASSUME Recorded(o, n)
      PROVE  child'[o] = Child("run", Tail(todo), 0) /\ \A p \in Operators \ {o} : child'[p] = child[p]
  BY <1>0, <1>3 DEF Recorded, Child
<1>4. CASE Transactional(n) /\ Whole(mdb, up).ok
  <2>1. mdb' = Whole(mdb, up).db /\ Recorded(o, n) /\ Wrote(o) /\ UNCHANGED <<cli, outcome, reverted>>
    BY <1>4 DEF ApplyMigration
  <2>2. ASSUME ~reverted, clean[o] PROVE \E e : Goes(mdb', Tail(todo), e)
    BY <1>2, <1>4, <2>1, <2>2 DEF Passes
  <2> QED BY <1>0, <1>3, <2>1, <2>2, RunKeepsClean
<1>5. CASE Transactional(n) /\ ~Whole(mdb, up).ok
  <2>1. Fails(o, n)
    BY <1>5 DEF ApplyMigration
  <2>2. reverted \/ ~clean[o]
    BY <1>2, <1>5 DEF Passes
  <2> QED BY <1>0, <2>1, <2>2, FailsKeepsClean
<1>6. CASE ~Transactional(n) /\ at = Len(up)
  <2>1. Recorded(o, n) /\ UNCHANGED <<mdb, cli, outcome, clean, reverted>>
    BY <1>6 DEF ApplyMigration
  <2>2. ASSUME ~reverted, clean[o] PROVE \E e : Goes(mdb', Tail(todo), e)
    BY <1>2, <1>6, <2>1, <2>2 DEF Passes
  <2>3. ASSUME ~reverted PROVE Rehearsal => Rehearsal'
    <3>1. recorded \in Seq(Nat) /\ n \in Nat
      BY <1>1, <2>3, NumberInChain DEF BaselineInv
    <3>2. recorded' = Append(recorded, n)
      BY <2>1 DEF Recorded
    <3> HIDE DEF n
    <3>3. Range(recorded') = Range(recorded) \cup {n}
      BY <3>1, <3>2, RangeAppend
    <3>4. Rehearsed' = Rehearsed
      BY <1>0, <1>6, <3>3 DEF Rehearsed
    <3> QED BY <1>0, <2>1, <3>4 DEF Rehearsal
  <2> QED BY <1>0, <1>3, <2>1, <2>2, <2>3, RunKeepsClean
<1>7. CASE ~Transactional(n) /\ at # Len(up) /\ Executes(mdb, up[at + 1])
  <2>1. /\ mdb' = Effect(mdb, up[at + 1]) /\ child' = [child EXCEPT ![o].at = @ + 1]
        /\ Wrote(o) /\ UNCHANGED <<cli, outcome, reverted>>
    BY <1>7 DEF ApplyMigration
  <2>2. child'[o] = Child("run", todo, at + 1) /\ \A p \in Operators \ {o} : child'[p] = child[p]
    BY <1>0, <2>1 DEF Child
  <2>3. ASSUME ~reverted, clean[o] PROVE \E e : Goes(mdb', todo, e)
    <3>1. at + 1 \in 1 .. Len(up)
      BY <1>1, <1>7, <2>3, NextStatement
    <3>2. Ahead(mdb, mdb')
      BY <1>1, <1>7, <2>1, <2>3, <3>1, OnlineIsAhead
    <3>3. PICK e : Goes(mdb, todo, e)
      BY <1>0, <2>3 DEF CleanInv, Unspoilt
    <3> QED BY <1>1, <2>3, <3>2, <3>3, AheadGoes
  <2> HIDE DEF todo, up, at
  <2>4. clean[o] /\ ~reverted => \E e : Goes(mdb', todo, e)
    BY <2>3
  <2> DEFINE later == at + 1
  <2>5. child'[o] = Child("run", todo, later)
    BY <2>2
  <2> HIDE DEF later
  <2> QED BY <1>0, <2>1, <2>2, <2>4, <2>5, RunKeepsClean
<1>8. CASE ~Transactional(n) /\ at # Len(up) /\ ~Executes(mdb, up[at + 1])
  <2>1. Fails(o, n)
    BY <1>8 DEF ApplyMigration
  <2>2. reverted \/ (n = 5 /\ Unfit(mdb))
    <3> SUFFICES ASSUME ~reverted, ~(n = 5 /\ Unfit(mdb)) PROVE FALSE
      OBVIOUS
    <3>1. at + 1 \in 1 .. Len(up)
      BY <1>1, <1>8, NextStatement
    <3>2. n # 1
      BY <1>8, BaselineTransaction
    <3> QED BY <1>1, <1>8, <3>1, <3>2, OnlineRepeats
  <2> QED BY <1>0, <2>1, <2>2, FailsKeepsClean
<1> QED BY <1>4, <1>5, <1>6, <1>7, <1>8

LEMMA CleanKept == CliSpec => []CleanInv
<1>1. CliInit => CleanInv
  <2> SUFFICES ASSUME CliInit PROVE CleanInv
    OBVIOUS
  <2>1. /\ cli = [o \in Operators |-> "idle"] /\ clean = [o \in Operators |-> FALSE]
    BY DEF CliInit
  <2>2. "idle" \notin Early
    BY DEF Early
  <2> QED BY <2>1, <2>2 DEF CleanInv
<1>2. ASSUME CleanInv, BaselineInv, [CliNext]_cliVars
      PROVE  CleanInv'
  <2>1. CASE UNCHANGED cliVars
    <3>1. /\ UNCHANGED <<mdb, recorded, checkout, cli, child, outcome, clean, reverted>>
      BY <2>1 DEF cliVars
    <3>2. Rehearsal => Rehearsal'
      BY <3>1, SameRehearsal
    <3>3. ASSUME NEW p \in Operators, Unspoilt(p) PROVE Unspoilt(p)'
      BY <3>1, <3>2, <3>3, OthersUnspoilt
    <3> QED BY <1>2, <3>1, <3>3 DEF CleanInv
  <2> QED
    BY <1>2, <2>1, CommandKeepsClean, StartKeepsClean, ApplyKeepsClean, OrphanKeepsClean,
       RunRevertKeepsClean, RevertKeepsClean, WriteKeepsClean, DeployKeepsClean, CutOffKeepsClean DEF CliNext
<1> QED
  BY <1>1, <1>2, BaselineKept, PTL DEF CliSpec

(* A run whose rehearsal succeeded fails only when someone else wrote to    *)
(* the database after it, or at the backfill, which the rehearsal leaves    *)
(* out, for an id that only looks like a UUID; what else it leaves out, the *)
(* indexes made between the rehearsed migrations, fails none: for every     *)
(* database to begin with, every number of operators, commands and crashes. *)
(* What the server cuts off, for the statement_timeout or the extension,    *)
(* counts as no failure here.                                               *)
THEOREM RehearsedRunsApply == CliSpec => []RehearsedApplies
<1>1. CleanInv => RehearsedApplies
  BY DEF CleanInv, Unspoilt, RehearsedApplies, Excused
<1> QED
  BY <1>1, CleanKept, PTL
=============================================================================
