--------------------------- MODULE MigrationProofs ---------------------------
(***************************************************************************)
(* Proofs about MigrationStatus, Migration and SchemaDiff: for any         *)
(* migration files, texts, step lists, versions, desired lists, schemas    *)
(* and declarations of them, and any bounds.                               *)
(***************************************************************************)
EXTENDS Migration, MigrationStatus, SchemaDiff, FiniteSetTheorems, WellFoundedInduction, TLAPS

(***************************************************************************)
(* The migration status.                                                   *)
(***************************************************************************)
Phased(s, p) ==
  s = [phase |-> p, desired |-> s.desired, column |-> s.column, report |-> s.report, exit |-> s.exit]

\* While the read is open, a table that is as desired now was seen to be.
StatusInv ==
  /\ Phased(status, status.phase)
  /\ status.phase \in {"exists", "rows"} /\ Ready(ledger, status.desired, status.column) => wasReady
  /\ status.phase \in {"idle", "exists", "rows", "done"}
  /\ ReadyWasTrue

\* A report that runMigrateStatus turns into exit code 0 was made of a table
\* that is as desired.
LEMMA ZeroMeansReady ==
  ASSUME NEW desired, NEW column, NEW t, t.exists, ExitOf(Report(desired, column, t)) = 0
  PROVE  Ready(t, desired, column)
<1> DEFINE r == Report(desired, column, t)
<1>1. ~r.dirty /\ ~r.unknown /\ r.pending = {}
  BY DEF ExitOf
<1>2. column => t.dirty = {}
  BY <1>1 DEF Report
<1>3. desired \subseteq Rows(t)
  BY <1>1 DEF Report, pendingMigrationVersions
<1>4. desired # {} => Rows(t) \subseteq desired
  BY <1>1 DEF Report, migrationStatusWarnings
<1> QED BY <1>2, <1>3, <1>4 DEF Ready

\* Exit code 0 of `migrate status` tells of a moment of the read: its two queries
\* may see two tables, and still the answer was true of one of them.
THEOREM ReadyWasTrueHolds == StatusSpec => []ReadyWasTrue
<1>1. StatusInit => StatusInv
  BY DEF StatusInit, StatusInv, Phased, Open, ReadyWasTrue
<1>2. StatusInv /\ [StatusNext]_statusVars => StatusInv'
  <2> SUFFICES ASSUME StatusInv, [StatusNext]_statusVars PROVE StatusInv'
    OBVIOUS
  <2> USE DEF StatusInv, Phased, ReadyWasTrue
  <2>1. ASSUME NEW list \in DesiredLists, NEW column \in BOOLEAN, ReadStatus(list, column)
        PROVE  StatusInv'
    <3>1. /\ status'.phase = "exists" /\ status'.desired = normalizeDesiredVersions(list)
          /\ status'.column = column /\ Phased(status', "exists")
      BY <2>1 DEF ReadStatus, Open
    <3> QED BY <2>1, <3>1 DEF ReadStatus
  <2>2. ASSUME NEW report, NEW code, Answered(report, code), UNCHANGED wasReady,
               code = 0 => wasReady
        PROVE  StatusInv'
    <3>1. status'.phase = "done" /\ status'.exit = code /\ Phased(status', "done")
      BY <2>2 DEF Answered
    <3> QED BY <2>2, <3>1
  <2>3. CASE migrationStatusTableExists
    <3>1. CASE ledger.exists
      <4>1. /\ status'.phase = "rows" /\ status'.desired = status.desired
            /\ status'.column = status.column /\ Phased(status', "rows")
            /\ UNCHANGED <<ledger, wasReady>> /\ status.phase = "exists"
        BY <2>3, <3>1 DEF migrationStatusTableExists
      <4> QED BY <4>1
    <3> QED BY <2>2, <2>3, <3>1 DEF migrationStatusTableExists
  <2>4. CASE readAppliedMigrations
    <3>1. CASE ledger.exists
      <4>1. ExitOf(Report(status.desired, status.column, ledger)) = 0 => wasReady
        BY <2>4, <3>1, ZeroMeansReady DEF readAppliedMigrations
      <4> QED BY <2>2, <2>4, <3>1, <4>1 DEF readAppliedMigrations
    <3> QED BY <2>2, <2>4, <3>1 DEF readAppliedMigrations
  <2>5. CASE StatusFails
    BY <2>2, <2>5 DEF StatusFails
  <2>6. ASSUME NEW t, Moves(t) PROVE StatusInv'
    BY <2>6 DEF Moves
  <2>7. CASE UNCHANGED statusVars
    BY <2>7 DEF statusVars
  <2> QED BY <2>1, <2>3, <2>4, <2>5, <2>6, <2>7
          DEF StatusNext, CreateLedger, DropLedger, MarkDirty, MarkClean, Undo
<1>3. StatusInv => ReadyWasTrue
  BY DEF StatusInv
<1> QED BY <1>1, <1>2, <1>3, PTL DEF StatusSpec

(***************************************************************************)
(* Levels of risk and plans.                                               *)
(***************************************************************************)
Levels == {"low", "medium", "high", "destructive", "blocked"}

\* The ranks, one by one.
LEMMA Ranks ==
  /\ riskRank["low"] = 0 /\ riskRank["medium"] = 1 /\ riskRank["high"] = 2
  /\ riskRank["destructive"] = 3 /\ riskRank["blocked"] = 4
  BY DEF riskRank

\* aggregateWarnings is the highest of the levels.
LEMMA Aggregate ==
  ASSUME NEW levels \in SUBSET Levels, "low" \in levels
  PROVE  /\ aggregateWarnings(levels) \in levels
         /\ \A k \in levels : compareRisk(aggregateWarnings(levels), k)
<1>1. \E l \in levels : \A k \in levels : compareRisk(l, k)
  <2>1. \A k \in levels : k \in {"low", "medium", "high", "destructive", "blocked"}
    BY DEF Levels
  <2>2. CASE "blocked" \in levels
    BY <2>1, <2>2, Ranks DEF compareRisk
  <2>3. CASE "blocked" \notin levels /\ "destructive" \in levels
    BY <2>1, <2>3, Ranks DEF compareRisk
  <2>4. CASE {"blocked", "destructive"} \cap levels = {} /\ "high" \in levels
    BY <2>1, <2>4, Ranks DEF compareRisk
  <2>5. CASE {"blocked", "destructive", "high"} \cap levels = {} /\ "medium" \in levels
    BY <2>1, <2>5, Ranks DEF compareRisk
  <2>6. CASE {"blocked", "destructive", "high", "medium"} \cap levels = {}
    BY <2>1, <2>6, Ranks DEF compareRisk
  <2> QED BY <2>2, <2>3, <2>4, <2>5, <2>6
<1> QED BY <1>1 DEF aggregateWarnings

\* Every step has one of the levels.
LEMMA StepLevel ==
  ASSUME NEW s
  PROVE  classifyStep(s) \in Levels
<1>1. \A from, to : classifyTypeChange(from, to) \in Levels
  BY DEF classifyTypeChange, Levels
<1> QED BY <1>1 DEF classifyStep, Levels

\* What every plan keeps, whatever review modes and approvals it is given: its
\* level is the highest of levels that cover all its steps, and its verdicts
\* follow from it.
PlanOK(p) ==
  /\ p = [steps |-> p.steps, levels |-> p.levels, level |-> p.level, required |-> p.required,
          incomplete |-> p.incomplete, blocked |-> p.blocked, approval |-> p.approval]
  /\ p.levels \in SUBSET Levels /\ "low" \in p.levels
  /\ \A s \in Range(p.steps) : classifyStep(s) \in p.levels
  /\ p.level = aggregateWarnings(p.levels)
  /\ p.required = requiresApproval(p.level)
  /\ p.level = "blocked" => p.blocked

\* finalizePlan makes such a plan of any steps.
LEMMA FinalizeOK ==
  ASSUME NEW steps
  PROVE  PlanOK(finalizePlan(steps)) /\ finalizePlan(steps).steps = steps
<1> DEFINE levels == {"low"} \cup {classifyStep(s) : s \in Range(steps)}
<1>1. levels \in SUBSET Levels
  BY StepLevel DEF Levels
<1> QED BY <1>1 DEF PlanOK, finalizePlan

\* The backfill review recomputes the verdicts and forgets none of the levels.
LEMMA ReviewOK ==
  ASSUME NEW p, PlanOK(p), NEW mode
  PROVE  /\ PlanOK(ApplyReviewMode(p, mode)) /\ ApplyReviewMode(p, mode).steps = p.steps
         /\ ApplyReviewMode(p, mode).incomplete = p.incomplete
<1> DEFINE q == applyBackfillReviewMode(p)
<1>1. backfillLevels(p) \in SUBSET Levels /\ p.levels \subseteq backfillLevels(p)
  <2>1. \A s : backfillReviewForStep(s) \in SUBSET Levels
    BY DEF backfillReviewForStep, Levels
  <2> QED BY <2>1 DEF backfillLevels, PlanOK
<1> DEFINE levels == backfillLevels(p)
           level == aggregateWarnings(levels)
           blocked == level = "blocked"
           required == requiresApproval(level)
<1>2. q = [steps |-> p.steps, levels |-> levels, level |-> level, required |-> required,
           incomplete |-> p.incomplete, blocked |-> blocked, approval |-> p.approval]
  <2>1. q = [p EXCEPT !.levels = levels, !.level = level, !.blocked = blocked, !.required = required]
    BY DEF applyBackfillReviewMode
  <2> HIDE DEF levels, level, blocked, required, q
  <2> QED BY <2>1 DEF PlanOK
<1>3. PlanOK(q) /\ q.steps = p.steps /\ q.incomplete = p.incomplete
  <2>1. /\ q.steps = p.steps /\ q.levels = levels /\ q.level = level /\ q.required = required
        /\ q.incomplete = p.incomplete /\ q.blocked = blocked /\ q.approval = p.approval
    <3> HIDE DEF levels, level, blocked, required, q
    <3> QED BY <1>2
  <2>2. /\ levels \in SUBSET Levels /\ "low" \in levels
        /\ \A s \in Range(p.steps) : classifyStep(s) \in levels
    BY <1>1 DEF PlanOK
  <2> HIDE DEF levels, q
  <2> QED BY <1>2, <2>1, <2>2 DEF PlanOK
<1> QED BY <1>3 DEF ApplyReviewMode

\* Approving a plan changes nothing else of it.
LEMMA ApprovalOK ==
  ASSUME NEW p, PlanOK(p), NEW approval
  PROVE  /\ PlanOK([p EXCEPT !.approval = approval])
         /\ [p EXCEPT !.approval = approval].steps = p.steps
         /\ [p EXCEPT !.approval = approval].approval = approval
<1>1. [p EXCEPT !.approval = approval] =
        [steps |-> p.steps, levels |-> p.levels, level |-> p.level, required |-> p.required,
         incomplete |-> p.incomplete, blocked |-> p.blocked, approval |-> approval]
  BY DEF PlanOK
<1> QED BY <1>1 DEF PlanOK

\* EnsureExecutable looks at the levels of all steps through the plan's level.
LEMMA ExecutableFacts ==
  ASSUME NEW p, PlanOK(p), NEW now, EnsureExecutable(p, now), NEW s \in Range(p.steps)
  PROVE  /\ ~structuralOnly(s.type) /\ classifyStep(s) # "blocked"
         /\ compareRisk(classifyStep(s), "high") =>
              p.approval.reason /\ (p.approval.expires = 0 \/ p.approval.expires > now)
<1>1. ~structuralOnly(s.type) /\ ~p.blocked /\ p.level # "blocked"
  BY DEF EnsureExecutable, RefusedByStep, PlanOK
<1>2. /\ classifyStep(s) \in Levels /\ p.level \in Levels
      /\ compareRisk(p.level, classifyStep(s))
  BY Aggregate DEF PlanOK
<1>3. classifyStep(s) # "blocked"
  BY <1>1, <1>2, Ranks DEF compareRisk, Levels
<1>4. compareRisk(classifyStep(s), "high") => requiresApproval(p.level)
  BY <1>1, <1>2, Ranks DEF compareRisk, requiresApproval, Levels
<1> QED BY <1>1, <1>3, <1>4 DEF EnsureExecutable, PlanOK

(***************************************************************************)
(* A caller and the plan it holds.                                         *)
(***************************************************************************)
HolderInv ==
  /\ clock \in Nat
  /\ mine = [plan |-> mine.plan, reviews |-> mine.reviews, held |-> mine.held]
  /\ PlanOK(mine.plan)
  /\ ExecutableIsSafe

\* The steps of a command, of the files and of the text touch neither the plan
\* nor the verdict.
LEMMA HolderFrame ==
  Splitting \/ Commanding \/ UNCHANGED migrationVars => UNCHANGED <<mine, verdict, clock>>
<1>1. Splitting => UNCHANGED <<mine, verdict, clock>>
  BY DEF Splitting, Type
<1>2. Commanding => UNCHANGED <<mine, verdict, clock>>
  <2>1. \A mode, reason, review, failOn, opens :
          Invoke(mode, reason, review, failOn, opens) => UNCHANGED <<mine, verdict, clock>>
    BY DEF Invoke
  <2>2. Apply \/ ExecStatement \/ ExecFails \/ Applied \/ Kill \/ EditFile
          => UNCHANGED <<mine, verdict, clock>>
    BY DEF Apply, ExecStatement, ExecFails, Applied, Kill, EditFile
  <2> QED BY <2>1, <2>2 DEF Commanding
<1>3. UNCHANGED migrationVars => UNCHANGED <<mine, verdict, clock>>
  BY DEF migrationVars
<1> QED BY <1>1, <1>2, <1>3

\* Holding, reviewing and approving keep a plan, and the verdict is of one.
LEMMA HolderStep ==
  ASSUME HolderInv, Holding
  PROVE  HolderInv'
<1> USE DEF HolderInv
<1>1. ASSUME NEW plan, HoldPlan(plan), PlanOK(plan) PROVE HolderInv'
  BY <1>1 DEF HoldPlan, ExecutableIsSafe
<1>2. CASE ReviewPlan
  <2> DEFINE q == ApplyReviewMode(mine.plan, "backfill")
  <2>1. mine' = [mine EXCEPT !.plan = q, !.reviews = @ + 1] /\ UNCHANGED <<verdict, clock>>
    BY <1>2 DEF ReviewPlan
  <2>2. PlanOK(q)
    BY ReviewOK
  <2> HIDE DEF q
  <2>3. mine' = [plan |-> q, reviews |-> mine.reviews + 1, held |-> mine.held]
    BY <2>1
  <2> QED BY <2>1, <2>2, <2>3 DEF ExecutableIsSafe
<1>3. ASSUME NEW reason, NEW expires, ApprovePlan(reason, expires) PROVE HolderInv'
  <2> DEFINE approval == [given |-> TRUE, reason |-> reason, expires |-> expires]
             q == [mine.plan EXCEPT !.approval = approval]
  <2>1. mine' = [mine EXCEPT !.plan = q] /\ UNCHANGED <<verdict, clock>>
    BY <1>3 DEF ApprovePlan
  <2>2. PlanOK(q)
    BY ApprovalOK
  <2> HIDE DEF q
  <2>3. mine' = [plan |-> q, reviews |-> mine.reviews, held |-> mine.held]
    BY <2>1
  <2> QED BY <2>1, <2>2, <2>3 DEF ExecutableIsSafe
<1>4. CASE CheckPlan
  <2> DEFINE ok == EnsureExecutable(mine.plan, clock)
             now == [ok |-> ok, plan |-> mine.plan, at |-> clock]
  <2>1. verdict' = {now} /\ UNCHANGED <<mine, clock>>
    BY <1>4 DEF CheckPlan
  <2>2. ok => \A s \in Range(mine.plan.steps) :
                /\ ~structuralOnly(s.type) /\ classifyStep(s) # "blocked"
                /\ compareRisk(classifyStep(s), "high") =>
                     mine.plan.approval.reason
                     /\ (mine.plan.approval.expires = 0 \/ mine.plan.approval.expires > clock)
    BY ExecutableFacts
  <2>3. (mine.plan.approval.expires = 0 \/ mine.plan.approval.expires > clock)
          => mine.plan.approval.expires \notin 1..clock
    BY clock \in Nat
  <2>4. now.ok = ok /\ now.plan = mine.plan /\ now.at = clock
    <3> HIDE DEF ok
    <3> QED OBVIOUS
  <2> HIDE DEF ok, now
  <2>5. ExecutableIsSafe'
    BY <2>1, <2>2, <2>3, <2>4 DEF ExecutableIsSafe
  <2> QED BY <2>1, <2>5
<1>5. CASE MigrationTick
  BY <1>5 DEF MigrationTick, ExecutableIsSafe
<1> QED BY <1>1, <1>2, <1>3, <1>4, <1>5, FinalizeOK DEF Holding, PlanSQL, PlanSteps

\* EnsureExecutable calls no plan executable that has a step which only a
\* comparison of schemas can produce or which is unclassified, or a step of high
\* risk or more without a reason in force -- in whatever order the holder
\* reviewed and approved it.
THEOREM ExecutableIsSafeHolds == MigrationSpec => []ExecutableIsSafe
<1>1. MigrationInit => HolderInv
  BY FinalizeOK DEF MigrationInit, HolderInv, NothingHeld, ExecutableIsSafe
<1>2. HolderInv /\ [Splitting \/ Commanding \/ Holding]_migrationVars => HolderInv'
  BY HolderStep, HolderFrame DEF HolderInv, ExecutableIsSafe
<1>3. HolderInv => ExecutableIsSafe
  BY DEF HolderInv
<1> QED BY <1>1, <1>2, <1>3, PTL DEF MigrationSpec

(***************************************************************************)
(* A command and the statements it executes.                               *)
(***************************************************************************)
Commands(c) ==
  c = [phase |-> c.phase, mode |-> c.mode, reason |-> c.reason, review |-> c.review,
       failOn |-> c.failOn, sql |-> c.sql, plan |-> c.plan, left |-> c.left, exit |-> c.exit]

\* What has been executed and what is left make up what was read.
Splits(done, left, sql) ==
  /\ Len(sql) = Len(done) + Len(left)
  /\ \A i \in 1..Len(done) : done[i] = sql[i]
  /\ \A i \in 1..Len(left) : left[i] = sql[Len(done) + i]

\* What EnsureExecutable has found of the statements of a command that executes.
Approved(c) ==
  \A s \in Range(c.sql) :
    Single(s) => ~Opaque(s) /\ (Dangerous(s) => c.reason)

CommandInv ==
  /\ Commands(command)
  /\ {file, command.sql, command.left, executed} \subseteq Seq(Statements)
  /\ command.reason \in BOOLEAN
  /\ command.phase \in {"idle", "opened"} => executed = <<>>
  /\ command.phase \in {"opened", "executing"} => command.mode = "apply"
  /\ command.phase = "executing" =>
       Splits(executed, command.left, command.sql) /\ Approved(command)
  /\ executed # <<>> => Approved(command)
  /\ RunsPlannedPrefix

\* The one change of a statement is the first clause that parseAlter reads.
LEMMA OneClause ==
  ASSUME NEW s \in Statements, Single(s), NEW c \in Range(s.clauses)
  PROVE  /\ c = s.clauses[1] /\ c \in Clauses
         /\ \A d \in Range(s.clauses) : d = c
  BY DEF Single, Range, Statements

\* A step that only its type tells apart.
LEMMA PlainLevel ==
  ASSUME NEW type
  PROVE  /\ Plain(type).type = type /\ ~Plain(type).unknown
         /\ type \in {"DropTable", "DropColumn"} => classifyStep(Plain(type)) = "destructive"
         /\ type = "RenameColumn" => classifyStep(Plain(type)) = "high"
         /\ type = "Unsupported" => classifyStep(Plain(type)) = "blocked"
<1>1. Plain(type).type = type /\ ~Plain(type).unknown
  BY DEF Plain
<1> QED BY <1>1 DEF classifyStep, structuralOnly

\* The parsed step keeps the danger of a statement with one change.
LEMMA DangerousIsHigh ==
  ASSUME NEW s \in Statements, Single(s), Dangerous(s)
  PROVE  compareRisk(classifyStep(parseMigrationStatement(s)), "high")
<1> DEFINE step == parseMigrationStatement(s)
<1>1. CASE s.form = "dropTable"
  <2>1. step = Plain("DropTable")
    BY <1>1 DEF parseMigrationStatement
  <2>2. classifyStep(step) = "destructive"
    BY <2>1, PlainLevel
  <2> QED BY <2>2, Ranks DEF compareRisk
<1>2. ASSUME s.form = "alter", NEW c \in Range(s.clauses),
             c.verb \in {"drop", "rename", "change", "type", "modify", "setNotNull"}
      PROVE  compareRisk(classifyStep(step), "high")
  <2>1. step = parseAlter(s.clauses) /\ s.clauses[1].verb = c.verb
    BY <1>2, OneClause DEF parseMigrationStatement
  <2>2. CASE c.verb = "drop"
    <3>1. classifyStep(step) = "destructive"
      BY <2>1, <2>2, PlainLevel DEF parseAlter
    <3> QED BY <3>1, Ranks DEF compareRisk
  <2>3. CASE c.verb \in {"rename", "change"}
    <3>1. classifyStep(step) = "high"
      BY <2>1, <2>3, PlainLevel DEF parseAlter
    <3> QED BY <3>1, Ranks DEF compareRisk
  <2>4. CASE c.verb \in {"type", "modify"}
    <3>1. classifyStep(step) = "high"
      BY <2>1, <2>4 DEF parseAlter, Plain, classifyStep, structuralOnly, classifyTypeChange
    <3> QED BY <3>1, Ranks DEF compareRisk
  <2>5. CASE c.verb = "setNotNull"
    <3>1. classifyStep(step) = "high"
      BY <2>1, <2>5 DEF parseAlter, Plain, classifyStep, structuralOnly
    <3> QED BY <3>1, Ranks DEF compareRisk
  <2> QED BY <1>2, <2>2, <2>3, <2>4, <2>5
<1>3. ASSUME s.form = "alter", NEW c \in Range(s.clauses),
             c.verb = "add", c.notNull, ~c.default
      PROVE  compareRisk(classifyStep(step), "high")
  <2>1. step = parseAlter(s.clauses) /\ s.clauses[1].verb = "add"
    BY <1>3, OneClause DEF parseMigrationStatement
  <2>2. ~nullableIn(s.clauses) /\ ~(\E d \in Range(s.clauses) : d.default)
    BY <1>3, OneClause DEF nullableIn
  <2>3. step.type = "AddColumn" /\ ~step.unknown /\ ~step.nullable /\ ~step.default
    BY <2>1, <2>2 DEF parseAlter, Plain
  <2>4. classifyStep(step) = "high"
    BY <2>3 DEF classifyStep, structuralOnly
  <2> QED BY <2>4, Ranks DEF compareRisk
<1> QED BY <1>1, <1>2, <1>3 DEF Dangerous

\* A statement that no pattern matches becomes a step that blocks.
LEMMA OpaqueIsBlocked ==
  ASSUME NEW s \in Statements, Single(s), Opaque(s)
  PROVE  classifyStep(parseMigrationStatement(s)) = "blocked"
<1>1. parseMigrationStatement(s) = Plain("Unsupported")
  <2>1. CASE s.form = "other"
    BY <2>1 DEF parseMigrationStatement
  <2>2. ASSUME s.form = "alter", NEW c \in Range(s.clauses), c.verb = "other"
        PROVE  parseMigrationStatement(s) = Plain("Unsupported")
    <3>1. s.clauses[1].verb = "other"
      BY <2>2, OneClause
    <3> QED BY <2>2, <3>1 DEF parseMigrationStatement, parseAlter
  <2> QED BY <2>1, <2>2 DEF Opaque
<1> QED BY <1>1, PlainLevel

\* A plan that Migrator.Plan makes and EnsureExecutable lets through is of
\* statements that may run.
LEMMA ExecutableIsApproved ==
  ASSUME NEW c, c.sql \in Seq(Statements), c.reason \in BOOLEAN, NEW now,
         EnsureExecutable(MigratorPlan(c), now)
  PROVE  Approved(c)
<1> DEFINE steps == [i \in DOMAIN c.sql |-> parseMigrationStatement(c.sql[i])]
           reviewed == ApplyReviewMode(PlanSQL(c.sql), c.review)
           approval == IF c.reason THEN [given |-> TRUE, reason |-> TRUE, expires |-> 0] ELSE NoApproval
<1>1. PlanOK(reviewed) /\ reviewed.steps = steps
  BY FinalizeOK, ReviewOK DEF PlanSQL
<1>2. /\ PlanOK(MigratorPlan(c)) /\ MigratorPlan(c).steps = steps
      /\ MigratorPlan(c).approval = approval
  <2>1. MigratorPlan(c) = [reviewed EXCEPT !.approval = approval]
    BY DEF MigratorPlan
  <2> HIDE DEF reviewed, approval, steps
  <2>2. /\ PlanOK([reviewed EXCEPT !.approval = approval])
        /\ [reviewed EXCEPT !.approval = approval].steps = reviewed.steps
        /\ [reviewed EXCEPT !.approval = approval].approval = approval
    BY <1>1, ApprovalOK
  <2> QED BY <1>1, <2>1, <2>2
<1>3. approval.reason = c.reason
  BY DEF NoApproval
<1>4. ASSUME NEW s \in Range(c.sql), Single(s) PROVE ~Opaque(s) /\ (Dangerous(s) => c.reason)
  <2>1. s \in Statements /\ parseMigrationStatement(s) \in Range(steps)
    BY DEF Range
  <2>2. /\ classifyStep(parseMigrationStatement(s)) # "blocked"
        /\ compareRisk(classifyStep(parseMigrationStatement(s)), "high") => c.reason
    <3> HIDE DEF steps, approval
    <3> QED BY <1>2, <1>3, <2>1, ExecutableFacts
  <2> QED BY <1>4, <2>1, <2>2, OpaqueIsBlocked, DangerousIsHigh
<1> QED BY <1>4 DEF Approved

\* A split into what is done and what is left, and one statement more done.
LEMMA SplitFacts ==
  ASSUME NEW done \in Seq(Statements), NEW left \in Seq(Statements), NEW sql \in Seq(Statements),
         Splits(done, left, sql)
  PROVE  /\ IsPrefix(done, sql)
         /\ left = <<>> => done = sql
         /\ left # <<>> =>
              /\ Append(done, Head(left)) \in Seq(Statements) /\ Tail(left) \in Seq(Statements)
              /\ Splits(Append(done, Head(left)), Tail(left), sql)
<1>1. IsPrefix(done, sql)
  BY DEF IsPrefix, Splits
<1>2. ASSUME left = <<>> PROVE done = sql
  BY <1>2 DEF Splits
<1>3. ASSUME left # <<>>
      PROVE  /\ Append(done, Head(left)) \in Seq(Statements) /\ Tail(left) \in Seq(Statements)
             /\ Splits(Append(done, Head(left)), Tail(left), sql)
  <2> DEFINE d == Append(done, Head(left))
             l == Tail(left)
  <2>1. /\ d \in Seq(Statements) /\ l \in Seq(Statements)
        /\ Len(d) = Len(done) + 1 /\ Len(l) = Len(left) - 1
    BY <1>3
  <2>2. Len(sql) = Len(d) + Len(l)
    BY <2>1 DEF Splits
  <2>3. ASSUME NEW i \in 1..Len(d) PROVE d[i] = sql[i]
    BY <1>3, <2>1 DEF Splits
  <2>4. ASSUME NEW i \in 1..Len(l) PROVE l[i] = sql[Len(d) + i]
    <3>1. l[i] = left[i + 1] /\ i + 1 \in 1..Len(left)
      BY <1>3, <2>1
    <3> QED BY <2>1, <3>1 DEF Splits
  <2> QED BY <2>1, <2>2, <2>3, <2>4 DEF Splits
<1> QED BY <1>1, <1>2, <1>3

\* Nothing is a prefix of everything.
LEMMA EmptySplits ==
  ASSUME NEW sql \in Seq(Statements)
  PROVE  /\ Splits(<<>>, sql, sql) /\ IsPrefix(<<>>, sql)
         /\ <<>> \in Seq(Statements)
<1>1. <<>> \in Seq(Statements)
  OBVIOUS
<1>2. Splits(<<>>, sql, sql)
  BY <1>1 DEF Splits
<1> QED BY <1>1, <1>2, SplitFacts

\* The steps that leave the command, its files and what it executed.
LEMMA CommandFrame ==
  ASSUME CommandInv, UNCHANGED <<file, command, executed>>
  PROVE  CommandInv'
BY DEF CommandInv, Commands, Splits, Approved, RunsPlannedPrefix

\* A command that ends before it executed anything keeps its promises.
LEMMA EndsEarly ==
  ASSUME CommandInv, executed = <<>>, UNCHANGED <<file, executed>>,
         NEW c, Commands(c), {c.sql, c.left} \subseteq Seq(Statements), c.reason \in BOOLEAN,
         NEW code, command' = [c EXCEPT !.phase = "exited", !.exit = code], code # 0 \/ c.mode # "apply"
  PROVE  CommandInv'
<1>1. command' = [phase |-> "exited", mode |-> c.mode, reason |-> c.reason, review |-> c.review,
                  failOn |-> c.failOn, sql |-> c.sql, plan |-> c.plan, left |-> c.left, exit |-> code]
  BY DEF Commands
<1>2. /\ Commands(command') /\ command'.phase = "exited" /\ command'.mode = c.mode
      /\ command'.sql = c.sql /\ command'.left = c.left /\ command'.reason = c.reason
      /\ command'.exit = code
  BY <1>1 DEF Commands
<1>3. RunsPlannedPrefix'
  BY <1>2, EmptySplits DEF RunsPlannedPrefix
<1> QED BY <1>2, <1>3 DEF CommandInv

\* The command before any.
LEMMA IdleFields ==
  Commands(Idle) /\ Idle.phase = "idle" /\ Idle.left = <<>> /\ Idle.sql = <<>> /\ Idle.mode = ""
    /\ Idle.reason = FALSE
<1> DEFINE no == FALSE
           plan == finalizePlan(<<>>)
<1>1. Idle = [phase |-> "idle", mode |-> "", reason |-> no, review |-> "", failOn |-> no,
              sql |-> <<>>, plan |-> plan, left |-> <<>>, exit |-> 0]
  BY DEF Idle
<1>2. Idle.reason = no
  BY DEF Idle
<1> HIDE DEF no, plan
<1>3. Commands(Idle) /\ Idle.phase = "idle" /\ Idle.left = <<>> /\ Idle.sql = <<>> /\ Idle.mode = ""
  BY <1>1 DEF Commands
<1> QED BY <1>2, <1>3 DEF no

\* Invoke reads the files, and opens the database only for an apply.
LEMMA InvokeStep ==
  ASSUME CommandInv, NEW mode, NEW reason \in BOOLEAN, NEW review, NEW failOn, NEW opens,
         Invoke(mode, reason, review, failOn, opens), mode \in {"plan", "dry-run", "apply"}
  PROVE  CommandInv'
<1> DEFINE read == [Idle EXCEPT !.mode = mode, !.reason = reason, !.review = review,
                                !.failOn = failOn, !.sql = file]
           c == [read EXCEPT !.plan = MigratorPlan(read)]
<1>1. read = [phase |-> "idle", mode |-> mode, reason |-> reason, review |-> review,
              failOn |-> failOn, sql |-> file, plan |-> Idle.plan, left |-> <<>>, exit |-> Idle.exit]
  <2>1. read = [Idle EXCEPT !.mode = mode, !.reason = reason, !.review = review,
                            !.failOn = failOn, !.sql = file]
    OBVIOUS
  <2> HIDE DEF read
  <2> QED BY <2>1, IdleFields DEF Commands
<1>2. c = [phase |-> "idle", mode |-> mode, reason |-> reason, review |-> review, failOn |-> failOn,
           sql |-> file, plan |-> MigratorPlan(read), left |-> <<>>, exit |-> Idle.exit]
  <2> DEFINE plan == MigratorPlan(read)
  <2>1. c = [read EXCEPT !.plan = plan]
    OBVIOUS
  <2> HIDE DEF plan, c
  <2>2. c = [phase |-> "idle", mode |-> mode, reason |-> reason, review |-> review,
             failOn |-> failOn, sql |-> file, plan |-> plan, left |-> <<>>, exit |-> Idle.exit]
    BY <1>1, <2>1, ZenonT(60)
  <2> QED BY <2>2 DEF plan
<1>3. /\ command.phase = "idle" /\ UNCHANGED <<file, executed>>
      /\ \/ Exits(read, 2)
         \/ Exits(c, 1)
         \/ mode # "apply" /\ Exits(c, Threshold(c))
         \/ mode = "apply" /\ (command' = [c EXCEPT !.phase = "opened"] \/ Exits(c, 2))
  <2> DEFINE unknown == Exits(read, 2)
             refused == Exits(c, 1)
             checked == Exits(c, Threshold(c))
             opened == command' = [c EXCEPT !.phase = "opened"]
             failed == Exits(c, 2)
             runs == EnsureExecutable(c.plan, clock)
  <2>1. /\ command.phase = "idle" /\ UNCHANGED <<file, executed>>
        /\ CASE ~ModeKnown(review) -> unknown
             [] ModeKnown(review) /\ mode # "plan" /\ ~runs -> refused
             [] ModeKnown(review) /\ mode = "plan" -> checked
             [] OTHER -> IF mode = "dry-run" THEN checked
                         ELSE IF opens THEN opened ELSE failed
    BY DEF Invoke
  <2> HIDE DEF unknown, refused, checked, opened, failed, runs
  <2>2. unknown \/ refused \/ (mode # "apply" /\ checked) \/ (mode = "apply" /\ (opened \/ failed))
    <3>1. CASE ~ModeKnown(review)
      BY <2>1, <3>1
    <3>2. CASE ModeKnown(review) /\ mode # "plan" /\ ~runs
      BY <2>1, <3>2
    <3>3. CASE ModeKnown(review) /\ mode = "plan"
      BY <2>1, <3>3
    <3>4. CASE ModeKnown(review) /\ mode # "plan" /\ runs
      BY <2>1, <3>4
    <3> QED BY <3>1, <3>2, <3>3, <3>4
  <2> QED BY <2>1, <2>2 DEF unknown, refused, checked, opened, failed
<1>4. executed = <<>> /\ file \in Seq(Statements) /\ <<>> \in Seq(Statements)
  BY <1>3 DEF CommandInv
<1> HIDE DEF read, c
<1>5. /\ Commands(read) /\ read.sql = file /\ read.left = <<>> /\ read.reason = reason /\ read.mode = mode
      /\ Commands(c) /\ c.sql = file /\ c.left = <<>> /\ c.reason = reason /\ c.mode = mode
  BY <1>1, <1>2 DEF Commands
<1>6. CASE \/ Exits(read, 2)
           \/ Exits(c, 1)
           \/ Exits(c, 2)
           \/ mode # "apply" /\ Exits(c, Threshold(c))
  <2>1. {read.sql, read.left, c.sql, c.left} \subseteq Seq(Statements)
    BY <1>4, <1>5
  <2>2. CASE Exits(read, 2)
    <3>1. command' = [read EXCEPT !.phase = "exited", !.exit = 2]
      BY <2>2 DEF Exits
    <3> QED BY <1>3, <1>4, <1>5, <2>1, <3>1, 2 # 0, EndsEarly
  <2>3. ASSUME NEW code \in {1, 2}, Exits(c, code) PROVE CommandInv'
    <3>1. code # 0
      BY <2>3
    <3>2. command' = [c EXCEPT !.phase = "exited", !.exit = code]
      BY <2>3 DEF Exits
    <3> QED BY <1>3, <1>4, <1>5, <2>1, <3>1, <3>2, EndsEarly
  <2>4. CASE mode # "apply" /\ Exits(c, Threshold(c))
    BY <1>3, <1>4, <1>5, <2>1, <2>4, EndsEarly DEF Exits
  <2> QED BY <1>6, <2>2, <2>3, <2>4
<1>7. CASE mode = "apply" /\ command' = [c EXCEPT !.phase = "opened"]
  <2>1. command' = [phase |-> "opened", mode |-> c.mode, reason |-> c.reason, review |-> c.review,
                    failOn |-> c.failOn, sql |-> c.sql, plan |-> c.plan, left |-> c.left, exit |-> c.exit]
    BY <1>5, <1>7 DEF Commands
  <2>2. /\ Commands(command') /\ command'.phase = "opened" /\ command'.mode = "apply"
        /\ command'.sql = file /\ command'.left = <<>> /\ command'.reason = reason
    BY <1>5, <1>7, <2>1 DEF Commands
  <2>3. RunsPlannedPrefix'
    BY <1>3, <1>4, <2>2, EmptySplits DEF RunsPlannedPrefix
  <2> QED BY <1>3, <1>4, <2>2, <2>3 DEF CommandInv
<1> QED BY <1>3, <1>6, <1>7

\* Apply plans the text that was read, and executes it only if the plan allows.
LEMMA ApplyStep ==
  ASSUME CommandInv, Apply
  PROVE  CommandInv'
<1> DEFINE plan == MigratorPlan(command)
           c == [command EXCEPT !.plan = plan]
<1>1. /\ command.phase = "opened" /\ UNCHANGED <<file, executed>>
      /\ IF EnsureExecutable(c.plan, clock)
         THEN command' = [c EXCEPT !.phase = "executing", !.left = c.sql]
         ELSE Exits(c, 2)
  BY DEF Apply
<1>2. /\ executed = <<>> /\ command.mode = "apply" /\ command.reason \in BOOLEAN
      /\ {file, command.sql, command.left, executed} \subseteq Seq(Statements)
  BY <1>1 DEF CommandInv
<1>3. c = [phase |-> command.phase, mode |-> command.mode, reason |-> command.reason,
           review |-> command.review, failOn |-> command.failOn, sql |-> command.sql,
           plan |-> plan, left |-> command.left, exit |-> command.exit]
  <2>1. c = [command EXCEPT !.plan = plan]
    OBVIOUS
  <2> HIDE DEF plan, c
  <2> QED BY <2>1 DEF CommandInv, Commands
<1>4. /\ Commands(c) /\ c.mode = "apply" /\ c.reason = command.reason /\ c.sql = command.sql
      /\ c.left = command.left /\ c.plan = plan
  <2> HIDE DEF plan, c
  <2> QED BY <1>2, <1>3 DEF Commands
<1>5. CASE EnsureExecutable(c.plan, clock)
  <2>1. Approved(command)
    <3>1. EnsureExecutable(plan, clock)
      BY <1>4, <1>5
    <3> QED BY <1>2, <3>1, ExecutableIsApproved
  <2>2. command' = [c EXCEPT !.phase = "executing", !.left = c.sql]
    BY <1>1, <1>5
  <2> HIDE DEF plan, c
  <2>3. command' = [phase |-> "executing", mode |-> c.mode, reason |-> c.reason,
                    review |-> c.review, failOn |-> c.failOn, sql |-> c.sql,
                    plan |-> c.plan, left |-> c.sql, exit |-> c.exit]
    BY <1>4, <2>2 DEF Commands
  <2>4. /\ Commands(command') /\ command'.phase = "executing" /\ command'.mode = "apply"
        /\ command'.reason = command.reason /\ command'.sql = command.sql
        /\ command'.left = command.sql
    BY <1>4, <2>3 DEF Commands
  <2>5. Splits(executed', command'.left, command'.sql) /\ IsPrefix(executed', command'.sql)
    BY <1>1, <1>2, <2>4, EmptySplits
  <2>6. Approved(command')
    BY <2>1, <2>4 DEF Approved
  <2>7. RunsPlannedPrefix'
    BY <1>1, <1>2, <2>4, <2>5 DEF RunsPlannedPrefix
  <2> QED BY <1>1, <1>2, <2>4, <2>5, <2>6, <2>7 DEF CommandInv
<1>6. CASE ~EnsureExecutable(c.plan, clock)
  <2>1. command' = [c EXCEPT !.phase = "exited", !.exit = 2]
    BY <1>1, <1>6 DEF Exits
  <2> HIDE DEF plan, c
  <2> QED BY <1>1, <1>2, <1>4, <2>1, 2 # 0, EndsEarly
<1> QED BY <1>5, <1>6

\* A step of a command that executes, told by what it leaves of the command.
LEMMA ExecutingStep ==
  ASSUME CommandInv, UNCHANGED file, command.phase = "executing",
         Commands(command'), command'.mode = command.mode, command'.reason = command.reason,
         command'.sql = command.sql,
         command'.left \in Seq(Statements), executed' \in Seq(Statements),
         Splits(executed', command'.left, command'.sql)
           \/ (command'.phase # "executing" /\ IsPrefix(executed', command'.sql)),
         \/ command'.phase \in {"executing", "killed"}
         \/ command'.phase = "exited" /\ (command'.exit \in {0, 1} => executed' = command'.sql)
  PROVE  CommandInv'
<1>1. Approved(command) /\ command.mode = "apply"
  BY DEF CommandInv
<1>2. Approved(command')
  BY <1>1 DEF Approved
<1>3. IsPrefix(executed', command'.sql)
  BY SplitFacts DEF CommandInv
<1>4. RunsPlannedPrefix'
  BY <1>1, <1>3 DEF RunsPlannedPrefix
<1> QED BY <1>1, <1>2, <1>4 DEF CommandInv

\* A statement is executed, or fails and ends the command.
LEMMA ExecStep ==
  ASSUME CommandInv, ExecStatement \/ ExecFails
  PROVE  CommandInv'
<1> DEFINE done == Append(executed, Head(command.left))
           rest == Tail(command.left)
<1>1. /\ command.phase = "executing" /\ command.left # <<>> /\ UNCHANGED file
      /\ command.mode = "apply" /\ Commands(command)
      /\ {command.sql, command.left, executed} \subseteq Seq(Statements)
      /\ Splits(executed, command.left, command.sql)
  BY DEF ExecStatement, ExecFails, CommandInv
<1>2. /\ done \in Seq(Statements) /\ rest \in Seq(Statements) /\ Splits(done, rest, command.sql)
      /\ IsPrefix(done, command.sql) /\ IsPrefix(executed, command.sql)
  <2>1. done \in Seq(Statements) /\ rest \in Seq(Statements) /\ Splits(done, rest, command.sql)
    BY <1>1, SplitFacts
  <2> HIDE DEF done, rest
  <2> QED BY <1>1, <2>1, SplitFacts
<1>3. CASE ExecStatement
  <2>1. executed' = done /\ command' = [command EXCEPT !.left = rest]
    BY <1>3 DEF ExecStatement
  <2> HIDE DEF done, rest
  <2>2. command' = [phase |-> command.phase, mode |-> command.mode, reason |-> command.reason,
                    review |-> command.review, failOn |-> command.failOn, sql |-> command.sql,
                    plan |-> command.plan, left |-> rest, exit |-> command.exit]
    BY <1>1, <2>1 DEF Commands
  <2>3. /\ Commands(command') /\ command'.mode = command.mode /\ command'.reason = command.reason
        /\ command'.sql = command.sql /\ command'.left = rest /\ command'.phase = "executing"
    BY <1>1, <2>2 DEF Commands
  <2> QED BY <1>1, <1>2, <2>1, <2>3, ExecutingStep
<1>4. CASE ExecFails
  <2>1. /\ executed' = executed \/ executed' = done
        /\ command' = [command EXCEPT !.phase = "exited", !.exit = 2]
    BY <1>4 DEF ExecFails, AfterFailure
  <2> HIDE DEF done, rest
  <2>2. command' = [phase |-> "exited", mode |-> command.mode, reason |-> command.reason,
                    review |-> command.review, failOn |-> command.failOn, sql |-> command.sql,
                    plan |-> command.plan, left |-> command.left, exit |-> 2]
    BY <1>1, <2>1 DEF Commands
  <2>3. /\ Commands(command') /\ command'.mode = command.mode /\ command'.reason = command.reason
        /\ command'.sql = command.sql /\ command'.left = command.left
        /\ command'.phase = "exited" /\ command'.exit = 2
    BY <2>2 DEF Commands
  <2>4. command'.exit \notin {0, 1}
    BY <2>3
  <2>5. executed' \in Seq(Statements) /\ IsPrefix(executed', command'.sql)
    BY <1>1, <1>2, <2>1, <2>3
  <2> QED BY <1>1, <2>3, <2>4, <2>5, ExecutingStep
<1> QED BY <1>3, <1>4

\* The command ends with everything executed, or the process is killed.
LEMMA EndStep ==
  ASSUME CommandInv, Applied \/ Kill
  PROVE  CommandInv'
<1>1. /\ UNCHANGED <<file, executed>> /\ command.phase \in {"opened", "executing"}
      /\ command.mode = "apply" /\ Commands(command) /\ command.reason \in BOOLEAN
      /\ {command.sql, command.left, executed} \subseteq Seq(Statements)
      /\ IsPrefix(executed, command.sql)
  BY DEF Applied, Kill, CommandInv, RunsPlannedPrefix
<1>2. CASE Applied
  <2> DEFINE code == Threshold(command)
  <2>1. /\ command.phase = "executing" /\ command.left = <<>>
        /\ command' = [command EXCEPT !.phase = "exited", !.exit = code]
    BY <1>2 DEF Applied, Exits
  <2> HIDE DEF code
  <2>2. command' = [phase |-> "exited", mode |-> command.mode, reason |-> command.reason,
                    review |-> command.review, failOn |-> command.failOn, sql |-> command.sql,
                    plan |-> command.plan, left |-> command.left, exit |-> code]
    BY <1>1, <2>1 DEF Commands
  <2>3. /\ Commands(command') /\ command'.mode = command.mode /\ command'.reason = command.reason
        /\ command'.sql = command.sql /\ command'.left = command.left /\ command'.phase = "exited"
    BY <2>2 DEF Commands
  <2>4. executed = command.sql
    BY <1>1, <2>1, SplitFacts DEF CommandInv
  <2> QED BY <1>1, <2>1, <2>3, <2>4, ExecutingStep
<1>3. CASE Kill
  <2>1. command' = [command EXCEPT !.phase = "killed"]
    BY <1>3 DEF Kill
  <2>2. command' = [phase |-> "killed", mode |-> command.mode, reason |-> command.reason,
                    review |-> command.review, failOn |-> command.failOn, sql |-> command.sql,
                    plan |-> command.plan, left |-> command.left, exit |-> command.exit]
    BY <1>1, <2>1 DEF Commands
  <2>3. /\ Commands(command') /\ command'.mode = command.mode /\ command'.reason = command.reason
        /\ command'.sql = command.sql /\ command'.left = command.left /\ command'.phase = "killed"
    BY <2>2 DEF Commands
  <2>4. RunsPlannedPrefix'
    BY <1>1, <2>3 DEF RunsPlannedPrefix
  <2>5. executed' # <<>> => Approved(command')
    BY <1>1, <2>3 DEF CommandInv, Approved
  <2> QED BY <1>1, <2>3, <2>4, <2>5 DEF CommandInv
<1> QED BY <1>2, <1>3

\* Every step keeps the invariant of the command.
LEMMA CommandStep ==
  ASSUME CommandInv, [Splitting \/ Commanding \/ Holding]_migrationVars
  PROVE  CommandInv'
<1>1. CASE Splitting \/ Holding \/ UNCHANGED migrationVars
  <2>1. UNCHANGED <<file, command, executed>>
    BY <1>1 DEF Splitting, Type, Holding, HoldPlan, ReviewPlan, ApprovePlan, CheckPlan,
                MigrationTick, migrationVars
  <2> QED BY <2>1, CommandFrame
<1>2. CASE Commanding
  <2>1. ASSUME NEW mode \in {"plan", "dry-run", "apply"}, NEW reason \in BOOLEAN,
               NEW failOn \in BOOLEAN, NEW opens \in BOOLEAN, NEW review \in ReviewModes,
               Invoke(mode, reason, review, failOn, opens)
        PROVE  CommandInv'
    BY <2>1, InvokeStep
  <2>2. CASE EditFile
    <3>1. UNCHANGED <<command, executed>> /\ file' \in Seq(Statements)
      BY <2>2, ScriptsAssumption DEF EditFile
    <3> QED BY <3>1 DEF CommandInv, Commands, Splits, Approved, RunsPlannedPrefix
  <2> QED BY <1>2, <2>1, <2>2, ApplyStep, ExecStep, EndStep DEF Commanding
<1> QED BY <1>1, <1>2

\* In the beginning no command has run.
LEMMA CommandInit ==
  ASSUME MigrationInit
  PROVE  CommandInv
<1>1. file \in Seq(Statements) /\ command = Idle /\ executed = <<>> /\ <<>> \in Seq(Statements)
  BY ScriptsAssumption DEF MigrationInit
<1>2. RunsPlannedPrefix
  BY <1>1, IdleFields, EmptySplits DEF RunsPlannedPrefix
<1> QED BY <1>1, <1>2, IdleFields DEF CommandInv

\* A migrate command executes, in order, a prefix of the statements it planned:
\* all of them when it reports success, none when it refuses or was not to apply.
THEOREM RunsPlannedPrefixHolds == MigrationSpec => []RunsPlannedPrefix
<1>1. CommandInv => RunsPlannedPrefix
  BY DEF CommandInv
<1> QED BY <1>1, CommandInit, CommandStep, PTL DEF MigrationSpec

\* No statement that is by itself dangerous is executed without a reason, and
\* none at all of a file in which a statement cannot be classified.
THEOREM DangerousRunsApprovedHolds == MigrationSpec => []DangerousRunsApproved
<1>1. CommandInv => DangerousRunsApproved
  <2> SUFFICES ASSUME CommandInv, NEW i \in DOMAIN executed
               PROVE  /\ Single(executed[i]) /\ Dangerous(executed[i]) => command.reason
                      /\ \A s \in Range(command.sql) : Single(s) => ~Opaque(s)
    BY DEF DangerousRunsApproved
  <2>1. executed # <<>> /\ Approved(command)
    BY DEF CommandInv
  <2>2. executed[i] \in Range(command.sql)
    <3>1. /\ executed \in Seq(Statements) /\ command.sql \in Seq(Statements)
          /\ Len(executed) <= Len(command.sql)
          /\ SubSeq(executed, 1, Len(executed)) = SubSeq(command.sql, 1, Len(executed))
      BY DEF CommandInv, RunsPlannedPrefix, IsPrefix
    <3>2. executed[i] = command.sql[i] /\ i \in DOMAIN command.sql
      BY <3>1
    <3> QED BY <3>2 DEF Range
  <2> QED BY <2>1, <2>2 DEF Approved
<1> QED BY <1>1, CommandInit, CommandStep, PTL DEF MigrationSpec

(***************************************************************************)
(* The comparison of schemas.                                              *)
(***************************************************************************)
\* A sequence of declarations.
Listed(s) == s \in Seq(Items(s))

\* The declarations of a sequence that go by one name.
LEMMA NamedIs ==
  ASSUME NEW s, Listed(s), NEW n
  PROVE  /\ Count(s, n) \in Nat
         /\ n \in Names(s) => /\ The(s, n) \in Items(s) /\ The(s, n).name = n
                              /\ Count(s, n) >= 1
         /\ \A d, e \in Items(s) : Count(s, n) <= 1 /\ d.name = n /\ e.name = n => d = e
<1> DEFINE I == {i \in DOMAIN s : s[i].name = n}
<1>1. IsFiniteSet(I)
  <2>1. DOMAIN s = 1..Len(s) /\ Len(s) \in Nat
    BY DEF Listed
  <2>2. IsFiniteSet(1..Len(s))
    BY <2>1, FS_Interval
  <2>3. I \subseteq 1..Len(s)
    BY <2>1
  <2> QED BY <2>2, <2>3, FS_Subset
<1>2. Cardinality(I) \in Nat /\ (Cardinality(I) = 0 <=> I = {}) /\ (Cardinality(I) = 1 <=> \E i : I = {i})
  BY <1>1, FS_CardinalityType, FS_EmptySet, FS_Singleton
<1>3. Count(s, n) = Cardinality(I)
  BY DEF Count
<1>4. ASSUME n \in Names(s)
      PROVE  The(s, n) \in Items(s) /\ The(s, n).name = n /\ Count(s, n) >= 1
  <2>1. PICK d \in Items(s) : d.name = n
    BY <1>4 DEF Names
  <2>2. PICK i \in DOMAIN s : s[i] = d
    BY DEF Items
  <2>3. I # {}
    BY <2>1, <2>2
  <2>4. Count(s, n) >= 1
    BY <1>2, <1>3, <2>3
  <2> QED BY <2>1, <2>4 DEF The
<1>5. ASSUME NEW d \in Items(s), NEW e \in Items(s), Count(s, n) <= 1, d.name = n, e.name = n
      PROVE  d = e
  <2>1. PICK i \in DOMAIN s : s[i] = d
    BY DEF Items
  <2>2. PICK j \in DOMAIN s : s[j] = e
    BY DEF Items
  <2>3. i \in I /\ j \in I
    BY <1>5, <2>1, <2>2
  <2>4. Cardinality(I) = 1
    BY <1>2, <1>3, <1>5, <2>3
  <2> QED BY <1>2, <2>1, <2>2, <2>3, <2>4
<1> QED BY <1>2, <1>3, <1>4, <1>5

\* The only declaration of its name is the one that is looked up.
LEMMA OnlyOne ==
  ASSUME NEW s, Listed(s), NEW d \in Items(s), Count(s, d.name) <= 1
  PROVE  Count(s, d.name) = 1 /\ The(s, d.name) = d
<1>1. d.name \in Names(s)
  BY DEF Names
<1>2. /\ Count(s, d.name) \in Nat /\ Count(s, d.name) >= 1
      /\ The(s, d.name) \in Items(s) /\ The(s, d.name).name = d.name
  BY <1>1, NamedIs
<1>3. The(s, d.name) = d
  BY <1>2, NamedIs
<1> QED BY <1>2, <1>3

\* A table whose collections are sequences.
Whole(t) == \A kind \in Kinds : Listed(ofAnyKind(t, kind))

\* The collections of such a table, one by one, and its constraints together.
LEMMA WholeIs ==
  ASSUME NEW t, Whole(t)
  PROVE  /\ Listed(t.columns) /\ Listed(t.indexes) /\ Listed(t.foreign_keys) /\ Listed(t.checks)
         /\ Listed(Constraints(t)) /\ Items(Constraints(t)) = Items(t.foreign_keys) \cup Items(t.checks)
         /\ \A kind \in {"foreign_key", "check"} : Listed(ofKind(t, kind)) /\ Items(ofKind(t, kind)) \subseteq Items(Constraints(t))
<1>1. /\ Listed(t.columns) /\ Listed(t.indexes) /\ Listed(t.foreign_keys) /\ Listed(t.checks)
  <2>1. \A kind \in Kinds : Listed(ofAnyKind(t, kind))
    BY DEF Whole
  <2>2. /\ "column" \in Kinds /\ "index" \in Kinds /\ "foreign_key" \in Kinds /\ "check" \in Kinds
    BY DEF Kinds
  <2>3. /\ ofAnyKind(t, "column") = t.columns /\ ofAnyKind(t, "index") = t.indexes
        /\ ofAnyKind(t, "foreign_key") = t.foreign_keys /\ ofAnyKind(t, "check") = t.checks
    BY DEF ofAnyKind, ofKind
  <2>4. Listed(ofAnyKind(t, "column")) /\ Listed(ofAnyKind(t, "index"))
    BY <2>1, <2>2
  <2>5. Listed(ofAnyKind(t, "foreign_key")) /\ Listed(ofAnyKind(t, "check"))
    BY <2>1, <2>2
  <2> QED BY <2>3, <2>4, <2>5
<1>2. ASSUME NEW f, NEW g, Listed(f), Listed(g)
      PROVE  Items(f \o g) = Items(f) \cup Items(g) /\ Listed(f \o g)
  <2> DEFINE S == Items(f) \cup Items(g)
  <2>1. f \in Seq(S) /\ g \in Seq(S)
    <3>1. Items(f) \subseteq S /\ Items(g) \subseteq S
      OBVIOUS
    <3> HIDE DEF S
    <3> QED BY <1>2, <3>1 DEF Listed
  <2>2. /\ f \o g \in Seq(S) /\ Len(f \o g) = Len(f) + Len(g) /\ Len(f) \in Nat /\ Len(g) \in Nat
        /\ \A i \in 1..Len(f) + Len(g) : (f \o g)[i] = IF i <= Len(f) THEN f[i] ELSE g[i - Len(f)]
        /\ DOMAIN f = 1..Len(f) /\ DOMAIN g = 1..Len(g) /\ DOMAIN (f \o g) = 1..Len(f \o g)
    <3> HIDE DEF S
    <3> QED BY <2>1
  <2> DEFINE h == f \o g
  <2> HIDE DEF S, h
  <2>3. /\ h \in Seq(S) /\ Len(h) = Len(f) + Len(g) /\ Len(f) \in Nat /\ Len(g) \in Nat
        /\ \A i \in 1..Len(f) + Len(g) : h[i] = IF i <= Len(f) THEN f[i] ELSE g[i - Len(f)]
        /\ DOMAIN f = 1..Len(f) /\ DOMAIN g = 1..Len(g) /\ DOMAIN h = 1..Len(h)
    BY <2>2 DEF h
  <2>4. ASSUME NEW x \in Items(h) PROVE x \in Items(f) \cup Items(g)
    <3>1. PICK i \in 1..Len(f) + Len(g) : x = h[i]
      BY <2>3, <2>4 DEF Items
    <3>2. CASE i <= Len(f)
      BY <2>3, <3>1, <3>2, SMTT(30) DEF Items
    <3>3. CASE ~(i <= Len(f))
      <4>1. i - Len(f) \in 1..Len(g) /\ x = g[i - Len(f)]
        BY <2>3, <3>1, <3>3
      <4> QED BY <2>3, <4>1 DEF Items
    <3> QED BY <3>2, <3>3
  <2>5. ASSUME NEW x \in Items(f) \cup Items(g) PROVE x \in Items(h)
    <3>1. CASE x \in Items(f)
      <4>1. PICK i \in 1..Len(f) : x = f[i]
        BY <2>3, <3>1 DEF Items
      <4>2. i \in 1..Len(f) + Len(g) /\ h[i] = x
        BY <2>3, <4>1
      <4> QED BY <2>3, <4>2 DEF Items
    <3>2. CASE x \in Items(g)
      <4>1. PICK i \in 1..Len(g) : x = g[i]
        BY <2>3, <3>2 DEF Items
      <4>2. i + Len(f) \in 1..Len(f) + Len(g) /\ ~(i + Len(f) <= Len(f)) /\ (i + Len(f)) - Len(f) = i
        BY <2>3, <4>1
      <4>3. h[i + Len(f)] = x
        BY <2>3, <4>1, <4>2
      <4> QED BY <2>3, <4>2, <4>3 DEF Items
    <3> QED BY <2>5, <3>1, <3>2
  <2>6. Items(h) = S
    BY <2>4, <2>5 DEF S
  <2>7. Listed(h)
    BY <2>3, <2>6 DEF Listed
  <2> QED BY <2>6, <2>7 DEF h, S
<1>3. Listed(Constraints(t)) /\ Items(Constraints(t)) = Items(t.foreign_keys) \cup Items(t.checks)
  BY <1>1, <1>2 DEF Constraints
<1>4. \A kind \in {"foreign_key", "check"} : Listed(ofKind(t, kind)) /\ Items(ofKind(t, kind)) \subseteq Items(Constraints(t))
  BY <1>1, <1>3 DEF ofKind
<1> QED BY <1>1, <1>3, <1>4

\* Every step of S is a gap or in C.
Right(S, C) == \A x \in S : x.unknown \/ x \in C
Gapless(S) == \A x \in S : ~x.unknown

\* What tells steps apart.
LEMMA StepsAre ==
  \A op, kind, t, n :
    /\ Change(op, kind, t, n).unknown = FALSE /\ Change(op, kind, t, n).op = op
    /\ Change(op, kind, t, n).kind = kind
    /\ comparisonUnknown(kind, t, n).unknown = TRUE /\ comparisonUnknown(kind, t, n).op = "unsupported"
BY DEF Change, comparisonUnknown

\* An alteration is no absence.
LEMMA NotAbsence ==
  \A op \in {"alter_type", "alter_nullability", "alter_default", "alter"} : \A kind, t, n :
    Change(op, kind, t, n).op \notin {"add", "drop"} /\ Change(op, kind, t, n).unknown = FALSE
<1> SUFFICES ASSUME NEW op \in {"alter_type", "alter_nullability", "alter_default", "alter"},
                    NEW kind, NEW t, NEW n
             PROVE  Change(op, kind, t, n).op \notin {"add", "drop"} /\ Change(op, kind, t, n).unknown = FALSE
  OBVIOUS
<1>1. Change(op, kind, t, n).op = op /\ Change(op, kind, t, n).unknown = FALSE
  BY StepsAre
<1> QED BY <1>1

\* The marker of a table is a gap.
LEMMA TableGap ==
  ASSUME NEW t, NEW x \in tableUnknown(t)
  PROVE  x.unknown = TRUE /\ x.op = "unsupported"
<1>1. x = comparisonUnknown("table", t.name, None)
  BY DEF tableUnknown
<1> QED BY <1>1, StepsAre

LEMMA HasTableGap ==
  ASSUME NEW t, NEW S, tableUnknown(t) \subseteq S PROVE ~Gapless(S)
<1>1. comparisonUnknown("table", t.name, None) \in S
  BY DEF tableUnknown
<1> QED BY <1>1, StepsAre DEF Gapless

\* A known default says whether there is an expression.
LEMMA DefaultIs ==
  ASSUME NEW c
  PROVE  /\ columnDefault(c) \in {"expression", "none", "unknown"}
         /\ columnDefault(c) = "none" => c.expr = ""
         /\ columnDefault(c) = "expression" => c.expr # ""
BY DEF columnDefault

\* What TrueTable says, collection by collection.
LEMMA TrueIs ==
  ASSUME NEW t, NEW x, NEW complete, TrueTable(t, x, complete)
  PROVE  /\ Names(t.columns) \subseteq DOMAIN x["column"]
         /\ "column" \in complete => Names(t.columns) = DOMAIN x["column"]
         /\ Names(t.indexes) \subseteq DOMAIN x["index"]
         /\ "index" \in complete => Names(t.indexes) = DOMAIN x["index"]
         /\ \A kind \in {"foreign_key", "check"} :
              /\ Names(ofKind(t, kind)) \subseteq DOMAIN x[kind]
              /\ kind \in complete => Names(ofKind(t, kind)) = DOMAIN x[kind]
         /\ \A c \in Items(t.columns) : Count(t.columns, c.name) = 1 => TrueColumn(c, x["column"][c.name])
         /\ \A i \in Items(t.indexes) : validIndex(i, t) => TrueIndex(i, x["index"][i.name])
         /\ \A kind \in {"foreign_key", "check"} : \A c \in Items(ofKind(t, kind)) :
              validConstraint(c, t) /\ Count(Constraints(t), c.name) = 1 => TrueConstraint(c, x[kind][c.name])
<1>1. \A kind \in Kinds :
        /\ Names(ofAnyKind(t, kind)) \subseteq DOMAIN x[kind]
        /\ kind \in complete => Names(ofAnyKind(t, kind)) = DOMAIN x[kind]
  BY DEF TrueTable
<1>2. /\ "column" \in Kinds /\ "index" \in Kinds /\ {"foreign_key", "check"} \subseteq Kinds
  BY DEF Kinds
<1>3. /\ ofAnyKind(t, "column") = t.columns /\ ofAnyKind(t, "index") = t.indexes
      /\ \A kind \in {"foreign_key", "check"} : ofAnyKind(t, kind) = ofKind(t, kind)
  BY DEF ofAnyKind
<1>4. /\ Names(t.columns) \subseteq DOMAIN x["column"]
      /\ "column" \in complete => Names(t.columns) = DOMAIN x["column"]
  BY <1>1, <1>2, <1>3
<1>5. /\ Names(t.indexes) \subseteq DOMAIN x["index"]
      /\ "index" \in complete => Names(t.indexes) = DOMAIN x["index"]
  BY <1>1, <1>2, <1>3
<1>6. ASSUME NEW kind \in {"foreign_key", "check"}
      PROVE  /\ Names(ofKind(t, kind)) \subseteq DOMAIN x[kind]
             /\ kind \in complete => Names(ofKind(t, kind)) = DOMAIN x[kind]
  <2>1. kind \in Kinds /\ ofAnyKind(t, kind) = ofKind(t, kind)
    BY <1>2, <1>3
  <2> QED BY <1>1, <2>1
<1> QED BY <1>4, <1>5, <1>6 DEF TrueTable

\* The columns that both declarations name, once each, are compared with what
\* they are.
LEMMA ColumnMatched ==
  ASSUME NEW p, NEW q, Whole(p), Whole(q), NEW x, NEW y, NEW ac, NEW bc,
         TrueTable(p, x, ac), TrueTable(q, y, bc),
         NEW n \in Names(p.columns) \cap Names(q.columns),
         n \notin ambiguousColumns(p), n \notin ambiguousColumns(q)
  PROVE  LET S == diffColumn(q, The(p.columns, n), The(q.columns, n))
             A == AlteredColumn(q.name, n, x["column"][n], y["column"][n]) IN
         /\ n \in DOMAIN x["column"] \cap DOMAIN y["column"]
         /\ \A z \in S : z.op \notin {"add", "drop"}
         /\ Right(S, A)
         /\ Gapless(S) => A \subseteq S
<1> DEFINE c == The(p.columns, n)
           d == The(q.columns, n)
           u == x["column"][n]
           v == y["column"][n]
<1>1. Listed(p.columns) /\ Listed(q.columns)
  BY WholeIs
<1>2. /\ c \in Items(p.columns) /\ c.name = n /\ Count(p.columns, n) >= 1 /\ Count(p.columns, n) \in Nat
      /\ d \in Items(q.columns) /\ d.name = n /\ Count(q.columns, n) >= 1 /\ Count(q.columns, n) \in Nat
  BY <1>1, NamedIs
<1>3. Count(p.columns, n) = 1 /\ Count(q.columns, n) = 1
  BY <1>2 DEF ambiguousColumns
<1> HIDE DEF c, d
<1>4. n \in DOMAIN x["column"] \cap DOMAIN y["column"] /\ TrueColumn(c, u) /\ TrueColumn(d, v)
  BY <1>2, <1>3, TrueIs
<1> HIDE DEF u, v
<1>5. /\ columnDefault(c) \in {"expression", "none", "unknown"} /\ columnDefault(d) \in {"expression", "none", "unknown"}
      /\ columnDefault(c) = "none" => c.expr = ""
      /\ columnDefault(d) = "none" => d.expr = ""
      /\ columnDefault(c) = "expression" => c.expr # ""
      /\ columnDefault(d) = "expression" => d.expr # ""
  BY DefaultIs
<1>6. CASE "unknown" \in {columnDefault(c), columnDefault(d)}
  <2>1. diffDefault(q, c, d) = {comparisonUnknown("column", q.name, n)}
    BY <1>2, <1>6 DEF diffDefault
  <2>2. ~Gapless(diffColumn(q, c, d))
    BY <2>1, StepsAre DEF Gapless, diffColumn
  <2>3. ASSUME NEW z \in diffColumn(q, c, d)
        PROVE  z.op \notin {"add", "drop"} /\ (z.unknown \/ z \in AlteredColumn(q.name, n, u, v))
    <3>1. CASE z = comparisonUnknown("column", q.name, n)
      BY <3>1, StepsAre
    <3>2. CASE z = Change("alter_type", "column", q.name, n) /\ c.type # d.type
      <4>1. z \in AlteredColumn(q.name, n, u, v)
        BY <3>2, <1>4 DEF AlteredColumn, If, TrueColumn
      <4> QED BY <3>2, <4>1, NotAbsence
    <3>3. CASE z = Change("alter_nullability", "column", q.name, n) /\ c.nullable # d.nullable
      <4>1. z \in AlteredColumn(q.name, n, u, v)
        BY <3>3, <1>4 DEF AlteredColumn, If, TrueColumn
      <4> QED BY <3>3, <4>1, NotAbsence
    <3> QED BY <1>2, <2>1, <2>3, <3>1, <3>2, <3>3 DEF diffColumn, If
  <2> QED BY <1>4, <2>2, <2>3 DEF Right, c, d, u, v
<1>7. CASE "unknown" \notin {columnDefault(c), columnDefault(d)}
  <2>1. c.expr = u.expr /\ d.expr = v.expr
    BY <1>4, <1>7 DEF TrueColumn
  <2>2. columnDefault(c) # columnDefault(d) \/ c.expr # d.expr <=> u.expr # v.expr
    BY <1>5, <1>7, <2>1
  <2>3. diffDefault(q, c, d) = If(u.expr # v.expr, {Change("alter_default", "column", q.name, n)})
    BY <1>2, <1>7, <2>2 DEF diffDefault, If
  <2>4. diffColumn(q, c, d) = AlteredColumn(q.name, n, u, v)
    BY <1>2, <1>4, <2>3 DEF diffColumn, AlteredColumn, TrueColumn, If
  <2>5. ASSUME NEW z \in AlteredColumn(q.name, n, u, v) PROVE z.op \notin {"add", "drop"}
    <3>1. \E op \in {"alter_type", "alter_nullability", "alter_default", "alter"} :
            z = Change(op, "column", q.name, n)
      BY <2>5 DEF AlteredColumn, If
    <3> QED BY <3>1, NotAbsence
  <2> QED BY <1>4, <2>4, <2>5 DEF Right, c, d, u, v
<1> QED BY <1>6, <1>7

\* A step that is no absence is kept, and an absence where the side that lacks it
\* declares the kind complete.
LEMMA DemoteIs ==
  ASSUME NEW scope, NEW ac, NEW bc, NEW s, s.op \notin {"add", "drop"}
  PROVE  Demote(s, scope, ac, bc) = s
BY DEF Demote

LEMMA DemoteAbsence ==
  ASSUME NEW scope, NEW ac, NEW bc, NEW kind, NEW t, NEW n, NEW op \in {"add", "drop"}, NEW z,
         z = Change(op, kind, t, n)
  PROVE  LET e == Demote(z, scope, ac, bc) IN
         e.unknown \/ (e = z /\ (op = "add" => kind \in ac) /\ (op = "drop" => kind \in bc))
<1> DEFINE e == Demote(z, scope, ac, bc)
           lost == \/ z.op = "add" /\ (~scope \/ z.kind \notin ac)
                   \/ z.op = "drop" /\ (~scope \/ z.kind \notin bc)
<1>1. z.op = op /\ z.kind = kind
  BY StepsAre
<1>2. e = IF lost THEN comparisonUnknown(z.kind, z.table, z.name) ELSE z
  BY DEF Demote
<1> HIDE DEF e
<1>3. CASE lost
  <2> DEFINE g == comparisonUnknown(z.kind, z.table, z.name)
  <2>1. g.unknown = TRUE
    BY StepsAre
  <2>2. e = g
    BY <1>2, <1>3
  <2> QED BY <2>1, <2>2 DEF e
<1>4. CASE ~lost
  <2>1. e = z
    BY <1>2, <1>4
  <2>2. op = "add" => kind \in ac
    BY <1>1, <1>4
  <2>3. op = "drop" => kind \in bc
    BY <1>1, <1>4
  <2> QED BY <2>1, <2>2, <2>3 DEF e
<1> QED BY <1>3, <1>4

\* The steps of columns and indexes, absences demoted.
Demoted(D, scope, ac, bc) == {Demote(s, scope, ac, bc) : s \in D}

\* What a step of the columns or the indexes is before absences are demoted.
Gap(z) == z.unknown = TRUE /\ z.op = "unsupported"
Kept(z, S) == z.op \notin {"add", "drop"} /\ (z.unknown \/ z \in S)

\* Steps that are right where an absence is known are right when demoted.
LEMMA DemotedRight ==
  ASSUME NEW D, NEW scope, NEW ac, NEW bc, NEW C,
         \A z \in D :
           \/ Kept(z, C)
           \/ \E kind, t, n : z = Change("add", kind, t, n) /\ (kind \in ac => z \in C)
           \/ \E kind, t, n : z = Change("drop", kind, t, n) /\ (kind \in bc => z \in C)
  PROVE  Right(Demoted(D, scope, ac, bc), C)
<1> SUFFICES ASSUME NEW z \in D
             PROVE  Demote(z, scope, ac, bc).unknown \/ Demote(z, scope, ac, bc) \in C
  BY DEF Right, Demoted
<1>1. CASE Kept(z, C)
  <2>1. Demote(z, scope, ac, bc) = z
    BY <1>1, DemoteIs DEF Kept
  <2> QED BY <1>1, <2>1 DEF Kept
<1>2. ASSUME NEW kind, NEW t, NEW n, z = Change("add", kind, t, n), kind \in ac => z \in C
      PROVE  Demote(z, scope, ac, bc).unknown \/ Demote(z, scope, ac, bc) \in C
  <2>1. LET e == Demote(z, scope, ac, bc) IN e.unknown \/ (e = z /\ kind \in ac)
    BY <1>2, DemoteAbsence
  <2> QED BY <1>2, <2>1
<1>3. ASSUME NEW kind, NEW t, NEW n, z = Change("drop", kind, t, n), kind \in bc => z \in C
      PROVE  Demote(z, scope, ac, bc).unknown \/ Demote(z, scope, ac, bc) \in C
  <2>1. LET e == Demote(z, scope, ac, bc) IN e.unknown \/ (e = z /\ kind \in bc)
    BY <1>3, DemoteAbsence
  <2> QED BY <1>3, <2>1
<1> QED BY <1>1, <1>2, <1>3

\* When the demoted steps have no gap, none was demoted.
LEMMA DemotedGapless ==
  ASSUME NEW D, NEW scope, NEW ac, NEW bc, Gapless(Demoted(D, scope, ac, bc))
  PROVE  /\ \A z \in D : z.op \notin {"add", "drop"} => ~z.unknown /\ z \in Demoted(D, scope, ac, bc)
         /\ \A kind, t, n : Change("add", kind, t, n) \in D => Change("add", kind, t, n) \in Demoted(D, scope, ac, bc)
         /\ \A kind, t, n : Change("drop", kind, t, n) \in D => Change("drop", kind, t, n) \in Demoted(D, scope, ac, bc)
<1>1. \A z \in D : Demote(z, scope, ac, bc) \in Demoted(D, scope, ac, bc) /\ ~Demote(z, scope, ac, bc).unknown
  BY DEF Demoted, Gapless
<1>2. \A z \in D : z.op \notin {"add", "drop"} => Demote(z, scope, ac, bc) = z
  BY DemoteIs
<1>3. ASSUME NEW kind, NEW t, NEW n, Change("add", kind, t, n) \in D
      PROVE  Change("add", kind, t, n) \in Demoted(D, scope, ac, bc)
  <2> DEFINE z == Change("add", kind, t, n)
             e == Demote(z, scope, ac, bc)
  <2>1. e \in Demoted(D, scope, ac, bc) /\ ~e.unknown
    BY <1>1, <1>3
  <2>2. e.unknown \/ e = z
    BY DemoteAbsence
  <2> HIDE DEF z, e
  <2> QED BY <2>1, <2>2 DEF z
<1>4. ASSUME NEW kind, NEW t, NEW n, Change("drop", kind, t, n) \in D
      PROVE  Change("drop", kind, t, n) \in Demoted(D, scope, ac, bc)
  <2> DEFINE z == Change("drop", kind, t, n)
             e == Demote(z, scope, ac, bc)
  <2>1. e \in Demoted(D, scope, ac, bc) /\ ~e.unknown
    BY <1>1, <1>4
  <2>2. e.unknown \/ e = z
    BY DemoteAbsence
  <2> HIDE DEF z, e
  <2> QED BY <2>1, <2>2 DEF z
<1> QED BY <1>1, <1>2, <1>3, <1>4

\* The changes of a collection, by name.
LEMMA MembersAre ==
  ASSUME NEW kind, NEW t, NEW x, NEW y
  PROVE  /\ \A n \in DOMAIN y \ DOMAIN x : Change("add", kind, t, n) \in ChangedMembers(kind, t, x, y)
         /\ \A n \in DOMAIN x \ DOMAIN y : Change("drop", kind, t, n) \in ChangedMembers(kind, t, x, y)
         /\ \A n \in DOMAIN x \cap DOMAIN y : Altered(kind, t, n, x[n], y[n]) \subseteq ChangedMembers(kind, t, x, y)
         /\ \A z \in ChangedMembers(kind, t, x, y) :
              \/ \E n \in DOMAIN y \ DOMAIN x : z = Change("add", kind, t, n)
              \/ \E n \in DOMAIN x \ DOMAIN y : z = Change("drop", kind, t, n)
              \/ \E n \in DOMAIN x \cap DOMAIN y : z \in Altered(kind, t, n, x[n], y[n])
BY DEF ChangedMembers

\* The steps of a one-sided column.
LEMMA OneSidedColumnIs ==
  ASSUME NEW op, NEW t, NEW b, NEW n
  PROVE  /\ Change(op, "column", b.name, n) \in oneSidedColumn(op, t, b, n)
         /\ \A z \in oneSidedColumn(op, t, b, n) : Gap(z) \/ z = Change(op, "column", b.name, n)
<1>1. Change(op, "column", b.name, n) \in oneSidedColumn(op, t, b, n)
  BY DEF oneSidedColumn
<1>2. ASSUME NEW z \in oneSidedColumn(op, t, b, n), z # Change(op, "column", b.name, n) PROVE Gap(z)
  <2>1. z \in unknownDefault(b, The(t.columns, n))
    BY <1>2 DEF oneSidedColumn
  <2>2. z = comparisonUnknown("column", b.name, The(t.columns, n).name)
    BY <2>1 DEF unknownDefault, If
  <2> QED BY <2>2, StepsAre DEF Gap
<1> QED BY <1>1, <1>2

\* The columns: every step that is no gap is a change, and without a gap every
\* change is a step.
LEMMA ColumnsCompared ==
  ASSUME NEW p, NEW q, Whole(p), Whole(q), NEW x, NEW y, NEW ac, NEW bc, NEW scope,
         TrueTable(p, x, ac), TrueTable(q, y, bc)
  PROVE  LET S == Demoted(diffColumns(p, q), scope, ac, bc)
             C == ChangedMembers("column", q.name, x["column"], y["column"]) IN
         /\ Right(S, C)
         /\ Gapless(S) /\ "column" \in ac /\ "column" \in bc => C \subseteq S
<1> DEFINE D == diffColumns(p, q)
           S == Demoted(D, scope, ac, bc)
           X == x["column"]
           Y == y["column"]
           C == ChangedMembers("column", q.name, X, Y)
           bad == ambiguousColumns(p) \cup ambiguousColumns(q)
           old == Names(p.columns) \ bad
           new == Names(q.columns) \ bad
           M(n) == diffColumn(q, The(p.columns, n), The(q.columns, n))
           A(n) == AlteredColumn(q.name, n, X[n], Y[n])
<1>1. \A z : z \in D <=>
        \/ z \in If(bad # {}, tableUnknown(q)) \/ \E n \in old \cap new : z \in M(n)
        \/ \E n \in new \ old : z \in oneSidedColumn("add", q, q, n)
        \/ \E n \in old \ new : z \in oneSidedColumn("drop", p, q, n)
  <2> DEFINE T0 == If(bad # {}, tableUnknown(q))
             T1 == UNION {M(n) : n \in old \cap new}
             T2 == UNION {oneSidedColumn("add", q, q, n) : n \in new \ old}
             T3 == UNION {oneSidedColumn("drop", p, q, n) : n \in old \ new}
  <2>1. D = T0 \cup T1 \cup T2 \cup T3
    BY DEF diffColumns
  <2> HIDE DEF D, M, old, new, bad
  <2>2. /\ \A z : z \in T1 <=> \E n \in old \cap new : z \in M(n)
        /\ \A z : z \in T2 <=> \E n \in new \ old : z \in oneSidedColumn("add", q, q, n)
        /\ \A z : z \in T3 <=> \E n \in old \ new : z \in oneSidedColumn("drop", p, q, n)
    OBVIOUS
  <2>3. \A z : z \in D <=> z \in T0 \/ z \in T1 \/ z \in T2 \/ z \in T3
    <3> HIDE DEF T0, T1, T2, T3
    <3> QED BY <2>1
  <2> HIDE DEF T1, T2, T3
  <2> QED BY <2>2, <2>3
<1>2. /\ Names(p.columns) \subseteq DOMAIN X /\ Names(q.columns) \subseteq DOMAIN Y
      /\ "column" \in ac => Names(p.columns) = DOMAIN X
      /\ "column" \in bc => Names(q.columns) = DOMAIN Y
  BY TrueIs
<1>3. ASSUME NEW n \in old \cap new
      PROVE  /\ n \in DOMAIN X \cap DOMAIN Y
             /\ \A z \in M(n) : z.op \notin {"add", "drop"}
             /\ Right(M(n), A(n))
             /\ Gapless(M(n)) => A(n) \subseteq M(n)
  BY ColumnMatched
<1>4. \A n : Altered("column", q.name, n, X[n], Y[n]) = A(n)
  BY DEF Altered
<1>5. /\ \A n \in DOMAIN Y \ DOMAIN X : Change("add", "column", q.name, n) \in C
      /\ \A n \in DOMAIN X \ DOMAIN Y : Change("drop", "column", q.name, n) \in C
      /\ \A n \in DOMAIN X \cap DOMAIN Y : A(n) \subseteq C
      /\ \A z \in C :
              \/ \E n \in DOMAIN Y \ DOMAIN X : z = Change("add", "column", q.name, n)
              \/ \E n \in DOMAIN X \ DOMAIN Y : z = Change("drop", "column", q.name, n)
              \/ \E n \in DOMAIN X \cap DOMAIN Y : z \in A(n)
  <2> HIDE DEF A, X, Y
  <2>1. /\ \A n \in DOMAIN Y \ DOMAIN X : Change("add", "column", q.name, n) \in C
        /\ \A n \in DOMAIN X \ DOMAIN Y : Change("drop", "column", q.name, n) \in C
        /\ \A n \in DOMAIN X \cap DOMAIN Y : Altered("column", q.name, n, X[n], Y[n]) \subseteq C
        /\ \A z \in C :
              \/ \E n \in DOMAIN Y \ DOMAIN X : z = Change("add", "column", q.name, n)
              \/ \E n \in DOMAIN X \ DOMAIN Y : z = Change("drop", "column", q.name, n)
              \/ \E n \in DOMAIN X \cap DOMAIN Y : z \in Altered("column", q.name, n, X[n], Y[n])
    BY MembersAre
  <2> QED BY <1>4, <2>1
<1>6. old \subseteq Names(p.columns) /\ new \subseteq Names(q.columns)
      /\ (\A n \in new \ old : n \notin Names(p.columns)) /\ (\A n \in old \ new : n \notin Names(q.columns))
  OBVIOUS
<1> HIDE DEF D, X, Y, C, old, new, M, A
<1>7. Right(S, C)
  <2>1. ASSUME NEW z \in D
        PROVE  \/ Kept(z, C)
               \/ \E kind, t, n : z = Change("add", kind, t, n) /\ (kind \in ac => z \in C)
               \/ \E kind, t, n : z = Change("drop", kind, t, n) /\ (kind \in bc => z \in C)
    <3>1. CASE z \in If(bad # {}, tableUnknown(q))
      BY <3>1, TableGap DEF If, Kept
    <3>2. ASSUME NEW n \in old \cap new, z \in M(n) PROVE Kept(z, C)
      BY <1>3, <1>5, <3>2 DEF Kept, Right
    <3>3. ASSUME NEW n \in new \ old, z \in oneSidedColumn("add", q, q, n)
          PROVE  Kept(z, C) \/ \E kind, t, m : z = Change("add", kind, t, m) /\ (kind \in ac => z \in C)
      <4>1. CASE Gap(z)
        BY <4>1 DEF Gap, Kept
      <4>2. CASE z = Change("add", "column", q.name, n)
        <5>1. "column" \in ac => z \in C
          BY <1>2, <1>5, <1>6, <4>2
        <5> QED BY <4>2, <5>1
      <4> QED BY <3>3, <4>1, <4>2, OneSidedColumnIs
    <3>4. ASSUME NEW n \in old \ new, z \in oneSidedColumn("drop", p, q, n)
          PROVE  Kept(z, C) \/ \E kind, t, m : z = Change("drop", kind, t, m) /\ (kind \in bc => z \in C)
      <4>1. CASE Gap(z)
        BY <4>1 DEF Gap, Kept
      <4>2. CASE z = Change("drop", "column", q.name, n)
        <5>1. "column" \in bc => z \in C
          BY <1>2, <1>5, <1>6, <4>2
        <5> QED BY <4>2, <5>1
      <4> QED BY <3>4, <4>1, <4>2, OneSidedColumnIs
    <3>5. \/ z \in If(bad # {}, tableUnknown(q)) \/ \E n \in old \cap new : z \in M(n)
          \/ \E n \in new \ old : z \in oneSidedColumn("add", q, q, n)
          \/ \E n \in old \ new : z \in oneSidedColumn("drop", p, q, n)
      BY <1>1, <2>1, Zenon
    <3> HIDE DEF bad
    <3> QED BY <3>1, <3>2, <3>3, <3>4, <3>5, Zenon
  <2> QED BY <2>1, DemotedRight
<1>8. ASSUME Gapless(S), "column" \in ac, "column" \in bc PROVE C \subseteq S
  <2>1. bad = {}
    <3>1. ASSUME bad # {} PROVE FALSE
      <4>1. tableUnknown(q) \subseteq D
        BY <1>1, <3>1 DEF If
      <4>2. comparisonUnknown("table", q.name, None) \in D
        BY <4>1 DEF tableUnknown
      <4>3. comparisonUnknown("table", q.name, None).op \notin {"add", "drop"}
        BY StepsAre
      <4> QED BY <1>8, <4>2, <4>3, DemotedGapless, StepsAre
    <3> QED BY <3>1
  <2>2. old = DOMAIN X /\ new = DOMAIN Y
    BY <1>2, <1>8, <2>1 DEF old, new
  <2>3. ASSUME NEW n \in DOMAIN Y \ DOMAIN X PROVE Change("add", "column", q.name, n) \in S
    <3>0. n \in new \ old
      BY <2>2
    <3>1. Change("add", "column", q.name, n) \in D
      <4>1. oneSidedColumn("add", q, q, n) \subseteq D
        BY <1>1, <3>0
      <4> QED BY <4>1, OneSidedColumnIs
    <3> QED BY <1>8, <3>1, DemotedGapless
  <2>4. ASSUME NEW n \in DOMAIN X \ DOMAIN Y PROVE Change("drop", "column", q.name, n) \in S
    <3>0. n \in old \ new
      BY <2>2
    <3>1. Change("drop", "column", q.name, n) \in D
      <4>1. oneSidedColumn("drop", p, q, n) \subseteq D
        BY <1>1, <3>0
      <4> QED BY <4>1, OneSidedColumnIs
    <3> QED BY <1>8, <3>1, DemotedGapless
  <2>5. ASSUME NEW n \in DOMAIN X \cap DOMAIN Y PROVE A(n) \subseteq S
    <3>1. n \in old \cap new /\ M(n) \subseteq D
      BY <1>1, <2>2
    <3>2. \A z \in M(n) : z.op \notin {"add", "drop"}
      BY <1>3, <3>1
    <3>3. Gapless(M(n)) /\ M(n) \subseteq S
      BY <1>8, <3>1, <3>2, DemotedGapless DEF Gapless
    <3> QED BY <1>3, <3>1, <3>3
  <2> QED BY <1>5, <2>3, <2>4, <2>5
<1> QED BY <1>7, <1>8 DEF S, D, C, X, Y

\* Both tables declare an index they both name with its extended attributes, or
\* both without.
Styled(p, q) ==
  \A i \in Items(p.indexes), j \in Items(q.indexes) :
    i.name = j.name => (i.extended = None <=> j.extended = None)
Extended(t) == \A i \in Items(t.indexes) : i.extended # None

\* An index that both declare, likewise; where extended attributes are declared,
\* so is the text they are compared with.
LEMMA IndexMatched ==
  ASSUME NEW p, NEW q, Whole(p), Whole(q), NEW x, NEW y, NEW ac, NEW bc,
         TrueTable(p, x, ac), TrueTable(q, y, bc), Styled(p, q),
         NEW n \in Names(p.indexes) \cap Names(q.indexes)
  PROVE  LET S == matchedIndex(p, q, n)
             A == Altered("index", q.name, n, x["index"][n], y["index"][n]) IN
         /\ n \in DOMAIN x["index"] \cap DOMAIN y["index"]
         /\ \A z \in S : z.op \notin {"add", "drop"}
         /\ Right(S, A)
         /\ Gapless(S) /\ Extended(p) /\ Extended(q) => A \subseteq S
<1> DEFINE c == The(p.indexes, n)
           d == The(q.indexes, n)
           u == x["index"][n]
           v == y["index"][n]
           A == Altered("index", q.name, n, u, v)
           S == matchedIndex(p, q, n)
           alter == Change("alter", "index", q.name, n)
           gap == comparisonUnknown("index", q.name, n)
<1>1. Listed(p.indexes) /\ Listed(q.indexes)
  BY WholeIs
<1>2. c \in Items(p.indexes) /\ c.name = n /\ d \in Items(q.indexes) /\ d.name = n
  BY <1>1, NamedIs
<1>3. S = IF validIndex(c, p) /\ validIndex(d, q) THEN diffIndex(q, c, d) ELSE {gap}
  BY DEF matchedIndex
<1> HIDE DEF c, d
<1>4. /\ n \in DOMAIN x["index"] \cap DOMAIN y["index"]
      /\ validIndex(c, p) => TrueIndex(c, u)
      /\ validIndex(d, q) => TrueIndex(d, v)
  <2>1. /\ Names(p.indexes) \subseteq DOMAIN x["index"]
        /\ \A i \in Items(p.indexes) : validIndex(i, p) => TrueIndex(i, x["index"][i.name])
    BY TrueIs
  <2>2. /\ Names(q.indexes) \subseteq DOMAIN y["index"]
        /\ \A i \in Items(q.indexes) : validIndex(i, q) => TrueIndex(i, y["index"][i.name])
    BY TrueIs
  <2> QED BY <1>2, <2>1, <2>2
<1>5. A = If(u # v, {alter})
  BY DEF Altered
<1>6. /\ alter.op \notin {"add", "drop"} /\ alter.unknown = FALSE
      /\ gap.op = "unsupported" /\ gap.unknown = TRUE
  BY NotAbsence, StepsAre
<1> HIDE DEF u, v, A, S, alter, gap
<1>7. CASE ~(validIndex(c, p) /\ validIndex(d, q))
  <2>1. S = {gap}
    BY <1>3, <1>7
  <2> QED BY <1>4, <1>6, <2>1 DEF Right, Gapless, A, S, u, v
<1>8. CASE validIndex(c, p) /\ validIndex(d, q)
  <2>1. TrueIndex(c, u) /\ TrueIndex(d, v) /\ (c.extended = None <=> d.extended = None)
    BY <1>2, <1>4, <1>8 DEF Styled
  <2>2. S = IF ~equalIndex(c, d) THEN {alter}
            ELSE If("" \notin {c.raw, d.raw} /\ c.raw # d.raw, {gap})
    BY <1>2, <1>3, <1>8 DEF diffIndex, alter, gap
  <2>3. CASE ~equalIndex(c, d)
    <3>1. u # v
      BY <2>1, <2>3 DEF TrueIndex, equalIndex
    <3>2. S = {alter} /\ A = {alter}
      BY <1>5, <2>2, <2>3, <3>1 DEF If
    <3> QED BY <1>4, <1>6, <3>2 DEF Right, A, S, u, v
  <2>4. CASE equalIndex(c, d)
    <3>1. S = If("" \notin {c.raw, d.raw} /\ c.raw # d.raw, {gap})
      BY <2>2, <2>4
    <3>2. Right(S, A) /\ \A z \in S : z.op \notin {"add", "drop"}
      BY <1>6, <3>1 DEF Right, If
    <3>3. ASSUME Gapless(S), Extended(p), Extended(q) PROVE A = {}
      <4>1. c.extended # None /\ d.extended # None
        BY <1>2, <3>3 DEF Extended
      <4>2. ~("" \notin {c.raw, d.raw} /\ c.raw # d.raw)
        BY <1>6, <3>1, <3>3 DEF Gapless, If
      <4>3. u.text = v.text
        BY <2>1, <4>1, <4>2 DEF TrueIndex
      <4>4. u = v
        BY <2>1, <2>4, <4>1, <4>3 DEF TrueIndex, equalIndex
      <4> QED BY <1>5, <4>4 DEF If
    <3> QED BY <1>4, <3>2, <3>3 DEF A, S, u, v
  <2> QED BY <2>3, <2>4
<1> QED BY <1>7, <1>8

\* The steps of a one-sided index.
LEMMA OneSidedIndexIs ==
  ASSUME NEW op, NEW t, NEW name, Whole(t), NEW n \in Names(t.indexes)
  PROVE  LET S == oneSidedIndex(op, t, name, n) IN
         /\ \A z \in S : Gap(z) \/ z = Change(op, "index", name, n)
         /\ (\A z \in S : ~Gap(z)) => Change(op, "index", name, n) \in S
<1> DEFINE S == oneSidedIndex(op, t, name, n)
           gap == comparisonUnknown("index", name, n)
           ch == Change(op, "index", name, n)
           i == The(t.indexes, n)
<1>1. S = If(~validIndex(i, t), {gap}) \cup If(Count(t.indexes, n) = 1, {ch})
  BY DEF oneSidedIndex
<1>2. Gap(gap)
  BY StepsAre DEF Gap
<1>3. i.name = n
  BY WholeIs, NamedIs
<1> HIDE DEF gap, ch, i, S
<1>4. validIndex(i, t) => Count(t.indexes, n) = 1
  BY <1>3 DEF validIndex
<1>5. \A z \in S : Gap(z) \/ z = ch
  BY <1>1, <1>2 DEF If
<1>6. (\A z \in S : ~Gap(z)) => ch \in S
  BY <1>1, <1>2, <1>4 DEF If
<1> QED BY <1>5, <1>6 DEF S, ch

\* The indexes, likewise.
LEMMA IndexesCompared ==
  ASSUME NEW p, NEW q, Whole(p), Whole(q), NEW x, NEW y, NEW ac, NEW bc, NEW scope,
         TrueTable(p, x, ac), TrueTable(q, y, bc), Styled(p, q)
  PROVE  LET S == Demoted(diffIndexes(p, q), scope, ac, bc)
             C == ChangedMembers("index", q.name, x["index"], y["index"]) IN
         /\ Right(S, C)
         /\ Gapless(S) /\ Extended(p) /\ Extended(q) /\ "index" \in ac /\ "index" \in bc => C \subseteq S
<1> DEFINE D == diffIndexes(p, q)
           S == Demoted(D, scope, ac, bc)
           X == x["index"]
           Y == y["index"]
           C == ChangedMembers("index", q.name, X, Y)
           old == Names(p.indexes)
           new == Names(q.indexes)
           M(n) == matchedIndex(p, q, n)
           A(n) == Altered("index", q.name, n, X[n], Y[n])
           O(n) == oneSidedIndex("add", q, q.name, n)
           P(n) == oneSidedIndex("drop", p, q.name, n)
<1>1. \A z : z \in D <=> \/ \E n \in old \cap new : z \in M(n)
                         \/ \E n \in new \ old : z \in O(n)
                         \/ \E n \in old \ new : z \in P(n)
  <2> DEFINE T1 == UNION {M(n) : n \in old \cap new}
             T2 == UNION {O(n) : n \in new \ old}
             T3 == UNION {P(n) : n \in old \ new}
  <2>1. D = T1 \cup T2 \cup T3
    BY DEF diffIndexes
  <2> HIDE DEF D, M, O, P, old, new
  <2>2. /\ \A z : z \in T1 <=> \E n \in old \cap new : z \in M(n)
        /\ \A z : z \in T2 <=> \E n \in new \ old : z \in O(n)
        /\ \A z : z \in T3 <=> \E n \in old \ new : z \in P(n)
    OBVIOUS
  <2>3. \A z : z \in D <=> z \in T1 \/ z \in T2 \/ z \in T3
    <3> HIDE DEF T1, T2, T3
    <3> QED BY <2>1
  <2> HIDE DEF T1, T2, T3
  <2> QED BY <2>2, <2>3
<1>2. /\ old \subseteq DOMAIN X /\ new \subseteq DOMAIN Y
      /\ "index" \in ac => old = DOMAIN X
      /\ "index" \in bc => new = DOMAIN Y
  BY TrueIs
<1>3. ASSUME NEW n \in old \cap new
      PROVE  /\ n \in DOMAIN X \cap DOMAIN Y
             /\ \A z \in M(n) : z.op \notin {"add", "drop"}
             /\ Right(M(n), A(n))
             /\ Gapless(M(n)) /\ Extended(p) /\ Extended(q) => A(n) \subseteq M(n)
  BY IndexMatched
<1>4. /\ \A n \in DOMAIN Y \ DOMAIN X : Change("add", "index", q.name, n) \in C
      /\ \A n \in DOMAIN X \ DOMAIN Y : Change("drop", "index", q.name, n) \in C
      /\ \A n \in DOMAIN X \cap DOMAIN Y : A(n) \subseteq C
      /\ \A z \in C :
              \/ \E n \in DOMAIN Y \ DOMAIN X : z = Change("add", "index", q.name, n)
              \/ \E n \in DOMAIN X \ DOMAIN Y : z = Change("drop", "index", q.name, n)
              \/ \E n \in DOMAIN X \cap DOMAIN Y : z \in A(n)
  <2> HIDE DEF X, Y
  <2> QED BY MembersAre
<1>5. ASSUME NEW n \in new
      PROVE  /\ \A z \in O(n) : Gap(z) \/ z = Change("add", "index", q.name, n)
             /\ (\A z \in O(n) : ~Gap(z)) => Change("add", "index", q.name, n) \in O(n)
  BY OneSidedIndexIs
<1>6. ASSUME NEW n \in old
      PROVE  /\ \A z \in P(n) : Gap(z) \/ z = Change("drop", "index", q.name, n)
             /\ (\A z \in P(n) : ~Gap(z)) => Change("drop", "index", q.name, n) \in P(n)
  BY OneSidedIndexIs
<1> HIDE DEF D, X, Y, C, old, new, M, A, O, P
<1>7. Right(S, C)
  <2>1. ASSUME NEW z \in D
        PROVE  \/ Kept(z, C)
               \/ \E kind, t, n : z = Change("add", kind, t, n) /\ (kind \in ac => z \in C)
               \/ \E kind, t, n : z = Change("drop", kind, t, n) /\ (kind \in bc => z \in C)
    <3>2. ASSUME NEW n \in old \cap new, z \in M(n) PROVE Kept(z, C)
      BY <1>3, <1>4, <3>2 DEF Kept, Right
    <3>3. ASSUME NEW n \in new \ old, z \in O(n)
          PROVE  Kept(z, C) \/ \E kind, t, m : z = Change("add", kind, t, m) /\ (kind \in ac => z \in C)
      <4>1. CASE Gap(z)
        BY <4>1 DEF Gap, Kept
      <4>2. CASE z = Change("add", "index", q.name, n)
        <5>1. "index" \in ac => z \in C
          BY <1>2, <1>4, <4>2
        <5> QED BY <4>2, <5>1
      <4> QED BY <1>5, <3>3, <4>1, <4>2
    <3>4. ASSUME NEW n \in old \ new, z \in P(n)
          PROVE  Kept(z, C) \/ \E kind, t, m : z = Change("drop", kind, t, m) /\ (kind \in bc => z \in C)
      <4>1. CASE Gap(z)
        BY <4>1 DEF Gap, Kept
      <4>2. CASE z = Change("drop", "index", q.name, n)
        <5>1. "index" \in bc => z \in C
          BY <1>2, <1>4, <4>2
        <5> QED BY <4>2, <5>1
      <4> QED BY <1>6, <3>4, <4>1, <4>2
    <3> QED BY <1>1, <3>2, <3>3, <3>4, Zenon
  <2> QED BY <2>1, DemotedRight
<1>8. ASSUME Gapless(S), Extended(p), Extended(q), "index" \in ac, "index" \in bc PROVE C \subseteq S
  <2>1. old = DOMAIN X /\ new = DOMAIN Y
    BY <1>2, <1>8
  <2>2. \A z \in D : ~Gap(z)
    <3> SUFFICES ASSUME NEW z \in D, Gap(z) PROVE FALSE
      OBVIOUS
    <3>1. z.op \notin {"add", "drop"} /\ z.unknown
      BY DEF Gap
    <3> QED BY <1>8, <3>1, DemotedGapless
  <2>3. ASSUME NEW n \in DOMAIN Y \ DOMAIN X PROVE Change("add", "index", q.name, n) \in S
    <3>1. n \in new \ old
      BY <2>1
    <3>2. \A z \in O(n) : z \in D
      BY <1>1, <3>1
    <3>3. Change("add", "index", q.name, n) \in D
      BY <1>5, <2>2, <3>1, <3>2
    <3> QED BY <1>8, <3>3, DemotedGapless
  <2>4. ASSUME NEW n \in DOMAIN X \ DOMAIN Y PROVE Change("drop", "index", q.name, n) \in S
    <3>1. n \in old \ new
      BY <2>1
    <3>2. \A z \in P(n) : z \in D
      BY <1>1, <3>1
    <3>3. Change("drop", "index", q.name, n) \in D
      BY <1>6, <2>2, <3>1, <3>2
    <3> QED BY <1>8, <3>3, DemotedGapless
  <2>5. ASSUME NEW n \in DOMAIN X \cap DOMAIN Y PROVE A(n) \subseteq S
    <3>1. n \in old \cap new /\ \A z \in M(n) : z \in D
      BY <1>1, <2>1
    <3>2. \A z \in M(n) : z.op \notin {"add", "drop"}
      BY <1>3, <3>1
    <3>3. Gapless(M(n)) /\ M(n) \subseteq S
      BY <1>8, <3>1, <3>2, DemotedGapless DEF Gapless
    <3> QED BY <1>3, <1>8, <3>1, <3>3
  <2> QED BY <1>4, <2>3, <2>4, <2>5
<1> QED BY <1>7, <1>8 DEF S, D, C, X, Y

\* Every constraint of t is declared with its definition and its validation.
Settled(t) == \A c \in Items(Constraints(t)) : ~unsettled(c)

\* A foreign key or check that both declare, likewise.
LEMMA ConstraintMatched ==
  ASSUME NEW p, NEW q, Whole(p), Whole(q), NEW x, NEW y, NEW ac, NEW bc,
         TrueTable(p, x, ac), TrueTable(q, y, bc), NEW kind \in {"foreign_key", "check"},
         NEW n \in Names(ofKind(p, kind)) \cap Names(ofKind(q, kind))
  PROVE  LET S == matchedConstraint(kind, p, q, n)
             A == Altered(kind, q.name, n, x[kind][n], y[kind][n]) IN
         /\ n \in DOMAIN x[kind] \cap DOMAIN y[kind]
         /\ Right(S, A)
         /\ Gapless(S) /\ Settled(p) /\ Settled(q) => A \subseteq S
<1> DEFINE c == The(ofKind(p, kind), n)
           d == The(ofKind(q, kind), n)
           u == x[kind][n]
           v == y[kind][n]
           A == Altered(kind, q.name, n, u, v)
           S == matchedConstraint(kind, p, q, n)
           alter == Change("alter", kind, q.name, n)
           gap == comparisonUnknown(kind, q.name, n)
           good == singleName(p, q, n) /\ validConstraint(c, p) /\ validConstraint(d, q)
<1>1. /\ Listed(ofKind(p, kind)) /\ Items(ofKind(p, kind)) \subseteq Items(Constraints(p)) /\ Listed(Constraints(p))
      /\ Listed(ofKind(q, kind)) /\ Items(ofKind(q, kind)) \subseteq Items(Constraints(q)) /\ Listed(Constraints(q))
  BY WholeIs
<1>2. c \in Items(ofKind(p, kind)) /\ c.name = n /\ d \in Items(ofKind(q, kind)) /\ d.name = n
  BY <1>1, NamedIs
<1>3. S = IF ~good THEN {gap} ELSE If(~equalConstraintValue(c, d), {alter})
  BY DEF matchedConstraint
<1> HIDE DEF c, d
<1>4. n \in DOMAIN x[kind] \cap DOMAIN y[kind] /\ (good => TrueConstraint(c, u) /\ TrueConstraint(d, v))
  <2>1. /\ Names(ofKind(p, kind)) \subseteq DOMAIN x[kind]
        /\ \A i \in Items(ofKind(p, kind)) :
             validConstraint(i, p) /\ Count(Constraints(p), i.name) = 1 => TrueConstraint(i, x[kind][i.name])
    BY TrueIs
  <2>2. /\ Names(ofKind(q, kind)) \subseteq DOMAIN y[kind]
        /\ \A i \in Items(ofKind(q, kind)) :
             validConstraint(i, q) /\ Count(Constraints(q), i.name) = 1 => TrueConstraint(i, y[kind][i.name])
    BY TrueIs
  <2>3. good => Count(Constraints(p), n) = 1 /\ Count(Constraints(q), n) = 1
    BY <1>1, <1>2, OnlyOne DEF singleName
  <2> QED BY <1>2, <2>1, <2>2, <2>3
<1>5. A = If(u # v, {alter})
  BY DEF Altered
<1>6. alter.unknown = FALSE /\ gap.unknown = TRUE
  BY StepsAre
<1> HIDE DEF u, v, A, S, alter, gap, good
<1>7. CASE ~good
  <2>1. S = {gap}
    BY <1>3, <1>7
  <2> QED BY <1>4, <1>6, <2>1 DEF Right, Gapless, A, S, u, v
<1>8. CASE good
  <2>1. TrueConstraint(c, u) /\ TrueConstraint(d, v)
    BY <1>4, <1>8
  <2>2. S = If(~equalConstraintValue(c, d), {alter})
    BY <1>3, <1>8
  <2>3. CASE ~equalConstraintValue(c, d)
    <3>1. u # v
      BY <2>1, <2>3 DEF TrueConstraint, equalConstraintValue
    <3>2. S = {alter} /\ A = {alter}
      BY <1>5, <2>2, <2>3, <3>1 DEF If
    <3> QED BY <1>4, <3>2 DEF Right, A, S, u, v
  <2>4. CASE equalConstraintValue(c, d)
    <3>1. S = {}
      BY <2>2, <2>4 DEF If
    <3>2. ASSUME Settled(p), Settled(q) PROVE A = {}
      <4>1. c.validation # "unknown" /\ d.validation # "unknown"
        BY <1>1, <1>2, <3>2 DEF Settled, unsettled
      <4>2. u = v
        BY <2>1, <2>4, <4>1 DEF TrueConstraint, equalConstraintValue
      <4> QED BY <1>5, <4>2 DEF If
    <3> QED BY <1>4, <3>1, <3>2 DEF Right, A, S, u, v
  <2> QED BY <2>3, <2>4
<1> QED BY <1>7, <1>8

\* The steps of a one-sided constraint.
LEMMA OneSidedConstraintIs ==
  ASSUME NEW op, NEW kind, NEW t, NEW n, NEW name, NEW complete
  PROVE  LET S == oneSidedConstraint(op, kind, t, n, name, complete) IN
         /\ \A z \in S : z.unknown \/ (z = Change(op, kind, name, n) /\ complete)
         /\ Gapless(S) => Change(op, kind, name, n) \in S
<1> DEFINE S == oneSidedConstraint(op, kind, t, n, name, complete)
           gap == comparisonUnknown(kind, name, n)
           ch == Change(op, kind, name, n)
           bad == ~validConstraint(The(ofKind(t, kind), n), t)
<1>1. S = IF ~complete THEN {gap} ELSE If(bad, {gap}) \cup {ch}
  BY DEF oneSidedConstraint
<1>2. gap.unknown = TRUE
  BY StepsAre
<1> HIDE DEF gap, ch, bad, S
<1>3. \A z \in S : z.unknown \/ (z = ch /\ complete)
  BY <1>1, <1>2 DEF If
<1>4. Gapless(S) => ch \in S
  BY <1>1, <1>2 DEF Gapless
<1> QED BY <1>3, <1>4 DEF S, ch

\* The foreign keys, or the checks, likewise.
LEMMA KindCompared ==
  ASSUME NEW p, NEW q, Whole(p), Whole(q), NEW x, NEW y, NEW ac, NEW bc, NEW scope,
         TrueTable(p, x, ac), TrueTable(q, y, bc), NEW kind \in {"foreign_key", "check"}
  PROVE  LET D == diffKind(kind, p, q, scope, ac, bc)
             C == ChangedMembers(kind, q.name, x[kind], y[kind]) IN
         /\ Right(D, C)
         /\ Gapless(D) /\ Settled(p) /\ Settled(q) /\ kind \in ac /\ kind \in bc => C \subseteq D
<1> DEFINE D == diffKind(kind, p, q, scope, ac, bc)
           X == x[kind]
           Y == y[kind]
           C == ChangedMembers(kind, q.name, X, Y)
           old == Names(ofKind(p, kind))
           new == Names(ofKind(q, kind))
           M(n) == matchedConstraint(kind, p, q, n)
           A(n) == Altered(kind, q.name, n, X[n], Y[n])
           O(n) == oneSidedConstraint("add", kind, q, n, q.name, singleName(p, q, n) /\ scope /\ kind \in ac)
           P(n) == oneSidedConstraint("drop", kind, p, n, q.name, singleName(p, q, n) /\ scope /\ kind \in bc)
<1>1. \A z : z \in D <=> \/ \E n \in old \cap new : z \in M(n)
                         \/ \E n \in new \ old : z \in O(n)
                         \/ \E n \in old \ new : z \in P(n)
  <2> DEFINE T1 == UNION {M(n) : n \in old \cap new}
             T2 == UNION {O(n) : n \in new \ old}
             T3 == UNION {P(n) : n \in old \ new}
  <2>1. D = T1 \cup T2 \cup T3
    BY DEF diffKind
  <2> HIDE DEF D, M, O, P, old, new
  <2>2. /\ \A z : z \in T1 <=> \E n \in old \cap new : z \in M(n)
        /\ \A z : z \in T2 <=> \E n \in new \ old : z \in O(n)
        /\ \A z : z \in T3 <=> \E n \in old \ new : z \in P(n)
    OBVIOUS
  <2>3. \A z : z \in D <=> z \in T1 \/ z \in T2 \/ z \in T3
    <3> HIDE DEF T1, T2, T3
    <3> QED BY <2>1
  <2> HIDE DEF T1, T2, T3
  <2> QED BY <2>2, <2>3
<1>2. /\ old \subseteq DOMAIN X /\ new \subseteq DOMAIN Y
      /\ kind \in ac => old = DOMAIN X
      /\ kind \in bc => new = DOMAIN Y
  BY TrueIs
<1>3. ASSUME NEW n \in old \cap new
      PROVE  /\ n \in DOMAIN X \cap DOMAIN Y
             /\ Right(M(n), A(n))
             /\ Gapless(M(n)) /\ Settled(p) /\ Settled(q) => A(n) \subseteq M(n)
  BY ConstraintMatched
<1>4. /\ \A n \in DOMAIN Y \ DOMAIN X : Change("add", kind, q.name, n) \in C
      /\ \A n \in DOMAIN X \ DOMAIN Y : Change("drop", kind, q.name, n) \in C
      /\ \A n \in DOMAIN X \cap DOMAIN Y : A(n) \subseteq C
      /\ \A z \in C :
              \/ \E n \in DOMAIN Y \ DOMAIN X : z = Change("add", kind, q.name, n)
              \/ \E n \in DOMAIN X \ DOMAIN Y : z = Change("drop", kind, q.name, n)
              \/ \E n \in DOMAIN X \cap DOMAIN Y : z \in A(n)
  <2> HIDE DEF X, Y
  <2> QED BY MembersAre
<1>5. ASSUME NEW n
      PROVE  /\ \A z \in O(n) : z.unknown \/ (z = Change("add", kind, q.name, n) /\ kind \in ac)
             /\ Gapless(O(n)) => Change("add", kind, q.name, n) \in O(n)
  <2> DEFINE done == singleName(p, q, n) /\ scope /\ kind \in ac
             S == oneSidedConstraint("add", kind, q, n, q.name, done)
  <2>1. S = O(n)
    OBVIOUS
  <2> HIDE DEF done, O
  <2>2. /\ \A z \in S : z.unknown \/ (z = Change("add", kind, q.name, n) /\ done)
        /\ Gapless(S) => Change("add", kind, q.name, n) \in S
    BY OneSidedConstraintIs
  <2> HIDE DEF S
  <2> QED BY <2>1, <2>2 DEF done
<1>6. ASSUME NEW n
      PROVE  /\ \A z \in P(n) : z.unknown \/ (z = Change("drop", kind, q.name, n) /\ kind \in bc)
             /\ Gapless(P(n)) => Change("drop", kind, q.name, n) \in P(n)
  <2> DEFINE done == singleName(p, q, n) /\ scope /\ kind \in bc
             S == oneSidedConstraint("drop", kind, p, n, q.name, done)
  <2>1. S = P(n)
    OBVIOUS
  <2> HIDE DEF done, P
  <2>2. /\ \A z \in S : z.unknown \/ (z = Change("drop", kind, q.name, n) /\ done)
        /\ Gapless(S) => Change("drop", kind, q.name, n) \in S
    BY OneSidedConstraintIs
  <2> HIDE DEF S
  <2> QED BY <2>1, <2>2 DEF done
<1> HIDE DEF D, X, Y, C, old, new, M, A, O, P
<1>7. Right(D, C)
  <2>1. ASSUME NEW z \in D PROVE z.unknown \/ z \in C
    <3>2. ASSUME NEW n \in old \cap new, z \in M(n) PROVE z.unknown \/ z \in C
      BY <1>3, <1>4, <3>2 DEF Right
    <3>3. ASSUME NEW n \in new \ old, z \in O(n) PROVE z.unknown \/ z \in C
      BY <1>2, <1>4, <1>5, <3>3
    <3>4. ASSUME NEW n \in old \ new, z \in P(n) PROVE z.unknown \/ z \in C
      BY <1>2, <1>4, <1>6, <3>4
    <3> QED BY <1>1, <3>2, <3>3, <3>4, Zenon
  <2> QED BY <2>1 DEF Right
<1>8. ASSUME Gapless(D), Settled(p), Settled(q), kind \in ac, kind \in bc PROVE C \subseteq D
  <2>1. old = DOMAIN X /\ new = DOMAIN Y
    BY <1>2, <1>8
  <2>3. ASSUME NEW n \in DOMAIN Y \ DOMAIN X PROVE Change("add", kind, q.name, n) \in D
    <3>1. n \in new \ old
      BY <2>1
    <3>2. \A z \in O(n) : z \in D
      BY <1>1, <3>1
    <3>3. Gapless(O(n))
      BY <1>8, <3>2 DEF Gapless
    <3> QED BY <1>5, <3>2, <3>3
  <2>4. ASSUME NEW n \in DOMAIN X \ DOMAIN Y PROVE Change("drop", kind, q.name, n) \in D
    <3>1. n \in old \ new
      BY <2>1
    <3>2. \A z \in P(n) : z \in D
      BY <1>1, <3>1
    <3>3. Gapless(P(n))
      BY <1>8, <3>2 DEF Gapless
    <3> QED BY <1>6, <3>2, <3>3
  <2>5. ASSUME NEW n \in DOMAIN X \cap DOMAIN Y PROVE A(n) \subseteq D
    <3>1. n \in old \cap new /\ \A z \in M(n) : z \in D
      BY <1>1, <2>1
    <3>2. Gapless(M(n))
      BY <1>8, <3>1 DEF Gapless
    <3> QED BY <1>3, <1>8, <3>1, <3>2
  <2> QED BY <1>4, <2>3, <2>4, <2>5
<1> QED BY <1>7, <1>8 DEF D, C, X, Y

\* Foreign keys and checks together.
LEMMA ConstraintsCompared ==
  ASSUME NEW p, NEW q, Whole(p), Whole(q), NEW x, NEW y, NEW ac, NEW bc, NEW scope,
         TrueTable(p, x, ac), TrueTable(q, y, bc)
  PROVE  LET D == diffConstraints(p, q, scope, ac, bc) IN
         /\ \A z \in D : z.unknown \/ \E kind \in {"foreign_key", "check"} :
                                     z \in ChangedMembers(kind, q.name, x[kind], y[kind])
         /\ Gapless(D) => Settled(p) /\ Settled(q)
         /\ \A kind \in {"foreign_key", "check"} :
              Gapless(D) /\ kind \in ac /\ kind \in bc =>
                ChangedMembers(kind, q.name, x[kind], y[kind]) \subseteq D
<1> DEFINE D == diffConstraints(p, q, scope, ac, bc)
           K(kind) == diffKind(kind, p, q, scope, ac, bc)
           C(kind) == ChangedMembers(kind, q.name, x[kind], y[kind])
           open == \E c \in Items(Constraints(p)) \cup Items(Constraints(q)) : unsettled(c)
<1>1. D = If(open, tableUnknown(q)) \cup K("foreign_key") \cup K("check")
  BY DEF diffConstraints
<1>2. ASSUME NEW kind \in {"foreign_key", "check"}
      PROVE  /\ Right(K(kind), C(kind))
             /\ Gapless(K(kind)) /\ Settled(p) /\ Settled(q) /\ kind \in ac /\ kind \in bc => C(kind) \subseteq K(kind)
  BY KindCompared
<1>3. ~open <=> Settled(p) /\ Settled(q)
  BY DEF Settled
<1> HIDE DEF D, K, C, open
<1>4. Gapless(D) => ~open
  BY <1>1, HasTableGap DEF If
<1>5. ASSUME NEW z \in D PROVE z.unknown \/ \E kind \in {"foreign_key", "check"} : z \in C(kind)
  <2>1. CASE z \in If(open, tableUnknown(q))
    BY <2>1, TableGap DEF If
  <2>2. CASE z \in K("foreign_key")
    BY <1>2, <2>2 DEF Right
  <2>3. CASE z \in K("check")
    BY <1>2, <2>3 DEF Right
  <2> QED BY <1>1, <1>5, <2>1, <2>2, <2>3
<1>7. ASSUME NEW kind \in {"foreign_key", "check"}, Gapless(D), kind \in ac, kind \in bc PROVE C(kind) \subseteq D
  <2>1. K(kind) \subseteq D
    BY <1>1
  <2>2. Gapless(K(kind))
    BY <1>7, <2>1 DEF Gapless
  <2> QED BY <1>2, <1>3, <1>4, <1>7, <2>1, <2>2
<1> QED BY <1>3, <1>4, <1>5, <1>7 DEF D, C

\* Two tables that are taken for the same one.
LEMMA TablesCompared ==
  ASSUME NEW p, NEW q, Whole(p), Whole(q), NEW x, NEW y, NEW a, NEW b,
         TrueTable(p, x, effectiveCoverage(p, a)), TrueTable(q, y, effectiveCoverage(q, b)), Styled(p, q)
  PROVE  LET D == compareTable(p, q, a, b) IN
         /\ \A z \in D : z.unknown \/ \E kind \in Kinds :
                                     z \in ChangedMembers(kind, q.name, x[kind], y[kind])
         /\ Gapless(D) /\ contextCoverageKnown(a) /\ contextCoverageKnown(b) =>
              \A kind \in Kinds : ChangedMembers(kind, q.name, x[kind], y[kind]) \subseteq D
<1> DEFINE scope == sameScope(a, b)
           knownID == inScope(p, a) /\ inScope(q, b)
           legacy == p.namespace = None /\ q.namespace = None
           ac == effectiveCoverage(p, a)
           bc == effectiveCoverage(q, b)
           short == \/ ~knownID \/ ~scope \/ ~coverageKnown(p.covers) \/ ~coverageKnown(q.covers)
                    \/ \E i \in Items(p.indexes) \cup Items(q.indexes) : i.extended = None
                    \/ ambiguousConstraints(p) \/ ambiguousConstraints(q)
           D == compareTable(p, q, a, b)
           T0 == If(short, tableUnknown(q))
           T1 == Demoted(diffColumns(p, q) \cup diffIndexes(p, q), scope, ac, bc)
           T2 == Demoted(diffColumns(p, q), scope, ac, bc)
           T3 == Demoted(diffIndexes(p, q), scope, ac, bc)
           T4 == diffConstraints(p, q, scope, ac, bc)
           C(kind) == ChangedMembers(kind, q.name, x[kind], y[kind])
<1>1. D = IF ~knownID /\ ~legacy THEN tableUnknown(q) ELSE T0 \cup T1 \cup T4
  BY DEF compareTable, Demoted
<1>2. T1 = T2 \cup T3
  BY DEF Demoted
<1>3. Right(T2, C("column")) /\ (Gapless(T2) /\ "column" \in ac /\ "column" \in bc => C("column") \subseteq T2)
  BY ColumnsCompared
<1>4. /\ Right(T3, C("index"))
      /\ Gapless(T3) /\ Extended(p) /\ Extended(q) /\ "index" \in ac /\ "index" \in bc => C("index") \subseteq T3
  BY IndexesCompared
<1>5. /\ \A z \in T4 : z.unknown \/ \E kind \in {"foreign_key", "check"} : z \in C(kind)
      /\ \A kind \in {"foreign_key", "check"} :
           Gapless(T4) /\ kind \in ac /\ kind \in bc => C(kind) \subseteq T4
  <2>1. TrueTable(p, x, ac) /\ TrueTable(q, y, bc)
    OBVIOUS
  <2> HIDE DEF scope, ac, bc
  <2> QED BY <2>1, ConstraintsCompared
<1>6. Kinds = {"column", "index"} \cup {"foreign_key", "check"}
  BY DEF Kinds
<1>7. ~short => coverageKnown(p.covers) /\ coverageKnown(q.covers) /\ Extended(p) /\ Extended(q)
  BY DEF Extended
<1>8. coverageKnown(p.covers) /\ contextCoverageKnown(a) => \A kind \in Kinds : kind \in ac
  BY DEF coverageKnown, contextCoverageKnown, effectiveCoverage, Collections, Kinds
<1>9. coverageKnown(q.covers) /\ contextCoverageKnown(b) => \A kind \in Kinds : kind \in bc
  BY DEF coverageKnown, contextCoverageKnown, effectiveCoverage, Collections, Kinds
<1> HIDE DEF D, T0, T1, T2, T3, T4, C, scope, ac, bc, short, knownID, legacy
<1>10. CASE ~knownID /\ ~legacy
  <2>1. D = tableUnknown(q)
    BY <1>1, <1>10
  <2>2. \A z \in D : z.unknown
    BY <2>1, TableGap
  <2>3. ~Gapless(D)
    BY <2>1, HasTableGap
  <2> QED BY <2>2, <2>3 DEF D, C
<1>11. CASE ~(~knownID /\ ~legacy)
  <2>1. D = T0 \cup T2 \cup T3 \cup T4
    BY <1>1, <1>2, <1>11
  <2>2. ASSUME NEW z \in D PROVE z.unknown \/ \E kind \in Kinds : z \in C(kind)
    <3>1. CASE z \in T0
      BY <3>1, TableGap DEF T0, If
    <3>2. CASE z \in T2
      BY <1>3, <1>6, <3>2 DEF Right
    <3>3. CASE z \in T3
      BY <1>4, <1>6, <3>3 DEF Right
    <3>4. CASE z \in T4
      <4>1. z.unknown \/ \E kind \in {"foreign_key", "check"} : z \in C(kind)
        BY <1>5, <3>4
      <4> QED BY <1>6, <4>1
    <3> QED BY <2>1, <2>2, <3>1, <3>2, <3>3, <3>4
  <2>3. ASSUME Gapless(D), contextCoverageKnown(a), contextCoverageKnown(b), NEW kind \in Kinds
        PROVE  C(kind) \subseteq D
    <3>1. Gapless(T2) /\ Gapless(T3) /\ Gapless(T4) /\ T0 \subseteq D
      BY <2>1, <2>3 DEF Gapless
    <3>2. ~short
      BY <2>3, <3>1, HasTableGap DEF T0, If
    <3>3. kind \in ac /\ kind \in bc /\ Extended(p) /\ Extended(q)
      BY <1>7, <1>8, <1>9, <2>3, <3>2
    <3>4. CASE kind = "column"
      BY <1>3, <2>1, <3>1, <3>3, <3>4
    <3>5. CASE kind = "index"
      BY <1>4, <2>1, <3>1, <3>3, <3>5
    <3>6. CASE kind \in {"foreign_key", "check"}
      BY <1>5, <2>1, <3>1, <3>3, <3>6
    <3> QED BY <1>6, <3>4, <3>5, <3>6
  <2> QED BY <2>2, <2>3 DEF D, C
<1> QED BY <1>10, <1>11

\* Tables that are not taken for the same one, or are without gap.
LEMMA TablesTaken ==
  ASSUME NEW p, NEW q, NEW a, NEW b
  PROVE  LET D == compareTable(p, q, a, b) IN
         /\ \/ inScope(p, a) /\ inScope(q, b)
            \/ p.namespace = None /\ q.namespace = None
            \/ \A z \in D : z.unknown
         /\ Gapless(D) => inScope(p, a) /\ inScope(q, b) /\ Extended(p) /\ Extended(q)
<1> DEFINE knownID == inScope(p, a) /\ inScope(q, b)
           legacy == p.namespace = None /\ q.namespace = None
           short == \/ ~knownID \/ ~sameScope(a, b) \/ ~coverageKnown(p.covers) \/ ~coverageKnown(q.covers)
                    \/ \E i \in Items(p.indexes) \cup Items(q.indexes) : i.extended = None
                    \/ ambiguousConstraints(p) \/ ambiguousConstraints(q)
           D == compareTable(p, q, a, b)
<1>1. CASE ~knownID /\ ~legacy
  <2>1. D = tableUnknown(q)
    BY <1>1 DEF compareTable
  <2> HIDE DEF D
  <2>2. (\A z \in D : z.unknown) /\ ~Gapless(D)
    BY <2>1, TableGap, HasTableGap
  <2> QED BY <2>2 DEF D
<1>2. CASE ~(~knownID /\ ~legacy)
  <2>1. If(short, tableUnknown(q)) \subseteq D
    BY <1>2 DEF compareTable
  <2> HIDE DEF D
  <2>2. ASSUME Gapless(D) PROVE ~short
    <3> HIDE DEF short
    <3> QED BY <2>1, <2>2, HasTableGap DEF If
  <2>3. ~short => knownID /\ Extended(p) /\ Extended(q)
    BY DEF Extended
  <2> QED BY <1>2, <2>2, <2>3 DEF D
<1> QED BY <1>1, <1>2

\* The tables that go by one key.
LEMMA PlacesAre ==
  ASSUME NEW s, Listed(s.tables), NEW k
  PROVE  /\ Cardinality(places(s, k)) \in Nat
         /\ k \in keys(s) => Cardinality(places(s, k)) >= 1
         /\ Cardinality(places(s, k)) = 1 =>
              /\ firstOf(s, k) \in Items(s.tables) /\ objectTableKey(firstOf(s, k)) = k
              /\ \A t \in Items(s.tables) : objectTableKey(t) = k => t = firstOf(s, k)
<1> DEFINE f == s.tables
           I == places(s, k)
<1>1. DOMAIN f = 1..Len(f) /\ Len(f) \in Nat
  BY DEF Listed
<1>2. IsFiniteSet(I)
  <2>1. IsFiniteSet(1..Len(f))
    BY <1>1, FS_Interval
  <2>2. I \subseteq 1..Len(f)
    BY <1>1 DEF places
  <2> QED BY <2>1, <2>2, FS_Subset
<1>3. Cardinality(I) \in Nat /\ (Cardinality(I) = 0 <=> I = {}) /\ (Cardinality(I) = 1 <=> \E i : I = {i})
  BY <1>2, FS_CardinalityType, FS_EmptySet, FS_Singleton
<1>4. \A i : i \in I <=> i \in DOMAIN f /\ objectTableKey(f[i]) = k
  BY DEF places
<1>5. ASSUME k \in keys(s) PROVE Cardinality(I) >= 1
  <2>1. \E i \in DOMAIN f : objectTableKey(f[i]) = k
    BY <1>5 DEF keys, Items
  <2>2. I # {}
    BY <1>4, <2>1
  <2> QED BY <1>3, <2>2
<1>6. ASSUME Cardinality(I) = 1
      PROVE  /\ firstOf(s, k) \in Items(f) /\ objectTableKey(firstOf(s, k)) = k
             /\ \A t \in Items(f) : objectTableKey(t) = k => t = firstOf(s, k)
  <2>1. PICK i : I = {i}
    BY <1>3, <1>6
  <2>2. i \in DOMAIN f /\ i \in Nat /\ objectTableKey(f[i]) = k
    BY <1>1, <1>4, <2>1
  <2>3. (CHOOSE j \in I : \A m \in I : j <= m) = i
    BY <2>1, <2>2
  <2>4. firstOf(s, k) = f[i]
    BY <2>3 DEF firstOf
  <2>5. \A t \in Items(f) : objectTableKey(t) = k => t = f[i]
    BY <1>4, <2>1 DEF Items
  <2> QED BY <2>2, <2>4, <2>5 DEF Items
<1> QED BY <1>3, <1>5, <1>6

\* A key has one name, and a name in scope one key.
LEMMA KeysAre ==
  /\ \A t, u : objectTableKey(t) = objectTableKey(u) => t.name = u.name
  /\ \A t, u, a, b : inScope(t, a) /\ inScope(u, b) /\ sameScope(a, b) /\ t.name = u.name =>
       objectTableKey(t) = objectTableKey(u)
BY DEF objectTableKey, inScope, sameScope

\* What is reported of a one-sided table besides its absence is gaps.
LEMMA Diagnostics ==
  ASSUME NEW t, NEW z \in extendedTableDiagnostics(t) PROVE z.unknown
<1>1. \/ z \in tableUnknown(t) \/ \E c \in Items(t.columns) : z \in unknownDefault(t, c)
      \/ \E i \in Items(t.indexes) : z = comparisonUnknown("index", t.name, i.name)
  BY DEF extendedTableDiagnostics, If
<1>2. CASE z \in tableUnknown(t)
  BY <1>2, TableGap
<1>3. ASSUME NEW c \in Items(t.columns), z \in unknownDefault(t, c) PROVE z.unknown
  <2>1. z = comparisonUnknown("column", t.name, c.name)
    BY <1>3 DEF unknownDefault, If
  <2> QED BY <2>1, StepsAre
<1>4. ASSUME NEW i \in Items(t.indexes), z = comparisonUnknown("index", t.name, i.name) PROVE z.unknown
  BY <1>4, StepsAre
<1> QED BY <1>1, <1>2, <1>3, <1>4

\* The steps of a one-sided table.
LEMMA OneSidedTableIs ==
  ASSUME NEW op, NEW own, NEW other, NEW k
  PROVE  LET D == oneSidedTable(op, own, other, k)
             t == firstOf(own, k)
             absent == tableAbsent(t, own.context, other.context, places(own, k)) IN
         /\ \A z \in D : z.unknown \/ (z = Change(op, "table", t.name, None) /\ absent)
         /\ Gapless(D) => absent /\ Change(op, "table", t.name, None) \in D
<1> DEFINE D == oneSidedTable(op, own, other, k)
           t == firstOf(own, k)
           absent == tableAbsent(t, own.context, other.context, places(own, k))
           ch == Change(op, "table", t.name, None)
           gap == comparisonUnknown("table", t.name, None)
           E == extendedTableDiagnostics(t)
<1>1. D = {IF absent THEN ch ELSE gap} \cup E
  BY DEF oneSidedTable
<1>2. gap.unknown = TRUE
  BY StepsAre
<1>3. \A z \in E : z.unknown
  BY Diagnostics
<1> HIDE DEF D, t, absent, ch, gap, E
<1>4. \A z \in D : z.unknown \/ (z = ch /\ absent)
  BY <1>1, <1>2, <1>3
<1>5. Gapless(D) => absent /\ ch \in D
  BY <1>1, <1>2 DEF Gapless
<1> QED BY <1>4, <1>5 DEF D, ch, absent, t

\* The changes between two schemas.
LEMMA ChangesAre ==
  ASSUME NEW r, NEW s, NEW scope, NEW z
  PROVE  z \in Changes(r, s, scope) <=>
           \/ r.namespace # s.namespace /\ z = Change("identity_difference", "schema", None, None)
           \/ \E t \in (DOMAIN s.tables \cap scope) \ DOMAIN r.tables : z = Change("add", "table", t, None)
           \/ \E t \in (DOMAIN r.tables \cap scope) \ DOMAIN s.tables : z = Change("drop", "table", t, None)
           \/ \E t \in DOMAIN r.tables \cap DOMAIN s.tables \cap scope : \E kind \in Kinds :
                z \in ChangedMembers(kind, t, r.tables[t][kind], s.tables[t][kind])
<1> DEFINE old == DOMAIN r.tables \cap scope
           new == DOMAIN s.tables \cap scope
           M(kind, t) == ChangedMembers(kind, t, r.tables[t][kind], s.tables[t][kind])
           T0 == If(r.namespace # s.namespace, {Change("identity_difference", "schema", None, None)})
           T1 == {Change("add", "table", t, None) : t \in new \ old}
           T2 == {Change("drop", "table", t, None) : t \in old \ new}
           T3 == UNION {M(kind, t) : kind \in Kinds, t \in old \cap new}
<1>1. Changes(r, s, scope) = T0 \cup T1 \cup T2 \cup T3
  BY DEF Changes
<1>2. z \in T0 <=> r.namespace # s.namespace /\ z = Change("identity_difference", "schema", None, None)
  BY DEF If
<1>3. z \in T3 <=> \E t \in old \cap new : \E kind \in Kinds : z \in M(kind, t)
  <2> HIDE DEF M, old, new
  <2> QED OBVIOUS
<1>4. /\ z \in T1 <=> \E t \in new \ old : z = Change("add", "table", t, None)
      /\ z \in T2 <=> \E t \in old \ new : z = Change("drop", "table", t, None)
  <2> HIDE DEF old, new
  <2> QED OBVIOUS
<1>5. new \ old = new \ DOMAIN r.tables /\ old \ new = old \ DOMAIN s.tables
      /\ old \cap new = DOMAIN r.tables \cap DOMAIN s.tables \cap scope
  OBVIOUS
<1> HIDE DEF T0, T1, T2, T3, M
<1>6. z \in Changes(r, s, scope) <=> z \in T0 \/ z \in T1 \/ z \in T2 \/ z \in T3
  BY <1>1
<1> QED BY <1>2, <1>3, <1>4, <1>5, <1>6 DEF M

\* The steps of the contexts.
LEMMA ContextsAre ==
  ASSUME NEW a, NEW b
  PROVE  LET S == compareContexts(a, b) IN
         /\ \A z \in S : z.unknown \/ (/\ contextKnown(a) /\ contextKnown(b)
                                       /\ a.namespace # b.namespace \/ a.dialect # b.dialect
                                       /\ z = Change("identity_difference", "schema", None, None))
         /\ Gapless(S) => /\ sameScope(a, b) /\ inventoryComplete(a) /\ inventoryComplete(b)
                          /\ contextCoverageKnown(a) /\ contextCoverageKnown(b)
<1> DEFINE S == compareContexts(a, b)
           gap == comparisonUnknown("schema", None, None)
           ch == Change("identity_difference", "schema", None, None)
           known == /\ sameScope(a, b) /\ inventoryComplete(a) /\ inventoryComplete(b)
                    /\ contextCoverageKnown(a) /\ contextCoverageKnown(b)
           other == /\ contextKnown(a) /\ contextKnown(b)
                    /\ a.namespace # b.namespace \/ a.dialect # b.dialect
<1>1. S = If(~known, {gap}) \cup If(other, {ch})
  BY DEF compareContexts, If
<1>2. gap.unknown = TRUE
  BY StepsAre
<1> HIDE DEF S, gap, ch, known, other
<1>3. \A z \in S : z.unknown \/ (other /\ z = ch)
  BY <1>1, <1>2 DEF If
<1>4. Gapless(S) => known
  BY <1>1, <1>2 DEF If, Gapless
<1> QED BY <1>3, <1>4 DEF S, ch, known, other

\* A table of k in b, compared or not.
LEMMA DesiredIs ==
  ASSUME NEW a, NEW b, NEW k
  PROVE  LET D == desiredTable(a, b, k)
             single == ~(Cardinality(places(a, k)) > 1 \/ Cardinality(places(b, k)) # 1) IN
         /\ ~single => (\A z \in D : z.unknown) /\ ~Gapless(D)
         /\ single /\ k \in keys(a) => D = compareTable(firstOf(a, k), firstOf(b, k), a.context, b.context)
         /\ single /\ k \notin keys(a) => D = oneSidedTable("add", b, a, k)
<1> DEFINE D == desiredTable(a, b, k)
           single == ~(Cardinality(places(a, k)) > 1 \/ Cardinality(places(b, k)) # 1)
<1>1. D = IF ~single THEN tableUnknown(firstOf(b, k))
          ELSE IF k \in keys(a) THEN compareTable(firstOf(a, k), firstOf(b, k), a.context, b.context)
          ELSE oneSidedTable("add", b, a, k)
  BY DEF desiredTable
<1> HIDE DEF D, single
<1>2. ASSUME ~single PROVE (\A z \in D : z.unknown) /\ ~Gapless(D)
  <2>1. D = tableUnknown(firstOf(b, k))
    BY <1>1, <1>2
  <2> QED BY <2>1, TableGap, HasTableGap
<1>3. /\ single /\ k \in keys(a) => D = compareTable(firstOf(a, k), firstOf(b, k), a.context, b.context)
      /\ single /\ k \notin keys(a) => D = oneSidedTable("add", b, a, k)
  BY <1>1
<1> QED BY <1>2, <1>3 DEF D, single

\* The steps of a comparison.
LEMMA DiffIs ==
  ASSUME NEW a, NEW b, NEW z
  PROVE  z \in DiffSchemas(a, b) <=>
           \/ z \in compareContexts(a.context, b.context)
           \/ \E k \in keys(b) : z \in desiredTable(a, b, k)
           \/ \E k \in keys(a) \ keys(b) : z \in oneSidedTable("drop", a, b, k)
<1> DEFINE T0 == compareContexts(a.context, b.context)
           T1 == UNION {desiredTable(a, b, k) : k \in keys(b)}
           T2 == UNION {oneSidedTable("drop", a, b, k) : k \in keys(a) \ keys(b)}
<1>1. DiffSchemas(a, b) = T0 \cup T1 \cup T2
  BY DEF DiffSchemas
<1>2. /\ z \in T1 <=> \E k \in keys(b) : z \in desiredTable(a, b, k)
      /\ z \in T2 <=> \E k \in keys(a) \ keys(b) : z \in oneSidedTable("drop", a, b, k)
  OBVIOUS
<1> HIDE DEF T0, T1, T2
<1>3. z \in DiffSchemas(a, b) <=> z \in T0 \/ z \in T1 \/ z \in T2
  BY <1>1
<1> QED BY <1>2, <1>3 DEF T0

\* Both declare with the same means (SameStyle, of any two declarations).
Alike(a, b) ==
  \A t \in Items(a.tables), u \in Items(b.tables) :
    t.name = u.name => objectTableKey(t) = objectTableKey(u) /\ Styled(t, u)

\* What a truthful declaration says.
LEMMA TruthIs ==
  ASSUME NEW a, NEW r, Truthful(a, r)
  PROVE  /\ Listed(a.tables)
         /\ contextKnown(a.context) => <<a.context.dialect, a.context.namespace>> = r.namespace
         /\ inventoryComplete(a.context) => DOMAIN r.tables \cap a.context.scope \subseteq Names(a.tables)
         /\ \A t \in Items(a.tables) : Whole(t)
         /\ \A t \in Items(a.tables) : Believed(t, a) =>
              /\ t.name \in DOMAIN r.tables
              /\ TrueTable(t, r.tables[t.name], effectiveCoverage(t, a.context))
BY DEF Truthful, Listed, Whole

\* A table that one side declares and the other is known to lack.
LEMMA AbsentIs ==
  ASSUME NEW a, NEW b, NEW r, NEW s, Truthful(a, r), Truthful(b, s), NEW k, k \notin keys(b),
         \A t \in Items(a.tables), u \in Items(b.tables) : t.name = u.name => objectTableKey(t) = objectTableKey(u),
         tableAbsent(firstOf(a, k), a.context, b.context, places(a, k))
  PROVE  LET t == firstOf(a, k) IN
         /\ t \in Items(a.tables) /\ Believed(t, a)
         /\ t.name \in DOMAIN r.tables /\ t.name \notin DOMAIN s.tables
<1> DEFINE t == firstOf(a, k)
<1>1. Cardinality(places(a, k)) = 1 /\ sameScope(a.context, b.context) /\ inventoryComplete(b.context) /\ inScope(t, a.context)
  BY DEF tableAbsent
<1>2. t \in Items(a.tables) /\ objectTableKey(t) = k
  BY <1>1, PlacesAre, TruthIs
<1> HIDE DEF t
<1>3. Believed(t, a)
  BY <1>1, <1>2 DEF Believed
<1>4. t.name \in DOMAIN r.tables
  BY <1>2, <1>3, TruthIs
<1>5. ASSUME t.name \in DOMAIN s.tables PROVE FALSE
  <2>1. t.name \in b.context.scope
    BY <1>1 DEF inScope, sameScope
  <2>2. t.name \in Names(b.tables)
    BY <1>1, <1>5, <2>1, TruthIs
  <2>3. PICK u \in Items(b.tables) : u.name = t.name
    BY <2>2 DEF Names
  <2>4. objectTableKey(u) = k
    BY <1>2, <2>3
  <2> QED BY <2>3, <2>4 DEF keys
<1> QED BY <1>2, <1>3, <1>4, <1>5 DEF t

\* Nothing that is reported as a change is none.
LEMMA NothingInvented ==
  ASSUME NEW a, NEW b, NEW r, NEW s, Truthful(a, r), Truthful(b, s), Alike(a, b), NEW scope,
         \A t \in Items(a.tables) : Believed(t, a) => t.name \in scope,
         \A t \in Items(b.tables) : Believed(t, b) => t.name \in scope
  PROVE  Right(DiffSchemas(a, b), Changes(r, s, scope))
<1> DEFINE C == Changes(r, s, scope)
<1>1. SUFFICES ASSUME NEW z \in DiffSchemas(a, b) PROVE z.unknown \/ z \in C
  BY DEF Right
<1> HIDE DEF C
<1>2. ASSUME z \in compareContexts(a.context, b.context) PROVE z.unknown \/ z \in C
  <2>1. CASE z.unknown
    BY <2>1
  <2>2. CASE ~z.unknown
    <3>1. /\ contextKnown(a.context) /\ contextKnown(b.context)
          /\ a.context.namespace # b.context.namespace \/ a.context.dialect # b.context.dialect
          /\ z = Change("identity_difference", "schema", None, None)
      BY <1>2, <2>2, ContextsAre
    <3>2. r.namespace # s.namespace
      BY <3>1, TruthIs
    <3> QED BY <3>1, <3>2, ChangesAre DEF C
  <2> QED BY <2>1, <2>2
<1>3. ASSUME NEW k \in keys(b), z \in desiredTable(a, b, k) PROVE z.unknown \/ z \in C
  <2> DEFINE single == ~(Cardinality(places(a, k)) > 1 \/ Cardinality(places(b, k)) # 1)
             p == firstOf(a, k)
             q == firstOf(b, k)
  <2>1. CASE ~single
    BY <1>3, <2>1, DesiredIs
  <2>2. CASE single /\ k \notin keys(a)
    <3>1. z \in oneSidedTable("add", b, a, k)
      BY <1>3, <2>2, DesiredIs
    <3>2. CASE z.unknown
      BY <3>2
    <3>3. CASE ~z.unknown
      <4>1. z = Change("add", "table", q.name, None) /\ tableAbsent(q, b.context, a.context, places(b, k))
        BY <3>1, <3>3, OneSidedTableIs
      <4>2. \A t \in Items(b.tables), u \in Items(a.tables) : t.name = u.name => objectTableKey(t) = objectTableKey(u)
        BY DEF Alike
      <4>3. q \in Items(b.tables) /\ Believed(q, b) /\ q.name \in DOMAIN s.tables /\ q.name \notin DOMAIN r.tables
        BY <2>2, <4>1, <4>2, AbsentIs
      <4> HIDE DEF q
      <4>4. q.name \in (DOMAIN s.tables \cap scope) \ DOMAIN r.tables
        BY <4>3
      <4> QED BY <4>1, <4>4, ChangesAre DEF C
    <3> QED BY <3>2, <3>3
  <2>3. CASE single /\ k \in keys(a)
    <3> DEFINE T == compareTable(p, q, a.context, b.context)
    <3>1. z \in T
      BY <1>3, <2>3, DesiredIs
    <3>2. Listed(a.tables) /\ Listed(b.tables)
      BY TruthIs
    <3>3. Cardinality(places(a, k)) = 1 /\ Cardinality(places(b, k)) = 1
      BY <2>3, <3>2, PlacesAre
    <3>4. /\ p \in Items(a.tables) /\ objectTableKey(p) = k
          /\ q \in Items(b.tables) /\ objectTableKey(q) = k
      BY <3>2, <3>3, PlacesAre
    <3> HIDE DEF p, q, single
    <3>5. CASE z.unknown
      BY <3>5
    <3>6. CASE ~z.unknown
      <4>1. Believed(p, a) /\ Believed(q, b)
        BY <3>1, <3>3, <3>4, <3>6, TablesTaken DEF Believed
      <4>2. p.name = q.name
        BY <3>4, KeysAre
      <4>3. /\ p.name \in DOMAIN r.tables /\ p.name \in scope
            /\ q.name \in DOMAIN s.tables
            /\ TrueTable(p, r.tables[q.name], effectiveCoverage(p, a.context))
            /\ TrueTable(q, s.tables[q.name], effectiveCoverage(q, b.context))
            /\ Whole(p) /\ Whole(q) /\ Styled(p, q)
        BY <3>4, <4>1, <4>2, TruthIs DEF Alike
      <4>4. \E kind \in Kinds : z \in ChangedMembers(kind, q.name, r.tables[q.name][kind], s.tables[q.name][kind])
        BY <3>1, <3>6, <4>3, TablesCompared
      <4>5. q.name \in DOMAIN r.tables \cap DOMAIN s.tables \cap scope
        BY <4>2, <4>3
      <4> QED BY <4>4, <4>5, ChangesAre DEF C
    <3> QED BY <3>5, <3>6
  <2> QED BY <2>1, <2>2, <2>3
<1>4. ASSUME NEW k \in keys(a) \ keys(b), z \in oneSidedTable("drop", a, b, k) PROVE z.unknown \/ z \in C
  <2> DEFINE p == firstOf(a, k)
  <2>1. CASE z.unknown
    BY <2>1
  <2>2. CASE ~z.unknown
    <3>1. z = Change("drop", "table", p.name, None) /\ tableAbsent(p, a.context, b.context, places(a, k))
      BY <1>4, <2>2, OneSidedTableIs
    <3>2. \A t \in Items(a.tables), u \in Items(b.tables) : t.name = u.name => objectTableKey(t) = objectTableKey(u)
      BY DEF Alike
    <3>3. p \in Items(a.tables) /\ Believed(p, a) /\ p.name \in DOMAIN r.tables /\ p.name \notin DOMAIN s.tables
      BY <3>1, <3>2, AbsentIs
    <3> HIDE DEF p
    <3>4. p.name \in (DOMAIN r.tables \cap scope) \ DOMAIN s.tables
      BY <3>3
    <3> QED BY <3>1, <3>4, ChangesAre DEF C
  <2> QED BY <2>1, <2>2
<1> QED BY <1>1, <1>2, <1>3, <1>4, DiffIs

\* A comparison without gap: what it has established of the declarations.
LEMMA GaplessIs ==
  ASSUME NEW a, NEW b, NEW r, NEW s, Truthful(a, r), Truthful(b, s), Gapless(DiffSchemas(a, b))
  PROVE  /\ sameScope(a.context, b.context) /\ inventoryComplete(a.context) /\ inventoryComplete(b.context)
         /\ contextCoverageKnown(a.context) /\ contextCoverageKnown(b.context)
         /\ \A t \in Items(a.tables) : Believed(t, a) /\ inScope(t, a.context)
         /\ \A t \in Items(b.tables) : Believed(t, b) /\ inScope(t, b.context)
         /\ \A t \in Items(a.tables), u \in Items(b.tables) : t.name = u.name =>
              /\ objectTableKey(t) = objectTableKey(u) /\ Styled(t, u)
              /\ compareTable(t, u, a.context, b.context) \subseteq DiffSchemas(a, b)
         /\ \A u \in Items(b.tables) : objectTableKey(u) \notin keys(a) =>
              Change("add", "table", u.name, None) \in DiffSchemas(a, b)
         /\ \A t \in Items(a.tables) : objectTableKey(t) \notin keys(b) =>
              Change("drop", "table", t.name, None) \in DiffSchemas(a, b)
<1> DEFINE D == DiffSchemas(a, b)
           c == a.context
           d == b.context
<1>1. /\ compareContexts(c, d) \subseteq D
      /\ \A k \in keys(b) : desiredTable(a, b, k) \subseteq D
      /\ \A k \in keys(a) \ keys(b) : oneSidedTable("drop", a, b, k) \subseteq D
  BY DiffIs
<1> HIDE DEF D
<1>2. \A S \in SUBSET D : Gapless(S)
  BY DEF Gapless, D
<1>3. /\ sameScope(c, d) /\ inventoryComplete(c) /\ inventoryComplete(d)
      /\ contextCoverageKnown(c) /\ contextCoverageKnown(d)
  BY <1>1, <1>2, ContextsAre
<1>4. Listed(a.tables) /\ Listed(b.tables)
  BY TruthIs
<1>5. ASSUME NEW k \in keys(b)
      PROVE  /\ Cardinality(places(b, k)) = 1 /\ ~(Cardinality(places(a, k)) > 1)
             /\ k \in keys(a) => /\ compareTable(firstOf(a, k), firstOf(b, k), c, d) \subseteq D
                                 /\ Cardinality(places(a, k)) = 1
             /\ k \notin keys(a) => oneSidedTable("add", b, a, k) \subseteq D
  <2>1. Gapless(desiredTable(a, b, k)) /\ desiredTable(a, b, k) \subseteq D
    BY <1>1, <1>2
  <2>2. Cardinality(places(b, k)) = 1 /\ ~(Cardinality(places(a, k)) > 1)
    BY <2>1, DesiredIs
  <2>3. k \in keys(a) => Cardinality(places(a, k)) = 1
    BY <1>4, <2>2, PlacesAre
  <2>4. /\ k \in keys(a) => desiredTable(a, b, k) = compareTable(firstOf(a, k), firstOf(b, k), c, d)
        /\ k \notin keys(a) => desiredTable(a, b, k) = oneSidedTable("add", b, a, k)
    BY <2>2, DesiredIs
  <2> QED BY <2>1, <2>2, <2>3, <2>4
<1>6. ASSUME NEW k \in keys(a) \cap keys(b)
      PROVE  /\ Cardinality(places(a, k)) = 1 /\ Cardinality(places(b, k)) = 1
             /\ inScope(firstOf(a, k), c) /\ inScope(firstOf(b, k), d)
             /\ Extended(firstOf(a, k)) /\ Extended(firstOf(b, k))
             /\ compareTable(firstOf(a, k), firstOf(b, k), c, d) \subseteq D
  <2>1. compareTable(firstOf(a, k), firstOf(b, k), c, d) \subseteq D
    BY <1>5
  <2>2. Gapless(compareTable(firstOf(a, k), firstOf(b, k), c, d))
    BY <1>2, <2>1
  <2> QED BY <1>5, <2>1, <2>2, TablesTaken
<1>7. ASSUME NEW k \in keys(b) \ keys(a)
      PROVE  /\ Cardinality(places(b, k)) = 1 /\ inScope(firstOf(b, k), d)
             /\ Change("add", "table", firstOf(b, k).name, None) \in D
  <2>1. oneSidedTable("add", b, a, k) \subseteq D
    BY <1>5
  <2>2. Gapless(oneSidedTable("add", b, a, k))
    BY <1>2, <2>1
  <2>3. /\ tableAbsent(firstOf(b, k), d, c, places(b, k))
        /\ Change("add", "table", firstOf(b, k).name, None) \in oneSidedTable("add", b, a, k)
    BY <2>2, OneSidedTableIs
  <2> QED BY <2>1, <2>3 DEF tableAbsent
<1>8. ASSUME NEW k \in keys(a) \ keys(b)
      PROVE  /\ Cardinality(places(a, k)) = 1 /\ inScope(firstOf(a, k), c)
             /\ Change("drop", "table", firstOf(a, k).name, None) \in D
  <2>1. oneSidedTable("drop", a, b, k) \subseteq D
    BY <1>1
  <2>2. Gapless(oneSidedTable("drop", a, b, k))
    BY <1>2, <2>1
  <2>3. /\ tableAbsent(firstOf(a, k), c, d, places(a, k))
        /\ Change("drop", "table", firstOf(a, k).name, None) \in oneSidedTable("drop", a, b, k)
    BY <2>2, OneSidedTableIs
  <2> QED BY <2>1, <2>3 DEF tableAbsent
<1>9. ASSUME NEW t \in Items(a.tables)
      PROVE  /\ Cardinality(places(a, objectTableKey(t))) = 1 /\ inScope(t, c)
             /\ t = firstOf(a, objectTableKey(t)) /\ objectTableKey(t) \in keys(a)
  <2> DEFINE k == objectTableKey(t)
  <2>1. k \in keys(a)
    BY DEF keys
  <2>2. Cardinality(places(a, k)) = 1 /\ inScope(firstOf(a, k), c)
    <3>1. CASE k \in keys(b)
      BY <1>6, <2>1, <3>1
    <3>2. CASE k \notin keys(b)
      BY <1>8, <2>1, <3>2
    <3> QED BY <3>1, <3>2
  <2>3. t = firstOf(a, k)
    BY <1>4, <2>2, PlacesAre
  <2> QED BY <2>1, <2>2, <2>3
<1>10. ASSUME NEW t \in Items(b.tables)
       PROVE  /\ Cardinality(places(b, objectTableKey(t))) = 1 /\ inScope(t, d)
              /\ t = firstOf(b, objectTableKey(t)) /\ objectTableKey(t) \in keys(b)
  <2> DEFINE k == objectTableKey(t)
  <2>1. k \in keys(b)
    BY DEF keys
  <2>2. Cardinality(places(b, k)) = 1 /\ inScope(firstOf(b, k), d)
    <3>1. CASE k \in keys(a)
      BY <1>6, <2>1, <3>1
    <3>2. CASE k \notin keys(a)
      BY <1>7, <2>1, <3>2
    <3> QED BY <3>1, <3>2
  <2>3. t = firstOf(b, k)
    BY <1>4, <2>2, PlacesAre
  <2> QED BY <2>1, <2>2, <2>3
<1>11. \A t \in Items(a.tables) : Believed(t, a) /\ inScope(t, c)
  BY <1>9 DEF Believed
<1>12. \A t \in Items(b.tables) : Believed(t, b) /\ inScope(t, d)
  BY <1>10 DEF Believed
<1>13. ASSUME NEW t \in Items(a.tables), NEW u \in Items(b.tables), t.name = u.name
       PROVE  /\ objectTableKey(t) = objectTableKey(u) /\ Styled(t, u)
              /\ compareTable(t, u, c, d) \subseteq D
  <2>1. objectTableKey(t) = objectTableKey(u)
    BY <1>3, <1>9, <1>10, <1>13, KeysAre
  <2>2. /\ Extended(t) /\ Extended(u) /\ compareTable(t, u, c, d) \subseteq D
    BY <1>6, <1>9, <1>10, <2>1
  <2> QED BY <2>1, <2>2 DEF Extended, Styled
<1>14. \A u \in Items(b.tables) : objectTableKey(u) \notin keys(a) => Change("add", "table", u.name, None) \in D
  BY <1>7, <1>10
<1>15. \A t \in Items(a.tables) : objectTableKey(t) \notin keys(b) => Change("drop", "table", t.name, None) \in D
  BY <1>8, <1>9
<1> QED BY <1>3, <1>11, <1>12, <1>13, <1>14, <1>15 DEF D

\* A comparison without gap finds the changes that are there, and only those.
LEMMA NothingMissed ==
  ASSUME NEW a, NEW b, NEW r, NEW s, Truthful(a, r), Truthful(b, s), Gapless(DiffSchemas(a, b))
  PROVE  DiffSchemas(a, b) = Changes(r, s, a.context.scope)
<1> DEFINE D == DiffSchemas(a, b)
           scope == a.context.scope
           C == Changes(r, s, scope)
<1>1. /\ sameScope(a.context, b.context) /\ inventoryComplete(a.context) /\ inventoryComplete(b.context)
      /\ contextCoverageKnown(a.context) /\ contextCoverageKnown(b.context)
      /\ \A t \in Items(a.tables) : Believed(t, a) /\ inScope(t, a.context)
      /\ \A t \in Items(b.tables) : Believed(t, b) /\ inScope(t, b.context)
      /\ \A t \in Items(a.tables), u \in Items(b.tables) : t.name = u.name =>
           /\ objectTableKey(t) = objectTableKey(u) /\ Styled(t, u)
           /\ compareTable(t, u, a.context, b.context) \subseteq D
  BY GaplessIs
<1>2. /\ \A u \in Items(b.tables) : objectTableKey(u) \notin keys(a) => Change("add", "table", u.name, None) \in D
      /\ \A t \in Items(a.tables) : objectTableKey(t) \notin keys(b) => Change("drop", "table", t.name, None) \in D
  BY GaplessIs
<1>3. b.context.scope = scope /\ contextKnown(a.context) /\ contextKnown(b.context)
      /\ a.context.dialect = b.context.dialect /\ a.context.namespace = b.context.namespace
  BY <1>1 DEF sameScope
<1>4. \A t \in Items(a.tables) \cup Items(b.tables) : t.name \in scope
  BY <1>1, <1>3 DEF inScope
<1>5. Right(D, C)
  BY <1>1, <1>4, NothingInvented DEF Alike
<1>6. D \subseteq C
  BY <1>5 DEF Right, Gapless
<1>7. /\ DOMAIN r.tables \cap scope \subseteq Names(a.tables)
      /\ DOMAIN s.tables \cap scope \subseteq Names(b.tables)
  BY <1>1, <1>3, TruthIs
<1>8. /\ \A t \in Items(a.tables) : /\ t.name \in DOMAIN r.tables /\ Whole(t)
                                    /\ TrueTable(t, r.tables[t.name], effectiveCoverage(t, a.context))
      /\ \A t \in Items(b.tables) : /\ t.name \in DOMAIN s.tables /\ Whole(t)
                                    /\ TrueTable(t, s.tables[t.name], effectiveCoverage(t, b.context))
  BY <1>1, TruthIs
<1>9. ASSUME NEW z \in C PROVE z \in D
  <2> HIDE DEF D, C, scope
  <2>1. r.namespace = s.namespace
    BY <1>3, TruthIs
  <2>2. ASSUME NEW t \in (DOMAIN s.tables \cap scope) \ DOMAIN r.tables, z = Change("add", "table", t, None)
        PROVE  z \in D
    <3>1. PICK u \in Items(b.tables) : u.name = t
      BY <1>7 DEF Names
    <3>2. objectTableKey(u) \notin keys(a)
      <4> SUFFICES ASSUME NEW v \in Items(a.tables), objectTableKey(v) = objectTableKey(u) PROVE FALSE
        BY DEF keys
      <4>1. v.name = t
        BY <3>1, KeysAre
      <4> QED BY <1>8, <4>1
    <3> QED BY <1>2, <2>2, <3>1, <3>2
  <2>3. ASSUME NEW t \in (DOMAIN r.tables \cap scope) \ DOMAIN s.tables, z = Change("drop", "table", t, None)
        PROVE  z \in D
    <3>1. PICK u \in Items(a.tables) : u.name = t
      BY <1>7 DEF Names
    <3>2. objectTableKey(u) \notin keys(b)
      <4> SUFFICES ASSUME NEW v \in Items(b.tables), objectTableKey(v) = objectTableKey(u) PROVE FALSE
        BY DEF keys
      <4>1. v.name = t
        BY <3>1, KeysAre
      <4> QED BY <1>8, <4>1
    <3> QED BY <1>2, <2>3, <3>1, <3>2
  <2>4. ASSUME NEW t \in DOMAIN r.tables \cap DOMAIN s.tables \cap scope, NEW kind \in Kinds,
               z \in ChangedMembers(kind, t, r.tables[t][kind], s.tables[t][kind])
        PROVE  z \in D
    <3>1. PICK p \in Items(a.tables) : p.name = t
      BY <1>7 DEF Names
    <3>2. PICK q \in Items(b.tables) : q.name = t
      BY <1>7 DEF Names
    <3>3. Styled(p, q) /\ compareTable(p, q, a.context, b.context) \subseteq D
      BY <1>1, <3>1, <3>2
    <3>4. Gapless(compareTable(p, q, a.context, b.context))
      BY <3>3 DEF Gapless, D
    <3>5. /\ Whole(p) /\ TrueTable(p, r.tables[t], effectiveCoverage(p, a.context))
          /\ Whole(q) /\ TrueTable(q, s.tables[t], effectiveCoverage(q, b.context))
      BY <1>8, <3>1, <3>2
    <3>6. ChangedMembers(kind, q.name, r.tables[t][kind], s.tables[t][kind])
            \subseteq compareTable(p, q, a.context, b.context)
      BY <1>1, <3>3, <3>4, <3>5, TablesCompared
    <3> QED BY <2>4, <3>2, <3>3, <3>6
  <2> QED BY <1>9, <2>1, <2>2, <2>3, <2>4, ChangesAre DEF C
<1> QED BY <1>6, <1>9

\* A schema compared with itself: each collection has a gap where the summary
\* finds a defect.
LEMMA SelfColumns ==
  ASSUME NEW t, Whole(t), NEW scope, NEW ac, NEW bc
  PROVE  Gapless(Demoted(diffColumns(t, t), scope, ac, bc)) <=>
           /\ ambiguousColumns(t) = {}
           /\ \A col \in Items(t.columns) : columnDefault(col) # "unknown"
<1> DEFINE D == diffColumns(t, t)
           bad == ambiguousColumns(t)
           sole == Names(t.columns) \ bad
           The1(n) == The(t.columns, n)
           gap(n) == comparisonUnknown("column", t.name, The1(n).name)
<1>1. \A c : diffColumn(t, c, c) = If(columnDefault(c) = "unknown", {comparisonUnknown("column", t.name, c.name)})
  BY DEF diffColumn, diffDefault, If
<1>2. \A z : z \in D <=> \/ z \in If(bad # {}, tableUnknown(t))
                         \/ \E n \in sole : columnDefault(The1(n)) = "unknown" /\ z = gap(n)
  <2> DEFINE T0 == If(bad # {}, tableUnknown(t))
             M(n) == diffColumn(t, The1(n), The1(n))
             T1 == UNION {M(n) : n \in sole}
  <2>1. D = T0 \cup T1
    BY DEF diffColumns
  <2>2. \A n, z : z \in M(n) <=> columnDefault(The1(n)) = "unknown" /\ z = gap(n)
    BY <1>1 DEF If
  <2> HIDE DEF D, M, T0, sole, The1, gap
  <2>3. \A z : z \in T1 <=> \E n \in sole : z \in M(n)
    OBVIOUS
  <2>4. \A z : z \in D <=> z \in T0 \/ z \in T1
    <3> HIDE DEF T1
    <3> QED BY <2>1
  <2> HIDE DEF T1
  <2> QED BY <2>2, <2>3, <2>4 DEF T0
<1>3. \A n : gap(n).unknown = TRUE /\ gap(n).op = "unsupported"
  BY StepsAre
<1>4. Listed(t.columns)
  BY WholeIs
<1> HIDE DEF D, gap, The1
<1>5. \A z \in D : z.op \notin {"add", "drop"} /\ z.unknown
  <2> SUFFICES ASSUME NEW z \in D PROVE z.op \notin {"add", "drop"} /\ z.unknown
    OBVIOUS
  <2>1. CASE z \in If(bad # {}, tableUnknown(t))
    BY <2>1, TableGap DEF If
  <2>2. ASSUME NEW n \in sole, z = gap(n) PROVE z.op \notin {"add", "drop"} /\ z.unknown
    BY <1>3, <2>2
  <2> HIDE DEF bad, sole
  <2> QED BY <1>2, <2>1, <2>2
<1>6. Gapless(Demoted(D, scope, ac, bc)) <=> D = {}
  <2>1. ASSUME D = {} PROVE Gapless(Demoted(D, scope, ac, bc))
    BY <2>1 DEF Gapless, Demoted
  <2>2. ASSUME Gapless(Demoted(D, scope, ac, bc)) PROVE D = {}
    BY <1>5, <2>2, DemotedGapless
  <2> QED BY <2>1, <2>2
<1>7. ASSUME D = {}
      PROVE  bad = {} /\ \A col \in Items(t.columns) : columnDefault(col) # "unknown"
  <2>1. bad = {}
    BY <1>2, <1>7 DEF If, tableUnknown
  <2>2. ASSUME NEW col \in Items(t.columns) PROVE columnDefault(col) # "unknown"
    <3>1. col.name \in Names(t.columns)
      BY DEF Names
    <3>2. Count(t.columns, col.name) \in Nat /\ ~(Count(t.columns, col.name) > 1)
      BY <1>4, <2>1, <3>1, NamedIs DEF ambiguousColumns
    <3>3. The1(col.name) = col
      BY <1>4, <3>2, OnlyOne DEF The1
    <3> HIDE DEF bad
    <3>4. col.name \in sole
      BY <2>1, <3>1
    <3> QED BY <1>2, <1>7, <3>3, <3>4
  <2> QED BY <2>1, <2>2
<1>8. ASSUME bad = {}, \A col \in Items(t.columns) : columnDefault(col) # "unknown"
      PROVE  D = {}
  <2> SUFFICES ASSUME NEW z \in D PROVE FALSE
    OBVIOUS
  <2>1. PICK n \in sole : columnDefault(The1(n)) = "unknown"
    BY <1>2, <1>8 DEF If
  <2>2. The1(n) \in Items(t.columns)
    BY <1>4, NamedIs DEF The1
  <2> QED BY <1>8, <2>1, <2>2
<1> QED BY <1>6, <1>7, <1>8 DEF D

LEMMA SelfIndexes ==
  ASSUME NEW t, Whole(t), NEW scope, NEW ac, NEW bc
  PROVE  Gapless(Demoted(diffIndexes(t, t), scope, ac, bc)) <=> \A i \in Items(t.indexes) : validIndex(i, t)
<1> DEFINE D == diffIndexes(t, t)
           The1(n) == The(t.indexes, n)
           gap(n) == comparisonUnknown("index", t.name, n)
<1>1. \A i : diffIndex(t, i, i) = {}
  BY DEF diffIndex, equalIndex, If
<1>2. \A z : z \in D <=> \E n \in Names(t.indexes) : ~validIndex(The1(n), t) /\ z = gap(n)
  <2> DEFINE M(n) == matchedIndex(t, t, n)
             names == Names(t.indexes)
             T0 == UNION {M(n) : n \in names}
  <2>1. \A n, z : z \in M(n) <=> ~validIndex(The1(n), t) /\ z = gap(n)
    BY <1>1 DEF matchedIndex
  <2>2. D = T0
    BY DEF diffIndexes
  <2> HIDE DEF D, M, gap, The1, names
  <2>3. \A z : z \in T0 <=> \E n \in names : z \in M(n)
    OBVIOUS
  <2> HIDE DEF T0
  <2> QED BY <2>1, <2>2, <2>3 DEF names
<1>3. \A n : gap(n).unknown = TRUE /\ gap(n).op = "unsupported"
  BY StepsAre
<1>4. Listed(t.indexes)
  BY WholeIs
<1> HIDE DEF D, gap, The1
<1>5. Gapless(Demoted(D, scope, ac, bc)) <=> D = {}
  <2>1. ASSUME D = {} PROVE Gapless(Demoted(D, scope, ac, bc))
    BY <2>1 DEF Gapless, Demoted
  <2>2. ASSUME Gapless(Demoted(D, scope, ac, bc)) PROVE D = {}
    <3>1. \A z \in D : z.op \notin {"add", "drop"} /\ z.unknown
      BY <1>2, <1>3
    <3> QED BY <2>2, <3>1, DemotedGapless
  <2> QED BY <2>1, <2>2
<1>6. ASSUME D = {}, NEW i \in Items(t.indexes) PROVE validIndex(i, t)
  <2>1. i.name \in Names(t.indexes)
    BY DEF Names
  <2>2. The1(i.name).name = i.name
    BY <1>4, <2>1, NamedIs DEF The1
  <2>3. validIndex(The1(i.name), t)
    BY <1>2, <1>6, <2>1
  <2>4. Count(t.indexes, i.name) = 1
    BY <2>2, <2>3 DEF validIndex
  <2>5. The1(i.name) = i
    BY <1>4, <2>4, OnlyOne DEF The1
  <2> QED BY <2>3, <2>5
<1>7. ASSUME \A i \in Items(t.indexes) : validIndex(i, t) PROVE D = {}
  <2>1. \A n \in Names(t.indexes) : The1(n) \in Items(t.indexes)
    BY <1>4, NamedIs DEF The1
  <2> QED BY <1>2, <1>7, <2>1
<1> QED BY <1>5, <1>6, <1>7 DEF D

LEMMA SelfConstraints ==
  ASSUME NEW t, Whole(t), NEW scope, NEW ac, NEW bc, ~ambiguousConstraints(t)
  PROVE  Gapless(diffConstraints(t, t, scope, ac, bc)) <=>
           \A c \in Items(Constraints(t)) : validConstraint(c, t) /\ ~unsettled(c)
<1> DEFINE D == diffConstraints(t, t, scope, ac, bc)
           K(kind) == diffKind(kind, t, t, scope, ac, bc)
           open == \E c \in Items(Constraints(t)) : unsettled(c)
           Kind == {"foreign_key", "check"}
<1>1. /\ Listed(Constraints(t)) /\ Items(Constraints(t)) = Items(t.foreign_keys) \cup Items(t.checks)
      /\ \A kind \in Kind : Listed(ofKind(t, kind)) /\ Items(ofKind(t, kind)) \subseteq Items(Constraints(t))
  BY WholeIs
<1>2. \A c, d \in Items(Constraints(t)) : c.name = d.name => c = d /\ singleName(t, t, c.name)
  <2> SUFFICES ASSUME NEW c \in Items(Constraints(t)), NEW d \in Items(Constraints(t)), c.name = d.name
               PROVE  c = d /\ singleName(t, t, c.name)
    OBVIOUS
  <2>1. c.name \in Names(Constraints(t))
    BY DEF Names
  <2>2. Count(Constraints(t), c.name) \in Nat /\ ~(Count(Constraints(t), c.name) > 1)
    BY <1>1, <2>1, NamedIs DEF ambiguousConstraints
  <2>3. Count(Constraints(t), c.name) <= 1
    BY <2>2
  <2> QED BY <1>1, <2>3, NamedIs DEF singleName
<1>3. ASSUME NEW kind \in Kind
      PROVE  \A z : z \in K(kind) <=>
               \E c \in Items(ofKind(t, kind)) : ~validConstraint(c, t) /\ z = comparisonUnknown(kind, t.name, c.name)
  <2> DEFINE M(n) == matchedConstraint(kind, t, t, n)
             names == Names(ofKind(t, kind))
             T0 == UNION {M(n) : n \in names}
  <2>1. K(kind) = T0
    BY DEF diffKind
  <2>2. ASSUME NEW c \in Items(ofKind(t, kind)), NEW z
        PROVE  z \in M(c.name) <=> ~validConstraint(c, t) /\ z = comparisonUnknown(kind, t.name, c.name)
    <3>1. c.name \in names
      BY DEF Names
    <3>2. The(ofKind(t, kind), c.name) \in Items(ofKind(t, kind)) /\ The(ofKind(t, kind), c.name).name = c.name
      BY <1>1, <3>1, NamedIs
    <3>3. The(ofKind(t, kind), c.name) = c /\ singleName(t, t, c.name)
      BY <1>1, <1>2, <3>2
    <3>4. If(~equalConstraintValue(c, c), {Change("alter", kind, t.name, c.name)}) = {}
      BY DEF equalConstraintValue, If
    <3> QED BY <3>3, <3>4 DEF matchedConstraint
  <2> HIDE DEF K, M
  <2>3. \A z : z \in T0 <=> \E n \in names : z \in M(n)
    <3> HIDE DEF names
    <3> QED OBVIOUS
  <2> HIDE DEF T0
  <2>4. \A n : n \in names <=> \E c \in Items(ofKind(t, kind)) : n = c.name
    BY DEF Names
  <2> HIDE DEF names
  <2> QED BY <2>1, <2>2, <2>3, <2>4
<1>4. D = If(open, tableUnknown(t)) \cup K("foreign_key") \cup K("check")
  BY DEF diffConstraints
<1> HIDE DEF D, K, open
<1>5. ASSUME NEW kind \in Kind
      PROVE  Gapless(K(kind)) <=> \A c \in Items(ofKind(t, kind)) : validConstraint(c, t)
  BY <1>3, StepsAre DEF Gapless
<1>6. Gapless(D) <=> ~open /\ Gapless(K("foreign_key")) /\ Gapless(K("check"))
  <2>1. Gapless(D) => ~open
    BY <1>4, HasTableGap DEF If
  <2>2. Gapless(D) => Gapless(K("foreign_key")) /\ Gapless(K("check"))
    BY <1>4 DEF Gapless
  <2>3. ~open /\ Gapless(K("foreign_key")) /\ Gapless(K("check")) => Gapless(D)
    BY <1>4 DEF Gapless, If
  <2> QED BY <2>1, <2>2, <2>3
<1>7. ofKind(t, "foreign_key") = t.foreign_keys /\ ofKind(t, "check") = t.checks
  BY DEF ofKind
<1>8. (\A c \in Items(Constraints(t)) : validConstraint(c, t)) <=> Gapless(K("foreign_key")) /\ Gapless(K("check"))
  BY <1>1, <1>5, <1>7
<1>9. ~open <=> \A c \in Items(Constraints(t)) : ~unsettled(c)
  BY DEF open
<1> QED BY <1>6, <1>8, <1>9 DEF D

LEMMA SelfTable ==
  ASSUME NEW t, Whole(t), NEW c, sameScope(c, c)
  PROVE  Gapless(compareTable(t, t, c, c)) <=> tableComplete(t, c)
<1> DEFINE D == compareTable(t, t, c, c)
           scope == sameScope(c, c)
           ac == effectiveCoverage(t, c)
           known == inScope(t, c)
           legacy == t.namespace = None
           short == \/ ~known \/ ~scope \/ ~coverageKnown(t.covers) \/ ~coverageKnown(t.covers)
                    \/ \E i \in Items(t.indexes) \cup Items(t.indexes) : i.extended = None
                    \/ ambiguousConstraints(t) \/ ambiguousConstraints(t)
           T0 == If(short, tableUnknown(t))
           T1 == Demoted(diffColumns(t, t) \cup diffIndexes(t, t), scope, ac, ac)
           T2 == Demoted(diffColumns(t, t), scope, ac, ac)
           T3 == Demoted(diffIndexes(t, t), scope, ac, ac)
           T4 == diffConstraints(t, t, scope, ac, ac)
<1>1. D = IF ~known /\ ~legacy THEN tableUnknown(t) ELSE T0 \cup T1 \cup T4
  BY DEF compareTable, Demoted
<1>2. T1 = T2 \cup T3
  BY DEF Demoted
<1>3. Gapless(T2) <=> ambiguousColumns(t) = {} /\ \A col \in Items(t.columns) : columnDefault(col) # "unknown"
  BY SelfColumns
<1>4. Gapless(T3) <=> \A i \in Items(t.indexes) : validIndex(i, t)
  BY SelfIndexes
<1>5. ~ambiguousConstraints(t) =>
        (Gapless(T4) <=> \A k \in Items(Constraints(t)) : validConstraint(k, t) /\ ~unsettled(k))
  BY SelfConstraints
<1>6. ~short <=> /\ known /\ coverageKnown(t.covers) /\ ~ambiguousConstraints(t)
                 /\ \A i \in Items(t.indexes) : i.extended # None
  OBVIOUS
<1>7. Gapless(D) => known
  BY TablesTaken
<1> HIDE DEF D, T1, T2, T3, T4, short, scope, ac
<1>8. ASSUME known PROVE Gapless(D) <=> ~short /\ Gapless(T2) /\ Gapless(T3) /\ Gapless(T4)
  <2>1. D = T0 \cup T2 \cup T3 \cup T4
    BY <1>1, <1>2, <1>8
  <2>2. ~short => T0 = {}
    BY DEF If
  <2>3. Gapless(T0) => ~short
    BY HasTableGap DEF If
  <2> HIDE DEF T0, known
  <2>4. Gapless(D) <=> Gapless(T0) /\ Gapless(T2) /\ Gapless(T3) /\ Gapless(T4)
    BY <2>1 DEF Gapless
  <2>5. Gapless({})
    BY DEF Gapless
  <2> QED BY <2>2, <2>3, <2>4, <2>5
<1>9. tableComplete(t, c) <=> ~short /\ Gapless(T2) /\ Gapless(T3) /\ Gapless(T4)
  BY <1>3, <1>4, <1>5, <1>6 DEF tableComplete
<1> QED BY <1>6, <1>7, <1>8, <1>9 DEF D

\* The summary of a schema against its comparison with itself.
LEMMA SummaryIs ==
  ASSUME NEW s, Listed(s.tables), \A t \in Items(s.tables) : Whole(t)
  PROVE  schemaDefinitionComplete(s) <=> Gapless(DiffSchemas(s, s))
<1> DEFINE c == s.context
           D == DiffSchemas(s, s)
<1>1. sameScope(c, c) <=> contextKnown(c)
  BY DEF sameScope
<1>2. ASSUME schemaDefinitionComplete(s), NEW z \in D PROVE ~z.unknown
  <2>1. /\ inventoryComplete(c) /\ contextCoverageKnown(c) /\ sameScope(c, c)
        /\ \A i, j \in DOMAIN s.tables : objectTableKey(s.tables[i]) = objectTableKey(s.tables[j]) => i = j
        /\ \A t \in Items(s.tables) : tableComplete(t, c)
    BY <1>1, <1>2 DEF schemaDefinitionComplete, inventoryComplete
  <2>2. compareContexts(c, c) = {}
    BY <2>1 DEF compareContexts, If
  <2>3. ASSUME NEW k \in keys(s) PROVE Cardinality(places(s, k)) = 1
    <3>1. PICK i \in DOMAIN s.tables : objectTableKey(s.tables[i]) = k
      BY DEF keys, Items
    <3>2. places(s, k) = {i}
      BY <2>1, <3>1 DEF places
    <3> QED BY <3>2, FS_Singleton
  <2>4. PICK k \in keys(s) : z \in desiredTable(s, s, k)
    BY <1>2, <2>2, DiffIs
  <2>5. Cardinality(places(s, k)) = 1
    BY <2>3
  <2>6. z \in compareTable(firstOf(s, k), firstOf(s, k), c, c)
    BY <2>4, <2>5, DesiredIs
  <2>7. firstOf(s, k) \in Items(s.tables)
    BY <2>5, PlacesAre
  <2>8. Gapless(compareTable(firstOf(s, k), firstOf(s, k), c, c))
    BY <2>1, <2>7, SelfTable
  <2> QED BY <2>6, <2>8 DEF Gapless
<1>3. ASSUME Gapless(D) PROVE schemaDefinitionComplete(s)
  <2>1. /\ compareContexts(c, c) \subseteq D
        /\ \A k \in keys(s) : desiredTable(s, s, k) \subseteq D
    BY DiffIs
  <2> HIDE DEF D
  <2>2. \A S \in SUBSET D : Gapless(S)
    BY <1>3 DEF Gapless
  <2>3. inventoryComplete(c) /\ contextCoverageKnown(c) /\ sameScope(c, c)
    BY <2>1, <2>2, ContextsAre
  <2>4. ASSUME NEW k \in keys(s)
        PROVE  /\ Cardinality(places(s, k)) = 1 /\ tableComplete(firstOf(s, k), c)
    <3>1. Gapless(desiredTable(s, s, k))
      BY <2>1, <2>2
    <3>2. Cardinality(places(s, k)) = 1
      BY <3>1, DesiredIs
    <3>3. Gapless(compareTable(firstOf(s, k), firstOf(s, k), c, c))
      BY <3>1, <3>2, DesiredIs
    <3>4. firstOf(s, k) \in Items(s.tables)
      BY <3>2, PlacesAre
    <3> QED BY <2>3, <3>2, <3>3, <3>4, SelfTable
  <2>5. ASSUME NEW i \in DOMAIN s.tables, NEW j \in DOMAIN s.tables,
               objectTableKey(s.tables[i]) = objectTableKey(s.tables[j])
        PROVE  i = j
    <3> DEFINE k == objectTableKey(s.tables[i])
    <3>1. k \in keys(s)
      BY DEF keys, Items
    <3>2. i \in places(s, k) /\ j \in places(s, k)
      BY <2>5 DEF places
    <3>3. places(s, k) \subseteq 1..Len(s.tables) /\ Len(s.tables) \in Nat
      BY DEF places, Listed
    <3>4. IsFiniteSet(places(s, k))
      <4>1. IsFiniteSet(1..Len(s.tables))
        BY <3>3, FS_Interval
      <4> QED BY <3>3, <4>1, FS_Subset
    <3>5. \E m : places(s, k) = {m}
      BY <2>4, <3>1, <3>4, FS_Singleton
    <3> QED BY <3>2, <3>5
  <2>6. ASSUME NEW t \in Items(s.tables) PROVE tableComplete(t, c)
    <3>1. objectTableKey(t) \in keys(s)
      BY DEF keys
    <3>2. t = firstOf(s, objectTableKey(t))
      BY <2>4, <3>1, PlacesAre
    <3> QED BY <2>4, <3>1, <3>2
  <2> QED BY <2>3, <2>5, <2>6 DEF schemaDefinitionComplete
<1> QED BY <1>2, <1>3 DEF Gapless

\* What is declared of a case is so, and the result is of what is declared.
Declared ==
  /\ Truthful(decl.old, real.old) /\ Truthful(decl.new, real.new)
  /\ result \in {None, DiffSchemas(decl.old, decl.new)}

\* Whatever two schemas are and however little is declared of them, the
\* comparison (DiffSchemas) reports no change that is none where both sides
\* declare with the same means, a comparison without gap finds every change in
\* its scope and only those, and the summary of a schema calls it complete
\* exactly when comparing it with itself has no gap.
THEOREM ComparisonRight == Spec => []ComparisonIsRight
<1>1. Init => Declared
  <2> SUFFICES ASSUME Init PROVE Declared
    OBVIOUS
  <2>1. PICK o \in Declares(real.family, real.old), n \in Declares(real.family, real.new) :
          decl = [old |-> o, new |-> n]
    BY DEF Init
  <2>2. real \in Cases /\ result = None
    BY DEF Init
  <2> DEFINE f == real.family
             R == UNION {{c.old, c.new} : c \in {d \in Cases : d.family = f}}
  <2>3. f \in {c.family : c \in Cases}
    BY <2>2
  <2>4. real.old \in R /\ real.new \in R
    BY <2>2
  <2>5. \A r \in R : \A d \in Declares(f, r) : Truthful(d, r)
    BY <2>3, DeclaresAssumption
  <2> HIDE DEF f, R
  <2>6. Truthful(o, real.old) /\ Truthful(n, real.new)
    BY <2>1, <2>4, <2>5 DEF f
  <2> QED BY <2>1, <2>2, <2>6 DEF Declared
<1>2. Declared /\ [Next]_vars => Declared'
  <2> SUFFICES ASSUME Declared, [Next]_vars PROVE Declared'
    OBVIOUS
  <2>1. real' = real /\ decl' = decl /\ (result' = result \/ result' = DiffSchemas(decl.old, decl.new))
    BY DEF Next, Compare, vars
  <2> QED BY <2>1 DEF Declared
<1>3. Declared => ComparisonIsRight
  <2> SUFFICES ASSUME Declared PROVE ComparisonIsRight
    OBVIOUS
  <2> DEFINE a == decl.old
             b == decl.new
             r == real.old
             s == real.new
             scope == DOMAIN r.tables \cup DOMAIN s.tables
             D == DiffSchemas(a, b)
  <2>1. Truthful(a, r) /\ Truthful(b, s) /\ (result # None => result = D)
    BY DEF Declared
  <2>2. ASSUME result # None, SameStyle
        PROVE  {z \in result : ~z.unknown} \subseteq Changes(r, s, scope)
    <3>1. Alike(a, b)
      BY <2>2 DEF Alike, SameStyle, Styled
    <3>2. /\ \A t \in Items(a.tables) : Believed(t, a) => t.name \in DOMAIN r.tables
          /\ \A t \in Items(b.tables) : Believed(t, b) => t.name \in DOMAIN s.tables
      BY <2>1, TruthIs
    <3> HIDE DEF a, b, r, s
    <3>3. Right(D, Changes(r, s, scope))
      BY <2>1, <3>1, <3>2, NothingInvented
    <3> QED BY <2>1, <2>2, <3>3 DEF Right
  <2>3. ASSUME result # None, ~Incomplete(result)
        PROVE  result = Changes(r, s, a.context.scope)
    <3>1. Gapless(D)
      BY <2>1, <2>3 DEF Incomplete, Gapless
    <3> HIDE DEF a, b, r, s
    <3>2. D = Changes(r, s, a.context.scope)
      BY <2>1, <3>1, NothingMissed
    <3> QED BY <2>1, <2>3, <3>2
  <2>4. schemaDefinitionComplete(a) <=> ~Incomplete(DiffSchemas(a, a))
    <3> HIDE DEF a, r
    <3>1. schemaDefinitionComplete(a) <=> Gapless(DiffSchemas(a, a))
      BY <2>1, TruthIs, SummaryIs
    <3> QED BY <3>1 DEF Incomplete, Gapless
  <2>5. NoFalseChange
    BY <2>2 DEF NoFalseChange
  <2>6. CompleteIsExact
    BY <2>3 DEF CompleteIsExact
  <2>7. SummaryAgrees
    BY <2>4 DEF SummaryAgrees
  <2> QED BY <2>5, <2>6, <2>7 DEF ComparisonIsRight
<1> QED BY <1>1, <1>2, <1>3, PTL DEF Spec

(***************************************************************************)
(* The splitter.                                                           *)
(***************************************************************************)
\* The least element of a set of numbers.
LEMMA Least ==
  ASSUME NEW T \in SUBSET Nat, T # {}
  PROVE  \E x \in T : \A y \in T : x <= y
<1> DEFINE R == OpToRel(<, Nat)
<1>1. IsWellFoundedOn(R, Nat)
  BY NatLessThanWellFounded
<1>2. PICK x \in T : \A y \in T : ~(<<y, x>> \in R)
  <2> HIDE DEF R
  <2> QED BY <1>1, WFMin
<1>3. \A y \in T : y < x => <<y, x>> \in R
  BY DEF OpToRel
<1>4. \A y \in T : ~(y < x)
  <2> HIDE DEF R
  <2> QED BY <1>2, <1>3, Zenon
<1>5. x \in T
  BY <1>2
<1> HIDE DEF R
<1> QED BY <1>4, <1>5

LEMMA FirstIs ==
  ASSUME NEW S \in SUBSET Nat, NEW n
  PROVE  /\ S = {} => FirstOr(S, n) = n
         /\ S # {} => FirstOr(S, n) \in S /\ \A j \in S : FirstOr(S, n) <= j
<1>1. ASSUME S # {} PROVE FirstOr(S, n) \in S /\ \A j \in S : FirstOr(S, n) <= j
  <2>1. \E i \in S : \A j \in S : i <= j
    BY <1>1, Least
  <2> QED BY <1>1, <2>1 DEF FirstOr
<1> QED BY <1>1 DEF FirstOr

LEMMA CommentIs ==
  ASSUME NEW t, NEW s, Comment(t, s)
  PROVE  s < Len(t) /\ t[s] \notin Quotes
         /\ \/ t[s] = "-" /\ t[s + 1] = "-"
            \/ t[s] = "/" /\ t[s + 1] = "*"
BY DEF Comment, Quotes

\* Where a lexeme ends, by its kind.
LEMMA QuoteEnds ==
  ASSUME NEW t \in Seq(Marks), NEW s \in 1..Len(t), t[s] \in Quotes
  PROVE  /\ LexEnd(t, s) \in s..Len(t)
         /\ \A i \in (s + 1)..Len(t) : (\A j \in (s + 1)..(i - 1) : t[j] # t[s]) =>
              i <= LexEnd(t, s) /\ (t[i] = t[s] => LexEnd(t, s) = i)
<1> DEFINE S == {j \in (s + 1)..Len(t) : t[j] = t[s]}
<1>1. LexEnd(t, s) = FirstOr(S, Len(t))
  BY CommentIs DEF LexEnd
<1>2. S \in SUBSET Nat /\ Len(t) \in Nat
  OBVIOUS
<1>3. CASE S = {}
  <2>1. LexEnd(t, s) = Len(t)
    BY <1>1, <1>2, <1>3, FirstIs
  <2> QED BY <1>2, <1>3, <2>1
<1>4. CASE S # {}
  <2>1. LexEnd(t, s) \in S /\ \A j \in S : LexEnd(t, s) <= j
    <3> HIDE DEF S
    <3> QED BY <1>1, <1>2, <1>4, FirstIs
  <2> QED BY <1>2, <2>1
<1> QED BY <1>3, <1>4

LEMMA LineEnds ==
  ASSUME NEW t \in Seq(Marks), NEW s \in 1..Len(t), Comment(t, s), t[s] = "-"
  PROVE  /\ LexEnd(t, s) \in s..Len(t)
         /\ \A i \in (s + 1)..Len(t) : (\A j \in (s + 1)..(i - 1) : t[j] # "nl") =>
              i <= LexEnd(t, s) /\ (t[i] = "nl" => LexEnd(t, s) = i)
<1> DEFINE S == {j \in (s + 1)..Len(t) : t[j] = "nl"}
<1>1. LexEnd(t, s) = FirstOr(S, Len(t))
  BY CommentIs DEF LexEnd
<1>2. S \in SUBSET Nat /\ Len(t) \in Nat
  OBVIOUS
<1>3. CASE S = {}
  <2>1. LexEnd(t, s) = Len(t)
    BY <1>1, <1>2, <1>3, FirstIs
  <2> QED BY <1>2, <1>3, <2>1
<1>4. CASE S # {}
  <2>1. LexEnd(t, s) \in S /\ \A j \in S : LexEnd(t, s) <= j
    <3> HIDE DEF S
    <3> QED BY <1>1, <1>2, <1>4, FirstIs
  <2> QED BY <1>2, <2>1
<1> QED BY <1>3, <1>4

LEMMA BlockEnds ==
  ASSUME NEW t \in Seq(Marks), NEW s \in 1..Len(t), Comment(t, s), t[s] = "/"
  PROVE  /\ LexEnd(t, s) \in s..Len(t)
         /\ \A i \in (s + 1)..Len(t) : (\A j \in (s + 3)..i : ~(t[j] = "/" /\ t[j - 1] = "*")) =>
              /\ i <= LexEnd(t, s)
              /\ i >= s + 2 /\ i < Len(t) /\ t[i] = "*" /\ t[i + 1] = "/" => LexEnd(t, s) = i + 1
<1> DEFINE S == {j \in (s + 3)..Len(t) : t[j] = "/" /\ t[j - 1] = "*"}
<1>1. LexEnd(t, s) = FirstOr(S, Len(t))
  BY CommentIs DEF LexEnd
<1>2. S \in SUBSET Nat /\ Len(t) \in Nat
  OBVIOUS
<1>3. CASE S = {}
  <2>1. LexEnd(t, s) = Len(t)
    BY <1>1, <1>2, <1>3, FirstIs
  <2>2. ASSUME NEW i \in (s + 1)..Len(t), i >= s + 2, i < Len(t), t[i] = "*", t[i + 1] = "/" PROVE FALSE
    <3>1. i + 1 \in (s + 3)..Len(t) /\ (i + 1) - 1 = i
      BY <2>2
    <3> QED BY <1>3, <2>2, <3>1
  <2> QED BY <1>2, <2>1, <2>2
<1>4. CASE S # {}
  <2>1. LexEnd(t, s) \in S /\ \A j \in S : LexEnd(t, s) <= j
    <3> HIDE DEF S
    <3> QED BY <1>1, <1>2, <1>4, FirstIs
  <2> DEFINE e == LexEnd(t, s)
  <2>2. e \in (s + 3)..Len(t) /\ t[e] = "/" /\ t[e - 1] = "*"
    BY <2>1
  <2>3. ASSUME NEW i \in (s + 1)..Len(t), \A j \in (s + 3)..i : ~(t[j] = "/" /\ t[j - 1] = "*") PROVE i < e
    BY <2>2, <2>3
  <2>4. ASSUME NEW i \in (s + 1)..Len(t), \A j \in (s + 3)..i : ~(t[j] = "/" /\ t[j - 1] = "*"),
               i >= s + 2, i < Len(t), t[i] = "*", t[i + 1] = "/"
        PROVE  e = i + 1
    <3>1. i + 1 \in (s + 3)..Len(t) /\ (i + 1) - 1 = i
      BY <2>4
    <3>2. e <= i + 1
      BY <2>1, <2>4, <3>1
    <3>3. i < e
      BY <2>3, <2>4
    <3> QED BY <2>2, <3>2, <3>3
  <2> HIDE DEF e
  <2> QED BY <2>2, <2>3, <2>4 DEF e
<1> QED BY <1>3, <1>4

LEMMA CharEnds ==
  ASSUME NEW t, NEW s, t[s] \notin Quotes, ~Comment(t, s)
  PROVE  LexEnd(t, s) = s
BY DEF LexEnd

LEMMA LexEndIs ==
  ASSUME NEW t \in Seq(Marks), NEW s \in 1..Len(t)
  PROVE  LexEnd(t, s) \in s..Len(t)
BY QuoteEnds, LineEnds, BlockEnds, CharEnds, CommentIs

\* The first character begins a lexeme, each begins where another ends, and none
\* within another.
LEMMA LexemesAre ==
  ASSUME NEW t \in Seq(Marks)
  PROVE  LET L == Lexemes(t)
             N == Len(t) IN
         /\ L \subseteq 1..N
         /\ 1 \in L \cup {N + 1}
         /\ \A k \in L : LexEnd(t, k) + 1 \in L \cup {N + 1}
         /\ \A j, k \in L : j < k => LexEnd(t, j) < k
<1> DEFINE L == Lexemes(t)
           N == Len(t)
           e(i) == LexEnd(t, i)
           behind == [i \in 1..N |-> e(i) + 1]
           closed == {S \in SUBSET (1..(N + 1)) : 1 \in S /\ \A i \in S \ {N + 1} : behind[i] \in S}
           Closed(S) == S \in SUBSET (1..(N + 1)) /\ 1 \in S /\ \A i \in S \ {N + 1} : e(i) + 1 \in S
           E == L \cup {N + 1}
<1>1. N \in Nat /\ \A i \in 1..N : e(i) \in i..N
  BY LexEndIs
<1>2. L = {i \in 1..N : \A S \in closed : i \in S}
  BY DEF Lexemes
<1>3. \A S : S \in closed <=> Closed(S)
  <2> HIDE DEF e, N
  <2>1. \A S \in SUBSET (1..(N + 1)) : \A i \in S \ {N + 1} : behind[i] = e(i) + 1
    BY <1>1
  <2> HIDE DEF behind
  <2> QED BY <2>1
<1> HIDE DEF L, e, closed, behind, N
<1>4. \A i : i \in L <=> i \in 1..N /\ \A S \in SUBSET (1..(N + 1)) : Closed(S) => i \in S
  <2>1. \A S \in closed : S \in SUBSET (1..(N + 1))
    BY DEF closed
  <2> HIDE DEF Closed
  <2> QED BY <1>2, <1>3, <2>1
<1>8. L \subseteq 1..N
  BY <1>4
<1>5. 1 \in E
  BY <1>1, <1>4
<1>6. ASSUME NEW k \in L PROVE e(k) + 1 \in E
  <2>1. k \in 1..N /\ e(k) + 1 \in 1..(N + 1)
    BY <1>1, <1>4
  <2>2. CASE e(k) + 1 = N + 1
    BY <2>2
  <2>3. CASE e(k) + 1 # N + 1
    <3>1. ASSUME NEW S \in SUBSET (1..(N + 1)), Closed(S) PROVE e(k) + 1 \in S
      <4>1. k \in S /\ k # N + 1
        BY <1>1, <1>4, <2>1, <3>1, SMTT(30)
      <4> QED BY <3>1, <4>1
    <3>2. e(k) + 1 \in 1..N
      BY <1>1, <2>1, <2>3
    <3> QED BY <1>4, <3>1, <3>2
  <2> QED BY <2>2, <2>3
<1>7. ASSUME NEW j \in L, NEW k \in L, j < k PROVE e(j) < k
  <2> DEFINE B == {n \in L : \E m \in L : m < n /\ ~(e(m) < n)}
  <2>1. SUFFICES ASSUME B # {} PROVE FALSE
    BY <1>7
  <2>2. B \in SUBSET Nat
    BY <1>1, <1>4
  <2>3. PICK n \in B : \A i \in B : n <= i
    BY <2>1, <2>2, Least
  <2>4. PICK m \in L : m < n /\ ~(e(m) < n)
    BY <2>3
  <2>5. n \in 1..N /\ m \in 1..N /\ n \in L /\ n # 1 /\ n # N + 1
    <3>1. n \in L /\ n \in 1..N /\ m \in 1..N
      BY <1>8, <2>3
    <3> QED BY <1>1, <2>4, <3>1
  <2> DEFINE S == E \ {n}
  <2>6. ASSUME NEW i \in S \ {N + 1} PROVE e(i) + 1 \in S
    <3>1. i \in L /\ i # n /\ i \in 1..N
      BY <1>4, <2>6
    <3>2. e(i) + 1 \in E
      BY <1>6, <3>1
    <3>3. ASSUME e(i) + 1 = n PROVE FALSE
      <4>1. i < n /\ e(i) \in i..N /\ e(m) \in m..N
        BY <1>1, <2>5, <3>1, <3>3
      <4>2. CASE i < m
        <5>1. m \notin B
          BY <2>2, <2>3, <2>4, <2>5
        <5>2. e(i) < m
          BY <2>4, <3>1, <4>2, <5>1
        <5> QED BY <2>4, <2>5, <3>3, <4>1, <5>2
      <4>3. CASE m < i
        <5>1. i \notin B
          BY <2>5, <2>3, <3>1, <4>1
        <5>2. e(m) < i
          BY <2>4, <3>1, <4>3, <5>1
        <5> QED BY <2>4, <2>5, <3>1, <4>1, <5>2
      <4>4. CASE m = i
        BY <1>1, <2>4, <2>5, <3>3, <4>1, <4>4
      <4> QED BY <2>5, <3>1, <4>2, <4>3, <4>4
    <3> QED BY <3>2, <3>3
  <2>7. S \in SUBSET (1..(N + 1)) /\ 1 \in S
    <3>1. E \in SUBSET (1..(N + 1))
      <4>1. N + 1 \in 1..(N + 1) /\ \A i \in 1..N : i \in 1..(N + 1)
        BY <1>1
      <4> QED BY <1>8, <4>1
    <3> QED BY <1>5, <2>5, <3>1
  <2>8. Closed(S)
    BY <2>6, <2>7
  <2> QED BY <1>4, <2>5, <2>7, <2>8
<1> QED BY <1>5, <1>6, <1>7, <1>8 DEF L, e, N

LEMMA Greatest ==
  ASSUME NEW n \in Nat, NEW T \in SUBSET (0..n), T # {}
  PROVE  \E x \in T : \A y \in T : y <= x
<1> DEFINE R == {m \in Nat : n - m \in T}
<1>1. PICK z \in T : TRUE
  OBVIOUS
<1>2. n - z \in R
  BY <1>1
<1>3. PICK m \in R : \A k \in R : m <= k
  BY <1>2, Least
<1>4. \A y \in T : n - y \in R
  OBVIOUS
<1> QED BY <1>3, <1>4

\* p lists the elements of S, the least first.
Lists(p, S) ==
  /\ p \in Seq(Nat)
  /\ \A n \in 1..Len(p) : p[n] \in S
  /\ \A i \in S : \E n \in 1..Len(p) : p[n] = i
  /\ \A m, n \in 1..Len(p) : m < n => p[m] < p[n]

LEMMA ListsCount ==
  ASSUME NEW p, NEW S, Lists(p, S)
  PROVE  IsFiniteSet(S) /\ Cardinality(S) = Len(p)
<1> DEFINE f == [n \in 1..Len(p) |-> p[n]]
<1>1. /\ p \in Seq(Nat) /\ Len(p) \in Nat /\ \A n \in 1..Len(p) : p[n] \in S /\ p[n] \in Nat
      /\ \A i \in S : \E n \in 1..Len(p) : p[n] = i
      /\ \A m, n \in 1..Len(p) : m < n => p[m] < p[n]
  BY DEF Lists
<1>2. f \in [1..Len(p) -> S]
  BY <1>1
<1>3. \A m, n \in 1..Len(p) : f[m] = f[n] => m = n
  BY <1>1, SMTT(30)
<1>4. \A i \in S : \E n \in 1..Len(p) : f[n] = i
  BY <1>1
<1> HIDE DEF f
<1>5. f \in Bijection(1..Len(p), S)
  BY <1>2, <1>3, <1>4 DEF Bijection, Injection, Surjection, IsInjective
<1>6. ExistsBijection(1..Len(p), S)
  BY <1>5 DEF ExistsBijection
<1>7. IsFiniteSet(1..Len(p))
  BY <1>1, FS_Interval
<1> QED BY <1>1, <1>6, <1>7, FS_CountingElements, FS_Bijection

LEMMA ListsFront ==
  ASSUME NEW p, NEW S, Lists(p, S), NEW k \in 0..Len(p), NEW F,
         \A i : i \in F <=> \E n \in 1..k : i = p[n]
  PROVE  Lists(SubSeq(p, 1, k), F)
<1>1. /\ p \in Seq(Nat) /\ Len(p) \in Nat /\ \A n \in 1..Len(p) : p[n] \in Nat
      /\ \A m, n \in 1..Len(p) : m < n => p[m] < p[n]
  BY DEF Lists
<1> DEFINE q == SubSeq(p, 1, k)
<1>2. q \in Seq(Nat) /\ Len(q) = k /\ \A n \in 1..k : q[n] = p[n]
  BY <1>1
<1> HIDE DEF q
<1>3. \A n \in 1..k : n \in 1..Len(p)
  BY <1>1
<1> QED BY <1>1, <1>2, <1>3, SMTT(30) DEF Lists, q

LEMMA InOrderIs ==
  ASSUME NEW p, NEW S, Lists(p, S)
  PROVE  InOrder(S) = p
<1>1. /\ p \in Seq(Nat) /\ Len(p) \in Nat /\ \A n \in 1..Len(p) : p[n] \in S /\ p[n] \in Nat
      /\ \A i \in S : \E n \in 1..Len(p) : p[n] = i
      /\ \A m, n \in 1..Len(p) : m < n => p[m] < p[n]
  BY DEF Lists
<1>2. ASSUME NEW n \in 1..Len(p) PROVE Cardinality({j \in S : j <= p[n]}) = n
  <2> DEFINE F == {j \in S : j <= p[n]}
  <2>1. n \in 0..Len(p) /\ Len(SubSeq(p, 1, n)) = n
    BY <1>1
  <2>2. ASSUME NEW i PROVE i \in F <=> \E m \in 1..n : i = p[m]
    <3>1. ASSUME i \in F PROVE \E m \in 1..n : i = p[m]
      <4>1. PICK m \in 1..Len(p) : p[m] = i
        BY <1>1, <3>1
      <4>2. ~(n < m)
        BY <1>1, <3>1, <4>1, SMTT(60)
      <4> QED BY <4>1, <4>2
    <3>2. ASSUME NEW m \in 1..n, i = p[m] PROVE i \in F
      <4>1. m \in 1..Len(p) /\ (m < n \/ m = n)
        BY <1>1
      <4>2. p[m] <= p[n]
        BY <1>1, <4>1, SMTT(30)
      <4> QED BY <1>1, <3>2, <4>1, <4>2
    <3> QED BY <3>1, <3>2
  <2> HIDE DEF F
  <2>3. Lists(SubSeq(p, 1, n), F)
    BY <2>1, <2>2, ListsFront
  <2> QED BY <2>1, <2>3, ListsCount DEF F
<1>3. ASSUME NEW n \in 1..Len(p) PROVE (CHOOSE i \in S : Cardinality({j \in S : j <= i}) = n) = p[n]
  <2>1. ASSUME NEW i \in S, Cardinality({j \in S : j <= i}) = n PROVE i = p[n]
    <3>1. PICK m \in 1..Len(p) : p[m] = i
      BY <1>1
    <3> QED BY <1>2, <2>1, <3>1
  <2>2. p[n] \in S /\ Cardinality({j \in S : j <= p[n]}) = n
    BY <1>1, <1>2
  <2> QED BY <2>1, <2>2
<1>4. Cardinality(S) = Len(p)
  BY ListsCount
<1>5. InOrder(S) = [n \in 1..Len(p) |-> p[n]]
  BY <1>3, <1>4 DEF InOrder
<1> QED BY <1>1, <1>5

LEMMA ListsMore ==
  ASSUME NEW p, NEW S, Lists(p, S), NEW i \in Nat, \A j \in S : j < i
  PROVE  Lists(Append(p, i), S \cup {i})
<1> DEFINE q == Append(p, i)
<1>1. /\ p \in Seq(Nat) /\ Len(p) \in Nat /\ \A n \in 1..Len(p) : p[n] \in S /\ p[n] \in Nat
      /\ \A j \in S : \E n \in 1..Len(p) : p[n] = j
      /\ \A m, n \in 1..Len(p) : m < n => p[m] < p[n]
  BY DEF Lists
<1>2. q \in Seq(Nat) /\ Len(q) = Len(p) + 1 /\ q[Len(p) + 1] = i /\ \A n \in 1..Len(p) : q[n] = p[n]
  BY <1>1
<1> HIDE DEF q
<1>3. \A n \in 1..Len(q) : n \in 1..Len(p) \/ n = Len(p) + 1
  BY <1>1, <1>2
<1>4. ASSUME NEW m \in 1..Len(q), NEW n \in 1..Len(q), m < n PROVE q[m] < q[n]
  <2>1. m \in 1..Len(p)
    BY <1>1, <1>2, <1>4
  <2> QED BY <1>1, <1>2, <1>3, <1>4, <2>1
<1>5. \A j \in S \cup {i} : \E n \in 1..Len(q) : q[n] = j
  <2>1. \A n \in 1..Len(p) : n \in 1..Len(q)
    BY <1>1, <1>2
  <2>2. Len(p) + 1 \in 1..Len(q)
    BY <1>1, <1>2
  <2> QED BY <1>1, <1>2, <2>1, <2>2
<1>6. \A n \in 1..Len(q) : q[n] \in S \cup {i}
  BY <1>1, <1>2, <1>3
<1> QED BY <1>2, <1>4, <1>5, <1>6 DEF Lists, q

LEMMA ListsNone ==
  /\ Lists(<<>>, {})
  /\ \A p, S : Lists(p, S) => (p = <<>> <=> S = {})
BY DEF Lists

\* The characters at the places of p.
Spelled(t, p) == [n \in 1..Len(p) |-> t[p[n]]]

\* What is left of the places S when trailing space is taken off.
Shown(t, S) == {i \in S : \E l \in S : i <= l /\ t[l] \notin Space}

\* Trailing space is what stands behind the last solid character.
LEMMA TrimIs ==
  ASSUME NEW t \in Seq(Marks), NEW S \in SUBSET (1..Len(t)), NEW p, Lists(p, S)
  PROVE  \E q : /\ Lists(q, Shown(t, S))
                /\ TrimRight(Spelled(t, p)) = Spelled(t, q)
                /\ q # <<>> => p # <<>> /\ q[1] = p[1]
<1> DEFINE s == Spelled(t, p)
           solid == {i \in DOMAIN s : s[i] \notin Space}
<1>1. /\ p \in Seq(Nat) /\ Len(p) \in Nat /\ \A n \in 1..Len(p) : p[n] \in S /\ p[n] \in Nat
      /\ \A i \in S : \E n \in 1..Len(p) : p[n] = i
      /\ \A m, n \in 1..Len(p) : m < n => p[m] < p[n]
  BY DEF Lists
<1>2. DOMAIN s = 1..Len(p) /\ \A n \in 1..Len(p) : s[n] = t[p[n]]
  BY DEF Spelled
<1>3. TrimRight(s) = IF solid = {} THEN <<>> ELSE SubSeq(s, 1, CHOOSE i \in solid : \A j \in solid : j <= i)
  BY DEF TrimRight
<1>4. \A n : n \in solid <=> n \in 1..Len(p) /\ t[p[n]] \notin Space
  BY <1>2
<1>5. CASE solid = {}
  <2>1. Shown(t, S) = {}
    <3> SUFFICES ASSUME NEW l \in S, t[l] \notin Space PROVE FALSE
      BY DEF Shown
    <3>1. PICK n \in 1..Len(p) : p[n] = l
      BY <1>1
    <3> QED BY <1>4, <1>5, <3>1
  <2>2. Lists(<<>>, Shown(t, S)) /\ TrimRight(s) = <<>>
    BY <1>3, <1>5, <2>1, ListsNone
  <2>3. Spelled(t, <<>>) = <<>>
    BY DEF Spelled
  <2> QED BY <2>2, <2>3
<1>6. CASE solid # {}
  <2> DEFINE k == CHOOSE i \in solid : \A j \in solid : j <= i
             q == SubSeq(p, 1, k)
  <2>1. k \in solid /\ \A j \in solid : j <= k
    <3>1. solid \in SUBSET (0..Len(p))
      BY <1>1, <1>4
    <3> HIDE DEF solid
    <3>2. \E i \in solid : \A j \in solid : j <= i
      BY <1>1, <1>6, <3>1, Greatest
    <3> QED BY <3>2
  <2> HIDE DEF k, solid
  <2>2. k \in 1..Len(p) /\ t[p[k]] \notin Space
    BY <1>4, <2>1
  <2>3. ASSUME NEW i PROVE i \in Shown(t, S) <=> \E n \in 1..k : i = p[n]
    <3>1. ASSUME i \in Shown(t, S) PROVE \E n \in 1..k : i = p[n]
      <4>1. PICK l \in S : i <= l /\ t[l] \notin Space
        BY <3>1 DEF Shown
      <4>2. PICK m \in 1..Len(p) : p[m] = l
        BY <1>1
      <4>3. PICK n \in 1..Len(p) : p[n] = i
        BY <1>1, <3>1 DEF Shown
      <4>4. m <= k
        BY <1>4, <2>1, <4>1, <4>2
      <4>5. ~(m < n)
        BY <1>1, <4>1, <4>2, <4>3, SMTT(60)
      <4> QED BY <2>2, <4>2, <4>3, <4>4, <4>5
    <3>2. ASSUME NEW n \in 1..k, i = p[n] PROVE i \in Shown(t, S)
      <4>1. n \in 1..Len(p) /\ (n < k \/ n = k)
        BY <1>1, <2>2
      <4>2. p[n] <= p[k] /\ p[k] \in S /\ p[n] \in S
        BY <1>1, <2>2, <4>1, SMTT(60)
      <4> QED BY <2>2, <3>2, <4>2 DEF Shown
    <3> QED BY <3>1, <3>2
  <2>4. Lists(q, Shown(t, S))
    <3> HIDE DEF q
    <3>1. k \in 0..Len(p)
      BY <1>1, <2>2
    <3> QED BY <2>3, <3>1, ListsFront DEF q
  <2>5. Len(q) = k /\ q \in Seq(Nat) /\ \A n \in 1..k : q[n] = p[n]
    BY <1>1, <2>2, SMTT(30)
  <2>6. TrimRight(s) = SubSeq(s, 1, k)
    BY <1>3, <1>6 DEF k, solid
  <2>7. SubSeq(s, 1, k) = [n \in 1..k |-> s[n]]
    <3>1. SubSeq(s, 1, k) = [n \in 1..((k - 1) + 1) |-> s[(n + 1) - 1]]
      BY <1>1, <2>2
    <3>2. (k - 1) + 1 = k /\ \A n \in 1..k : (n + 1) - 1 = n
      BY <2>2
    <3> HIDE DEF s, k
    <3> QED BY <3>1, <3>2
  <2>8. \A n \in 1..k : n \in 1..Len(p)
    BY <1>1, <2>2
  <2>9. Spelled(t, q) = [n \in 1..k |-> t[p[n]]]
    BY <2>5 DEF Spelled
  <2>10. TrimRight(s) = Spelled(t, q)
    <3> HIDE DEF s, k, q
    <3> QED BY <1>2, <2>6, <2>7, <2>8, <2>9
  <2>11. p # <<>> /\ q[1] = p[1]
    BY <1>1, <2>2, <2>5
  <2> QED BY <2>4, <2>10, <2>11
<1> QED BY <1>5, <1>6

\* The places of a piece from its first solid character on.
Begun(t, piece) == {i \in piece : \E l \in Solid(t, piece) : l <= i}
\* What the scanner has collected of a piece, and the line it gives it.
Buffered(t, piece, b, start) ==
  \E p : /\ Lists(p, Begun(t, piece)) /\ b = Spelled(t, p)
         /\ p # <<>> => start = 1 + Newlines(t, p[1] - 1)

LEMMA PieceIs ==
  ASSUME NEW K \in SUBSET Nat, NEW C \in SUBSET K, NEW c \in Nat
  PROVE  /\ Piece(K, C, c) \subseteq K /\ \A i \in Piece(K, C, c) : i < c
         /\ c \in K \ C => Piece(K, C, c + 1) = Piece(K, C, c) \cup {c}
         /\ c \in C => Piece(K, C, c + 1) = {}
<1>1. \A i \in K : i \in Nat /\ (i < c + 1 <=> i < c \/ i = c)
  OBVIOUS
<1>2. \A d \in C : d \in Nat /\ (d < c + 1 <=> d < c \/ d = c) /\ ~(c < c)
  OBVIOUS
<1>3. c \notin C => \A d \in C : d < c + 1 <=> d < c
  BY <1>2
<1>4. \A i : i \in Piece(K, C, c) <=> i \in K /\ i < c /\ \A d \in C : d < c => d < i
  BY DEF Piece
<1>5. \A i : i \in Piece(K, C, c + 1) <=> i \in K /\ i < c + 1 /\ \A d \in C : d < c + 1 => d < i
  BY DEF Piece
<1>7. ASSUME c \in K \ C PROVE Piece(K, C, c + 1) = Piece(K, C, c) \cup {c}
  <2>1. ASSUME NEW i PROVE i \in Piece(K, C, c + 1) <=> i \in Piece(K, C, c) \/ i = c
    BY <1>1, <1>3, <1>4, <1>5, <1>7
  <2> QED BY <2>1
<1>8. ASSUME c \in C PROVE Piece(K, C, c + 1) = {}
  <2>1. ASSUME NEW i \in Piece(K, C, c + 1) PROVE FALSE
    <3>0. c < c + 1 /\ c \in C
      BY <1>2, <1>8
    <3>1. i \in K /\ i < c + 1 /\ \A d \in C : d < c + 1 => d < i
      BY <1>5
    <3>2. c < i /\ i \in Nat
      BY <3>0, <3>1
    <3> QED BY <3>1, <3>2
  <2> QED BY <2>1
<1> QED BY <1>4, <1>7, <1>8

LEMMA SpelledIs ==
  ASSUME NEW t, NEW p \in Seq(Nat)
  PROVE  /\ DOMAIN Spelled(t, p) = 1..Len(p) /\ Len(Spelled(t, p)) = Len(p)
         /\ Spelled(t, p) = <<>> <=> p = <<>>
         /\ \A i \in Nat : Spelled(t, Append(p, i)) = Append(Spelled(t, p), t[i])
<1> DEFINE s == Spelled(t, p)
<1>1. Len(p) \in Nat /\ DOMAIN s = 1..Len(p)
  BY DEF Spelled
<1>2. Len(s) = Len(p) /\ s \in Seq({t[p[n]] : n \in 1..Len(p)})
  BY <1>1 DEF Spelled
<1>3. s = <<>> <=> p = <<>>
  BY <1>1, <1>2
<1>4. ASSUME NEW i \in Nat PROVE Spelled(t, Append(p, i)) = Append(s, t[i])
  <2> DEFINE q == Append(p, i)
             r == Append(s, t[i])
  <2>1. q \in Seq(Nat) /\ Len(q) = Len(p) + 1 /\ q[Len(p) + 1] = i /\ \A n \in 1..Len(p) : q[n] = p[n]
    OBVIOUS
  <2>2. Spelled(t, q) = [n \in 1..(Len(p) + 1) |-> t[q[n]]]
    BY <2>1 DEF Spelled
  <2>3. /\ r = [n \in 1..(Len(p) + 1) |-> r[n]] /\ r[Len(p) + 1] = t[i]
        /\ \A n \in 1..Len(p) : r[n] = s[n]
    <3> DEFINE V == {t[p[n]] : n \in 1..Len(p)} \cup {t[i]}
    <3>1. s \in Seq(V) /\ t[i] \in V
      <4>1. {t[p[n]] : n \in 1..Len(p)} \subseteq V
        OBVIOUS
      <4> HIDE DEF s
      <4> QED BY <1>2, <4>1
    <3> HIDE DEF s, V
    <3> QED BY <1>2, <3>1
  <2>4. \A n \in 1..(Len(p) + 1) : n \in 1..Len(p) \/ n = Len(p) + 1
    BY <1>1
  <2>5. \A n \in 1..Len(p) : s[n] = t[p[n]]
    BY DEF Spelled
  <2>6. \A n \in 1..(Len(p) + 1) : r[n] = t[q[n]]
    <3> HIDE DEF r, q, s
    <3> QED BY <2>1, <2>3, <2>4, <2>5
  <2> HIDE DEF r, q, s
  <2>7. Spelled(t, q) = r
    BY <2>2, <2>3, <2>6
  <2> QED BY <2>7 DEF q, r
<1> QED BY <1>1, <1>2, <1>3, <1>4

LEMMA BufferIs ==
  ASSUME NEW t, NEW piece \in SUBSET Nat, NEW b, NEW start, Buffered(t, piece, b, start)
  PROVE  b = <<>> <=> Solid(t, piece) = {}
<1>1. PICK p : Lists(p, Begun(t, piece)) /\ b = Spelled(t, p)
  BY DEF Buffered
<1>2. p \in Seq(Nat) /\ (b = <<>> <=> p = <<>>)
  BY <1>1, SpelledIs DEF Lists
<1>3. p = <<>> <=> Begun(t, piece) = {}
  BY <1>1, ListsNone
<1>4. ASSUME NEW l \in Solid(t, piece) PROVE Begun(t, piece) # {}
  <2>1. l \in piece /\ l <= l
    BY DEF Solid
  <2> QED BY <2>1 DEF Begun
<1>5. Solid(t, piece) = {} => Begun(t, piece) = {}
  BY DEF Begun
<1> QED BY <1>2, <1>3, <1>4, <1>5

LEMMA BufferNone == \A t, start : Buffered(t, {}, <<>>, start)
<1> SUFFICES ASSUME NEW t, NEW start PROVE Buffered(t, {}, <<>>, start)
  OBVIOUS
<1>1. Begun(t, {}) = {} /\ Spelled(t, <<>>) = <<>>
  BY DEF Begun, Spelled
<1>2. Lists(<<>>, Begun(t, {}))
  BY <1>1, ListsNone
<1> QED BY <1>1, <1>2 DEF Buffered

\* A character is collected, unless it is space before the first solid one.
LEMMA BufferPut ==
  ASSUME NEW t, NEW piece \in SUBSET Nat, NEW b, NEW start, Buffered(t, piece, b, start),
         NEW c \in Nat, \A i \in piece : i < c, NEW begin,
         begin = IF b = <<>> THEN 1 + Newlines(t, c - 1) ELSE start
  PROVE  /\ t[c] \notin Space \/ b # <<>> => Buffered(t, piece \cup {c}, Append(b, t[c]), begin)
         /\ t[c] \in Space /\ b = <<>> => \A any : Buffered(t, piece \cup {c}, b, any)
<1> DEFINE more == piece \cup {c}
<1>1. PICK p : /\ Lists(p, Begun(t, piece)) /\ b = Spelled(t, p)
               /\ p # <<>> => start = 1 + Newlines(t, p[1] - 1)
  BY DEF Buffered
<1>2. p \in Seq(Nat) /\ (b = <<>> <=> p = <<>>) /\ (b = <<>> <=> Solid(t, piece) = {})
  <2>1. p \in Seq(Nat)
    BY <1>1 DEF Lists
  <2>2. b = <<>> <=> p = <<>>
    BY <1>1, <2>1, SpelledIs
  <2>3. b = <<>> <=> Solid(t, piece) = {}
    BY BufferIs
  <2> QED BY <2>1, <2>2, <2>3
<1>3. Solid(t, more) = Solid(t, piece) \cup {i \in {c} : t[i] \notin Space}
  BY DEF Solid
<1>4. Solid(t, piece) \subseteq piece /\ (\A l \in piece : ~(c <= l) /\ l <= c) /\ c <= c
  BY DEF Solid
<1>5. ASSUME t[c] \notin Space \/ b # <<>> PROVE Buffered(t, more, Append(b, t[c]), begin)
  <2>1. Begun(t, more) = Begun(t, piece) \cup {c}
    <3>1. ASSUME NEW i PROVE i \in Begun(t, more) <=> i \in Begun(t, piece) \/ i = c
      <4>1. CASE i = c
        <5>1. \E l \in Solid(t, more) : l <= c
          BY <1>2, <1>3, <1>4, <1>5
        <5> QED BY <4>1, <5>1 DEF Begun
      <4>2. CASE i # c /\ i \in piece
        <5>1. \A l \in Solid(t, more) : l <= i => l \in Solid(t, piece)
          BY <1>3, <1>4, <4>2
        <5>2. Solid(t, piece) \subseteq Solid(t, more)
          BY <1>3
        <5> QED BY <4>2, <5>1, <5>2 DEF Begun
      <4>3. CASE i # c /\ i \notin piece
        BY <4>3 DEF Begun
      <4> QED BY <4>1, <4>2, <4>3
    <3> QED BY <3>1
  <2>2. Lists(Append(p, c), Begun(t, more))
    <3>1. \A j \in Begun(t, piece) : j < c
      BY DEF Begun
    <3> HIDE DEF more
    <3>2. Lists(Append(p, c), Begun(t, piece) \cup {c})
      BY <1>1, <3>1, ListsMore
    <3> QED BY <2>1, <3>2
  <2>3. Append(b, t[c]) = Spelled(t, Append(p, c))
    BY <1>1, <1>2, SpelledIs
  <2>4. begin = 1 + Newlines(t, Append(p, c)[1] - 1)
    <3>1. CASE p = <<>>
      <4>1. Append(p, c)[1] = c
        BY <3>1
      <4> QED BY <1>2, <3>1, <4>1
    <3>2. CASE p # <<>>
      <4>1. Append(p, c)[1] = p[1]
        BY <1>2, <3>2
      <4> QED BY <1>1, <1>2, <3>2, <4>1
    <3> QED BY <3>1, <3>2
  <2> QED BY <2>2, <2>3, <2>4 DEF Buffered
<1>6. ASSUME t[c] \in Space, b = <<>>, NEW any PROVE Buffered(t, more, b, any)
  <2>1. Solid(t, more) = {}
    BY <1>2, <1>3, <1>6
  <2>2. Begun(t, more) = {}
    BY <2>1 DEF Begun
  <2> HIDE DEF more
  <2>3. Lists(<<>>, Begun(t, more))
    BY <2>2, ListsNone
  <2>4. b = Spelled(t, <<>>)
    BY <1>6 DEF Spelled
  <2> QED BY <2>3, <2>4 DEF Buffered
<1> QED BY <1>5, <1>6

\* What a flush makes of a piece is the statement of the piece, if it has one.
LEMMA FlushIs ==
  ASSUME NEW t \in Seq(Marks), NEW piece \in SUBSET (1..Len(t)), NEW b, NEW start,
         Buffered(t, piece, b, start)
  PROVE  /\ TrimRight(b) = <<>> <=> Solid(t, piece) = {}
         /\ Solid(t, piece) # {} =>
              [sql |-> TrimRight(b), line |-> start] = StatementAt(t, InOrder(Between(t, piece)))
<1> DEFINE S == Begun(t, piece)
           F == Shown(t, S)
<1>1. PICK p : /\ Lists(p, S) /\ b = Spelled(t, p)
               /\ p # <<>> => start = 1 + Newlines(t, p[1] - 1)
  BY DEF Buffered
<1>2. S \in SUBSET (1..Len(t))
  BY DEF Begun
<1> HIDE DEF S
<1>3. PICK q : Lists(q, F) /\ TrimRight(b) = Spelled(t, q) /\ (q # <<>> => p # <<>> /\ q[1] = p[1])
  BY <1>1, <1>2, TrimIs
<1> USE DEF S
<1>4. F = Between(t, piece)
  <2>1. ASSUME NEW i \in F PROVE i \in Between(t, piece)
    <3>1. PICK l \in S : i <= l /\ t[l] \notin Space
      BY <2>1 DEF Shown
    <3>2. l \in Solid(t, piece) /\ i \in piece /\ \E k \in Solid(t, piece) : k <= i
      BY <2>1, <3>1 DEF Begun, Solid, Shown
    <3> QED BY <3>1, <3>2 DEF Between
  <2>2. ASSUME NEW i \in Between(t, piece) PROVE i \in F
    <3>1. PICK k \in Solid(t, piece), l \in Solid(t, piece) : i \in piece /\ k <= i /\ i <= l
      BY <2>2 DEF Between
    <3>2. l \in piece /\ t[l] \notin Space /\ l <= l
      BY <3>1 DEF Solid
    <3>3. l \in S /\ i \in S
      BY <3>1, <3>2 DEF Begun
    <3> QED BY <3>1, <3>2, <3>3 DEF Shown
  <2> QED BY <2>1, <2>2
<1> HIDE DEF F, S
<1>5. q \in Seq(Nat) /\ (TrimRight(b) = <<>> <=> q = <<>>) /\ InOrder(Between(t, piece)) = q
  <2>1. q \in Seq(Nat)
    BY <1>3 DEF Lists
  <2>2. Spelled(t, q) = <<>> <=> q = <<>>
    BY <2>1, SpelledIs
  <2>3. InOrder(F) = q
    BY <1>3, InOrderIs
  <2> QED BY <1>3, <1>4, <2>1, <2>2, <2>3
<1>6. q = <<>> <=> Between(t, piece) = {}
  BY <1>3, <1>4, ListsNone
<1>7. Between(t, piece) = {} <=> Solid(t, piece) = {}
  <2>1. \A l \in Solid(t, piece) : l \in Between(t, piece)
    <3>1. \A l \in Solid(t, piece) : l \in piece /\ l <= l
      BY DEF Solid
    <3> QED BY <3>1 DEF Between
  <2>2. Solid(t, piece) = {} => Between(t, piece) = {}
    BY DEF Between
  <2> QED BY <2>1, <2>2
<1>8. ASSUME Solid(t, piece) # {}
      PROVE  [sql |-> TrimRight(b), line |-> start] = StatementAt(t, q)
  <2>1. q # <<>> /\ start = 1 + Newlines(t, q[1] - 1)
    BY <1>1, <1>3, <1>6, <1>7, <1>8
  <2>2. DOMAIN q = 1..Len(q)
    BY <1>5
  <2>3. TrimRight(b) = [n \in DOMAIN q |-> t[q[n]]]
    BY <1>3, <2>2 DEF Spelled
  <2> QED BY <2>1, <2>3 DEF StatementAt
<1> QED BY <1>5, <1>6, <1>7, <1>8

LEMMA InductUpTo ==
  ASSUME NEW n \in Nat, NEW D, 0 \in D, \A d \in 0..n : d \in D /\ d < n => d + 1 \in D
  PROVE  \A d \in 0..n : d \in D
<1> DEFINE B == {d \in 0..n : d \notin D}
<1>1. SUFFICES ASSUME B # {} PROVE FALSE
  OBVIOUS
<1>2. PICK m \in B : \A d \in B : m <= d
  <2>1. B \in SUBSET Nat
    OBVIOUS
  <2> HIDE DEF B
  <2> QED BY <1>1, <2>1, Least
<1>3. m # 0 /\ m - 1 \in 0..n /\ m - 1 < n /\ (m - 1) + 1 = m /\ m \notin D /\ ~(m <= m - 1)
  BY <1>2
<1>4. m - 1 \in D
  BY <1>2, <1>3
<1> QED BY <1>3, <1>4

\* The recursion of the scan defines a function.
LEMMA ScanIs ==
  ASSUME NEW t \in Seq(Marks)
  PROVE  /\ Scanned(t)[0] = Fresh
         /\ \A i \in 1..Len(t) : Scanned(t)[i] =
              ScanByte(Scanned(t)[i - 1], t[i], IF i < Len(t) THEN t[i + 1] ELSE "")
<1> DEFINE N == Len(t)
           step(st, i) == ScanByte(st, t[i], IF i < N THEN t[i + 1] ELSE "")
           Eq(f) == f = [i \in 0..N |-> IF i = 0 THEN Fresh ELSE step(f[i - 1], i)]
           To(f, d) == f = [i \in 0..N |-> f[i]] /\ f[0] = Fresh /\ \A i \in 1..d : f[i] = step(f[i - 1], i)
           D == {d \in 0..N : \E f : To(f, d)}
<1>1. N \in Nat
  OBVIOUS
<1>2. Scanned(t) = CHOOSE f : Eq(f)
  BY DEF Scanned
<1> HIDE DEF N, step
<1>3. 0 \in D
  <2> DEFINE f == [i \in 0..N |-> Fresh]
  <2>1. To(f, 0)
    BY <1>1
  <2> HIDE DEF To, f
  <2> QED BY <1>1, <2>1
<1>4. ASSUME NEW d \in 0..N, d \in D, d < N PROVE d + 1 \in D
  <2>1. PICK f : To(f, d)
    BY <1>4
  <2> DEFINE g == [i \in 0..N |-> IF i = d + 1 THEN step(f[d], d + 1) ELSE f[i]]
  <2>2. d + 1 \in 0..N /\ d \in 0..N /\ d # d + 1 /\ 0 # d + 1 /\ 0 \in 0..N /\ (d + 1) - 1 = d
    BY <1>1, <1>4
  <2>3. g = [i \in 0..N |-> g[i]] /\ g[0] = Fresh /\ g[d + 1] = step(g[d], d + 1)
    BY <2>1, <2>2
  <2>4. ASSUME NEW i \in 1..d PROVE g[i] = step(g[i - 1], i)
    <3>1. i \in 0..N /\ i - 1 \in 0..N /\ i # d + 1 /\ i - 1 # d + 1
      BY <1>1, <1>4
    <3> QED BY <2>1, <3>1
  <2>5. \A i \in 1..(d + 1) : i \in 1..d \/ i = d + 1
    BY <1>4
  <2>6. To(g, d + 1)
    <3> HIDE DEF g
    <3> QED BY <2>2, <2>3, <2>4, <2>5
  <2> HIDE DEF To, g
  <2> QED BY <2>2, <2>6
<1>5. N \in D
  <2> HIDE DEF D
  <2>1. \A d \in 0..N : d \in D
    BY <1>1, <1>3, <1>4, InductUpTo
  <2> QED BY <1>1, <2>1
<1>6. PICK f : To(f, N)
  BY <1>5
<1>7. Eq(f)
  <2>1. \A i \in 0..N : f[i] = IF i = 0 THEN Fresh ELSE step(f[i - 1], i)
    <3> SUFFICES ASSUME NEW i \in 0..N PROVE f[i] = IF i = 0 THEN Fresh ELSE step(f[i - 1], i)
      OBVIOUS
    <3>1. i = 0 \/ i \in 1..N
      BY <1>1
    <3>2. f[0] = Fresh /\ \A j \in 1..N : f[j] = step(f[j - 1], j) /\ j # 0
      BY <1>1, <1>6
    <3> HIDE DEF To
    <3> QED BY <3>1, <3>2
  <2>2. f = [i \in 0..N |-> f[i]]
    BY <1>6
  <2>3. [i \in 0..N |-> f[i]] = [i \in 0..N |-> IF i = 0 THEN Fresh ELSE step(f[i - 1], i)]
    BY <2>1
  <2> HIDE DEF To
  <2> QED BY <2>2, <2>3
<1>8. Eq(Scanned(t))
  <2> HIDE DEF Eq
  <2> QED BY <1>2, <1>7
<1>9. 0 \in 0..N /\ \A i \in 1..N : i \in 0..N /\ i # 0
  BY <1>1
<1> DEFINE s == Scanned(t)
<1>10. Eq(s)
  BY <1>8
<1> HIDE DEF s
<1>11. s[0] = Fresh /\ \A i \in 1..N : s[i] = step(s[i - 1], i)
  BY <1>9, <1>10
<1> QED BY <1>11 DEF s, N, step

LEMMA NewlinesNext ==
  ASSUME NEW t
  PROVE  /\ Newlines(t, 0) = 0
         /\ \A c \in Nat \ {0} : /\ Newlines(t, c) \in Nat
                                 /\ Newlines(t, c - 1) \in Nat
                                 /\ Newlines(t, c) = Newlines(t, c - 1) + IF t[c] = "nl" THEN 1 ELSE 0
<1> DEFINE F(i) == {k \in 1..i : t[k] = "nl"}
<1>1. F(0) = {}
  OBVIOUS
<1>2. ASSUME NEW c \in Nat \ {0}
      PROVE  /\ Cardinality(F(c)) \in Nat /\ Cardinality(F(c - 1)) \in Nat
             /\ Cardinality(F(c)) = Cardinality(F(c - 1)) + IF t[c] = "nl" THEN 1 ELSE 0
  <2>1. IsFiniteSet(1..(c - 1))
    BY FS_Interval
  <2>2. IsFiniteSet(F(c - 1)) /\ Cardinality(F(c - 1)) \in Nat
    BY <2>1, FS_Subset, FS_CardinalityType
  <2>3. c \notin F(c - 1) /\ \A k : k \in 1..c <=> k \in 1..(c - 1) \/ k = c
    OBVIOUS
  <2>4. F(c) = IF t[c] = "nl" THEN F(c - 1) \cup {c} ELSE F(c - 1)
    BY <2>3
  <2>5. Cardinality(F(c - 1) \cup {c}) = Cardinality(F(c - 1)) + 1
    <3> HIDE DEF F
    <3> QED BY <2>2, <2>3, FS_AddElement
  <2> HIDE DEF F
  <2> QED BY <2>2, <2>4, <2>5
<1>3. Newlines(t, 0) = 0
  BY <1>1, FS_EmptySet DEF Newlines
<1> QED BY <1>2, <1>3 DEF Newlines

KeptOf(t) == Written(t, Lexemes(t))
CutsOf(t) == Cuts(t, Lexemes(t))

\* A character is kept or not by the lexeme it belongs to, and may only cut as
\* one by itself.
LEMMA KeptIs ==
  ASSUME NEW t \in Seq(Marks)
  PROVE  /\ KeptOf(t) \subseteq 1..Len(t) /\ CutsOf(t) \subseteq KeptOf(t)
         /\ \A s \in Lexemes(t) : \A k \in s..LexEnd(t, s) :
              /\ k \in KeptOf(t) <=> ~Comment(t, s)
              /\ k \in CutsOf(t) <=> k = s /\ t[s] = ";"
<1> DEFINE N == Len(t)
<1>1. /\ N \in Nat /\ \A s \in Lexemes(t) : s \in 1..N /\ LexEnd(t, s) \in s..N
      /\ \A j, k \in Lexemes(t) : j < k => LexEnd(t, j) < k
  BY LexemesAre, LexEndIs
<1>2. \A i : i \in KeptOf(t) <=> \E k \in Lexemes(t) : ~Comment(t, k) /\ i \in k..LexEnd(t, k)
  BY DEF KeptOf, Written
<1>3. \A i : i \in CutsOf(t) <=> i \in Lexemes(t) /\ t[i] = ";"
  BY DEF CutsOf, Cuts
<1> HIDE DEF N
<1>4. ASSUME NEW s \in Lexemes(t), NEW k \in s..LexEnd(t, s), NEW m \in Lexemes(t), k \in m..LexEnd(t, m)
      PROVE  m = s
  <2>1. s \in Nat /\ m \in Nat /\ LexEnd(t, s) \in Nat /\ LexEnd(t, m) \in Nat /\ k \in Nat
    BY <1>1, <1>4
  <2>2. ~(m < s) /\ ~(s < m)
    BY <1>1, <1>4, <2>1
  <2> QED BY <2>1, <2>2
<1>5. ASSUME NEW s \in Lexemes(t), NEW k \in s..LexEnd(t, s)
      PROVE  k \in KeptOf(t) <=> ~Comment(t, s)
  BY <1>2, <1>4
<1>6. ASSUME NEW s \in Lexemes(t), NEW k \in s..LexEnd(t, s)
      PROVE  k \in CutsOf(t) <=> k = s /\ t[s] = ";"
  <2>1. ASSUME k \in Lexemes(t) PROVE k = s
    <3>1. k \in k..LexEnd(t, k)
      BY <1>1, <2>1
    <3> QED BY <1>4, <2>1, <3>1
  <2> QED BY <1>3, <2>1
<1>7. KeptOf(t) \subseteq 1..N
  <2>1. ASSUME NEW i \in KeptOf(t) PROVE i \in 1..N
    <3>1. PICK k \in Lexemes(t) : i \in k..LexEnd(t, k)
      BY <1>2
    <3> QED BY <1>1, <3>1
  <2> QED BY <2>1
<1>8. ASSUME NEW c \in CutsOf(t) PROVE c \in KeptOf(t)
  <2>1. c \in Lexemes(t) /\ t[c] = ";" /\ ~Comment(t, c)
    BY <1>3 DEF Comment
  <2>2. c \in c..LexEnd(t, c)
    <3>1. c \in 1..N /\ LexEnd(t, c) \in c..N
      BY <1>1, <2>1
    <3> QED BY <1>1, <3>1
  <2> QED BY <1>2, <2>1, <2>2
<1> QED BY <1>5, <1>6, <1>7, <1>8 DEF N

Modes == Quotes \cup {"", "--", "/*"}
NextLine(line, ch) == IF ch = "nl" THEN line + 1 ELSE line
\* The fields of a state of the scanner.
Is(st, out, b, line, start, in, skip) ==
  /\ DOMAIN st = {"out", "b", "line", "start", "in", "skip"}
  /\ st.out = out /\ st.b = b /\ st.line = line /\ st.start = start /\ st.in = in /\ st.skip = skip

LEMMA StMoves ==
  ASSUME NEW st, NEW o, NEW b, NEW line, NEW start, NEW in, NEW skip, NEW ch,
         Is(st, o, b, line, start, in, skip)
  PROVE  /\ Is([st EXCEPT !.skip = FALSE], o, b, line, start, in, FALSE)
         /\ \A x : Is([st EXCEPT !.in = x], o, b, line, start, x, skip)
         /\ \A x : Is([st EXCEPT !.start = x], o, b, line, x, in, skip)
         /\ \A x : Is([st EXCEPT !.in = x, !.skip = TRUE], o, b, line, start, x, TRUE)
         /\ Is([st EXCEPT !.skip = TRUE], o, b, line, start, in, TRUE)
         /\ Is(Newline(st, ch), o, b, NextLine(line, ch), start, in, skip)
         /\ Is(Put(st, ch), o, Append(b, ch), NextLine(line, ch), start, in, skip)
         /\ Is(flush(st), IF TrimRight(b) = <<>> THEN o ELSE Append(o, [sql |-> TrimRight(b), line |-> start]),
               <<>>, line, start, in, skip)
<1>1. Is([st EXCEPT !.skip = FALSE], o, b, line, start, in, FALSE)
  BY DEF Is
<1>2. \A x : Is([st EXCEPT !.in = x], o, b, line, start, x, skip)
  BY DEF Is
<1>3. \A x : Is([st EXCEPT !.start = x], o, b, line, x, in, skip)
  BY DEF Is
<1>4. \A x : Is([st EXCEPT !.in = x, !.skip = TRUE], o, b, line, start, x, TRUE)
  BY DEF Is
<1>5. Is([st EXCEPT !.skip = TRUE], o, b, line, start, in, TRUE)
  BY DEF Is
<1>6. Is(Newline(st, ch), o, b, NextLine(line, ch), start, in, skip)
  BY DEF Is, Newline, NextLine
<1>7. Is(Put(st, ch), o, Append(b, ch), NextLine(line, ch), start, in, skip)
  BY <1>6 DEF Is, Put
<1>8. Is(flush(st), IF TrimRight(b) = <<>> THEN o ELSE Append(o, [sql |-> TrimRight(b), line |-> start]),
         <<>>, line, start, in, skip)
  BY DEF Is, flush
<1> QED BY <1>1, <1>2, <1>3, <1>4, <1>5, <1>6, <1>7, <1>8

\* What one character does, by the mode of the scanner.
LEMMA ScanSkips ==
  ASSUME NEW st, NEW o, NEW b, NEW line, NEW start, NEW in, NEW ch, NEW next,
         Is(st, o, b, line, start, in, TRUE)
  PROVE  Is(ScanByte(st, ch, next), o, b, line, start, in, FALSE)
<1>1. st.skip = TRUE
  BY DEF Is
<1>2. ScanByte(st, ch, next) = [st EXCEPT !.skip = FALSE]
  BY <1>1 DEF ScanByte
<1>3. Is([st EXCEPT !.skip = FALSE], o, b, line, start, in, FALSE)
  BY StMoves
<1> QED BY <1>2, <1>3

LEMMA ScanLine ==
  ASSUME NEW st, NEW o, NEW b, NEW line, NEW start, NEW ch, NEW next,
         Is(st, o, b, line, start, "--", FALSE)
  PROVE  Is(ScanByte(st, ch, next), o, b, NextLine(line, ch), start, IF ch = "nl" THEN "" ELSE "--", FALSE)
<1>1. ~st.skip /\ st.in = "--"
  BY DEF Is
<1>2. ScanByte(st, ch, next) = IF ch = "nl" THEN [Newline(st, ch) EXCEPT !.in = ""] ELSE st
  BY <1>1 DEF ScanByte
<1>3. Is(Newline(st, ch), o, b, NextLine(line, ch), start, "--", FALSE)
  BY StMoves
<1>4. Is([Newline(st, ch) EXCEPT !.in = ""], o, b, NextLine(line, ch), start, "", FALSE)
  BY <1>3, StMoves
<1> QED BY <1>2, <1>4 DEF NextLine

LEMMA ScanBlock ==
  ASSUME NEW st, NEW o, NEW b, NEW line, NEW start, NEW ch, NEW next,
         Is(st, o, b, line, start, "/*", FALSE)
  PROVE  IF ch = "*" /\ next = "/"
         THEN Is(ScanByte(st, ch, next), o, b, line, start, "", TRUE)
         ELSE Is(ScanByte(st, ch, next), o, b, NextLine(line, ch), start, "/*", FALSE)
<1>1. ~st.skip /\ st.in = "/*"
  BY DEF Is
<1>2. ScanByte(st, ch, next) = IF ch = "*" /\ next = "/" THEN [st EXCEPT !.in = "", !.skip = TRUE] ELSE Newline(st, ch)
  BY <1>1 DEF ScanByte
<1>3. Is(Newline(st, ch), o, b, NextLine(line, ch), start, "/*", FALSE)
  BY StMoves
<1>4. Is([st EXCEPT !.in = "", !.skip = TRUE], o, b, line, start, "", TRUE)
  BY StMoves
<1> QED BY <1>2, <1>3, <1>4

LEMMA ScanBlank ==
  ASSUME NEW st, NEW o, NEW line, NEW start, NEW in \in Modes \ {"--", "/*"}, NEW ch \in Space, NEW next,
         Is(st, o, <<>>, line, start, in, FALSE)
  PROVE  Is(ScanByte(st, ch, next), o, <<>>, NextLine(line, ch), start, in, FALSE)
<1>1. ~st.skip /\ st.in = in /\ st.b = <<>>
  BY DEF Is
<1>2. ScanByte(st, ch, next) = Newline(st, ch)
  BY <1>1 DEF ScanByte
<1>3. Is(Newline(st, ch), o, <<>>, NextLine(line, ch), start, in, FALSE)
  BY StMoves
<1> QED BY <1>2, <1>3

LEMMA ScanOther ==
  ASSUME NEW st, NEW o, NEW b, NEW line, NEW start, NEW in \in Modes \ {"--", "/*"}, NEW ch, NEW next,
         Is(st, o, b, line, start, in, FALSE), ~(b = <<>> /\ ch \in Space),
         NEW begin, begin = IF b = <<>> THEN line ELSE start
  PROVE  LET r == ScanByte(st, ch, next)
             doubled == ch = "sq" /\ in = "sq" /\ next = "sq"
             dashes == in \notin Quotes /\ ch = "-" /\ next = "-"
             slash == in \notin Quotes /\ ch = "/" /\ next = "*"
             quotes == ch \in Quotes /\ in \in {"", ch}
             ends == ch = ";" /\ in \notin Quotes
         IN  /\ dashes => Is(r, o, b, line, begin, "--", TRUE)
             /\ slash => Is(r, o, b, line, begin, "/*", TRUE)
             /\ doubled => Is(r, o, Append(Append(b, ch), ch), line, begin, in, TRUE)
             /\ quotes /\ ~doubled => Is(r, o, Append(b, ch), line, begin, IF in = "" THEN ch ELSE "", FALSE)
             /\ ends => Is(r, IF TrimRight(b) = <<>> THEN o ELSE Append(o, [sql |-> TrimRight(b), line |-> begin]),
                           <<>>, line, begin, in, FALSE)
             /\ ~dashes /\ ~slash /\ ~quotes /\ ~ends
                  => Is(r, o, Append(b, ch), NextLine(line, ch), begin, in, FALSE)
<1> DEFINE r == ScanByte(st, ch, next)
           u == IF st.b = <<>> THEN [st EXCEPT !.start = st.line] ELSE st
           doubled == ch = "sq" /\ in = "sq" /\ next = "sq"
           dashes == in \notin Quotes /\ ch = "-" /\ next = "-"
           slash == in \notin Quotes /\ ch = "/" /\ next = "*"
           quotes == ch \in Quotes /\ in \in {"", ch}
           ends == ch = ";" /\ in \notin Quotes
<1>1. st.b = b /\ st.line = line /\ ~st.skip /\ st.in = in /\ st.start = start
  BY DEF Is
<1>2. Is(u, o, b, line, begin, in, FALSE)
  <2>1. CASE b = <<>>
    BY <1>1, <2>1, StMoves
  <2>2. CASE b # <<>>
    BY <1>1, <2>2
  <2> QED BY <2>1, <2>2
<1>3. u.in = in
  BY <1>2 DEF Is
<1>4. /\ in \notin {"--", "/*"} /\ \A x : x \in Quotes <=> x = "sq" \/ x = "dq" \/ x = "bt"
      /\ in \in Quotes \/ in = ""
  BY DEF Modes, Quotes
<1>5. r = CASE u.in \notin Quotes /\ ch = "-" /\ next = "-" -> [u EXCEPT !.in = "--", !.skip = TRUE]
            [] u.in \notin Quotes /\ ch = "/" /\ next = "*" -> [u EXCEPT !.in = "/*", !.skip = TRUE]
            [] ch = "sq" /\ u.in = "sq" /\ next = "sq" -> [Put(Put(u, ch), ch) EXCEPT !.skip = TRUE]
            [] ch \in Quotes /\ u.in \in {"", ch} /\ ~(ch = "sq" /\ u.in = "sq" /\ next = "sq") ->
                 [Put(u, ch) EXCEPT !.in = IF @ = "" THEN ch ELSE ""]
            [] EndsStatement(u, ch) -> flush(u)
            [] OTHER -> Put(u, ch)
  BY <1>1, <1>4 DEF ScanByte
<1> HIDE DEF u, r
<1>6. /\ dashes => r = [u EXCEPT !.in = "--", !.skip = TRUE]
      /\ slash => r = [u EXCEPT !.in = "/*", !.skip = TRUE]
      /\ doubled => r = [Put(Put(u, ch), ch) EXCEPT !.skip = TRUE]
      /\ quotes /\ ~doubled => r = [Put(u, ch) EXCEPT !.in = IF @ = "" THEN ch ELSE ""]
      /\ ends => r = flush(u)
      /\ ~dashes /\ ~slash /\ ~quotes /\ ~ends => r = Put(u, ch)
  BY <1>3, <1>4, <1>5 DEF EndsStatement
<1>7. Is(Put(u, ch), o, Append(b, ch), NextLine(line, ch), begin, in, FALSE)
  BY <1>2, StMoves
<1>8. ch # "nl" => NextLine(line, ch) = line
  BY DEF NextLine
<1>9. ASSUME doubled PROVE Is([Put(Put(u, ch), ch) EXCEPT !.skip = TRUE], o, Append(Append(b, ch), ch), line, begin, in, TRUE)
  <2>1. Is(Put(u, ch), o, Append(b, ch), line, begin, in, FALSE)
    BY <1>7, <1>8, <1>9
  <2>2. Is(Put(Put(u, ch), ch), o, Append(Append(b, ch), ch), line, begin, in, FALSE)
    <3> DEFINE v == Put(u, ch)
    <3> HIDE DEF v
    <3>1. Is(v, o, Append(b, ch), line, begin, in, FALSE)
      BY <2>1 DEF v
    <3>2. Is(Put(v, ch), o, Append(Append(b, ch), ch), NextLine(line, ch), begin, in, FALSE)
      BY <3>1, StMoves
    <3>3. NextLine(line, ch) = line
      BY <1>8, <1>9
    <3> QED BY <3>2, <3>3 DEF v
  <2> QED BY <2>2, StMoves
<1>10. ASSUME quotes PROVE Is([Put(u, ch) EXCEPT !.in = IF @ = "" THEN ch ELSE ""], o, Append(b, ch), line, begin,
                              IF in = "" THEN ch ELSE "", FALSE)
  <2>1. Is(Put(u, ch), o, Append(b, ch), line, begin, in, FALSE)
    BY <1>4, <1>7, <1>8, <1>10
  <2>2. Put(u, ch).in = in
    BY <2>1 DEF Is
  <2>3. [Put(u, ch) EXCEPT !.in = IF @ = "" THEN ch ELSE ""] = [Put(u, ch) EXCEPT !.in = IF in = "" THEN ch ELSE ""]
    BY <2>2
  <2> QED BY <2>1, <2>3, StMoves
<1>11. /\ Is([u EXCEPT !.in = "--", !.skip = TRUE], o, b, line, begin, "--", TRUE)
       /\ Is([u EXCEPT !.in = "/*", !.skip = TRUE], o, b, line, begin, "/*", TRUE)
  BY <1>2, StMoves
<1>12. Is(flush(u), IF TrimRight(b) = <<>> THEN o ELSE Append(o, [sql |-> TrimRight(b), line |-> begin]),
          <<>>, line, begin, in, FALSE)
  BY <1>2, StMoves
<1> QED BY <1>6, <1>7, <1>9, <1>10, <1>11, <1>12, ZenonT(60) DEF r

PieceAt(t, c) == Piece(KeptOf(t), CutsOf(t), c)
CutAt(t, c) == StatementAt(t, InOrder(Between(t, PieceAt(t, c))))
\* The cuts before c that end a statement, and the statements of cuts e.
Ended(t, c) == {d \in CutsOf(t) : d < c /\ Solid(t, PieceAt(t, d)) # {}}
Stated(t, e) == Spelled([d \in Nat |-> CutAt(t, d)], e)
Gathered(t, c, o) == \E e : Lists(e, Ended(t, c)) /\ o = Stated(t, e)

\* What the scanner has made of the first h characters.
Upto(t, h, o, b, line, start) ==
  /\ line = 1 + Newlines(t, h)
  /\ Buffered(t, PieceAt(t, h + 1), b, start)
  /\ Gathered(t, h + 1, o)

LEMMA StatedMore ==
  ASSUME NEW t, NEW D, NEW e, Lists(e, D), NEW c \in Nat, \A d \in D : d < c
  PROVE  Lists(Append(e, c), D \cup {c}) /\ Stated(t, Append(e, c)) = Append(Stated(t, e), CutAt(t, c))
<1> DEFINE g == [d \in Nat |-> CutAt(t, d)]
<1>1. e \in Seq(Nat)
  BY DEF Lists
<1>2. Lists(Append(e, c), D \cup {c})
  BY ListsMore
<1>3. g[c] = CutAt(t, c)
  OBVIOUS
<1> HIDE DEF g
<1>4. Spelled(g, Append(e, c)) = Append(Spelled(g, e), g[c])
  BY <1>1, SpelledIs
<1> QED BY <1>2, <1>3, <1>4 DEF Stated, g

LEMMA GatheredNext ==
  ASSUME NEW t \in Seq(Marks), NEW c \in 1..Len(t), NEW o, Gathered(t, c, o)
  PROVE  /\ c \notin CutsOf(t) \/ Solid(t, PieceAt(t, c)) = {} => Gathered(t, c + 1, o)
         /\ c \in CutsOf(t) /\ Solid(t, PieceAt(t, c)) # {} => Gathered(t, c + 1, Append(o, CutAt(t, c)))
<1> DEFINE solid(d) == Solid(t, PieceAt(t, d)) # {}
<1>1. CutsOf(t) \subseteq 1..Len(t)
  BY KeptIs
<1>2. \A d \in CutsOf(t) : d \in Nat /\ (d < c + 1 <=> d < c \/ d = c)
  BY <1>1
<1>3. \A d : d \in Ended(t, c) <=> d \in CutsOf(t) /\ d < c /\ solid(d)
  BY DEF Ended
<1>4. \A d : d \in Ended(t, c + 1) <=> d \in CutsOf(t) /\ d < c + 1 /\ solid(d)
  BY DEF Ended
<1>5. PICK e : Lists(e, Ended(t, c)) /\ o = Stated(t, e)
  BY DEF Gathered
<1> HIDE DEF solid
<1>6. ASSUME c \notin CutsOf(t) \/ ~solid(c) PROVE Gathered(t, c + 1, o)
  <2>1. ASSUME NEW d PROVE d \in Ended(t, c + 1) <=> d \in Ended(t, c)
    BY <1>2, <1>3, <1>4, <1>6
  <2>2. Ended(t, c + 1) = Ended(t, c)
    BY <2>1
  <2> QED BY <1>5, <2>2 DEF Gathered
<1>7. ASSUME c \in CutsOf(t), solid(c) PROVE Gathered(t, c + 1, Append(o, CutAt(t, c)))
  <2>1. ASSUME NEW d PROVE d \in Ended(t, c + 1) <=> d \in Ended(t, c) \/ d = c
    BY <1>2, <1>3, <1>4, <1>7
  <2>2. Ended(t, c + 1) = Ended(t, c) \cup {c}
    BY <2>1
  <2>3. \A d \in Ended(t, c) : d < c
    BY <1>3
  <2>4. c \in Nat
    OBVIOUS
  <2>5. Lists(Append(e, c), Ended(t, c) \cup {c}) /\ Stated(t, Append(e, c)) = Append(Stated(t, e), CutAt(t, c))
    BY <1>5, <2>3, <2>4, StatedMore
  <2> QED BY <1>5, <2>2, <2>5 DEF Gathered
<1> QED BY <1>6, <1>7 DEF solid

LEMMA PieceAtIs ==
  ASSUME NEW t \in Seq(Marks), NEW c \in 1..(Len(t) + 1)
  PROVE  /\ PieceAt(t, c) \in SUBSET (1..Len(t)) /\ \A i \in PieceAt(t, c) : i \in Nat /\ i < c
         /\ c \in 1..Len(t) =>
              /\ c \notin KeptOf(t) => PieceAt(t, c + 1) = PieceAt(t, c)
              /\ c \in KeptOf(t) \ CutsOf(t) => PieceAt(t, c + 1) = PieceAt(t, c) \cup {c}
              /\ c \in CutsOf(t) => PieceAt(t, c + 1) = {}
<1> DEFINE K == KeptOf(t)
           C == CutsOf(t)
           N == Len(t)
<1>1. N \in Nat /\ K \in SUBSET (1..N) /\ C \in SUBSET K
  <2>1. KeptOf(t) \subseteq 1..Len(t) /\ CutsOf(t) \subseteq KeptOf(t)
    BY KeptIs
  <2> QED BY <2>1
<1> HIDE DEF K, C, N
<1>2. \A i \in Piece(K, C, c) : i \in K /\ i < c
  BY DEF Piece
<1>3. /\ c \notin K => Piece(K, C, c + 1) = Piece(K, C, c)
      /\ c \in K \ C => Piece(K, C, c + 1) = Piece(K, C, c) \cup {c}
      /\ c \in C => Piece(K, C, c + 1) = {}
  <2>1. c \in Nat
    OBVIOUS
  <2>2. ASSUME c \notin K PROVE Piece(K, C, c + 1) = Piece(K, C, c)
    <3>1. c \notin C /\ \A i \in K : i \in Nat /\ (i < c + 1 <=> i < c)
      BY <1>1, <2>1, <2>2
    <3>2. \A d \in C : d < c + 1 <=> d < c
      BY <1>1, <3>1
    <3> QED BY <3>1, <3>2 DEF Piece
  <2>0. K \in SUBSET Nat /\ C \in SUBSET K
    BY <1>1
  <2>3. c \in K \ C => Piece(K, C, c + 1) = Piece(K, C, c) \cup {c}
    BY <2>0, <2>1, PieceIs
  <2>4. c \in C => Piece(K, C, c + 1) = {}
    BY <2>0, <2>1, PieceIs
  <2> QED BY <2>2, <2>3, <2>4
<1> QED BY <1>1, <1>2, <1>3 DEF PieceAt, K, C, N

LEMMA UptoNone ==
  ASSUME NEW t \in Seq(Marks)
  PROVE  Upto(t, 0, <<>>, <<>>, 1, 1)
<1>1. 1 \in 1..(Len(t) + 1) /\ 0 + 1 = 1
  OBVIOUS
<1>2. PieceAt(t, 1) = {}
  <2>1. \A i \in PieceAt(t, 1) : i \in 1..Len(t) /\ i < 1
    BY <1>1, PieceAtIs
  <2> QED BY <2>1
<1>3. Ended(t, 1) = {}
  <2>1. \A d \in Ended(t, 1) : d \in 1..Len(t) /\ d < 1
    BY KeptIs DEF Ended
  <2> QED BY <2>1
<1>4. Stated(t, <<>>) = <<>>
  BY DEF Stated, Spelled
<1>5. Gathered(t, 1, <<>>)
  BY <1>3, <1>4, ListsNone DEF Gathered
<1>6. Newlines(t, 0) = 0 /\ 1 = 1 + 0
  BY NewlinesNext
<1>7. Buffered(t, PieceAt(t, 0 + 1), <<>>, 1) /\ Gathered(t, 0 + 1, <<>>)
  BY <1>1, <1>2, <1>5, BufferNone
<1> QED BY <1>6, <1>7 DEF Upto

LEMMA UptoStart ==
  ASSUME NEW t \in Seq(Marks), NEW h \in 0..Len(t), NEW o, NEW b, NEW line, NEW start, Upto(t, h, o, b, line, start),
         NEW begin, begin = IF b = <<>> THEN line ELSE start
  PROVE  Upto(t, h, o, b, line, begin)
<1>1. CASE b = <<>>
  <2>1. PICK p : Lists(p, Begun(t, PieceAt(t, h + 1))) /\ b = Spelled(t, p)
    BY DEF Upto, Buffered
  <2>2. p \in Seq(Nat)
    BY <2>1 DEF Lists
  <2>3. p = <<>>
    BY <1>1, <2>1, <2>2, SpelledIs
  <2>4. Buffered(t, PieceAt(t, h + 1), b, begin)
    BY <2>1, <2>3 DEF Buffered
  <2> QED BY <2>4 DEF Upto
<1>2. CASE b # <<>>
  BY <1>2
<1> QED BY <1>1, <1>2

LEMMA UptoLine ==
  ASSUME NEW t \in Seq(Marks), NEW c \in 1..Len(t), NEW o, NEW b, NEW line, NEW start, Upto(t, c - 1, o, b, line, start)
  PROVE  /\ NextLine(line, t[c]) = 1 + Newlines(t, c) /\ line = 1 + Newlines(t, c - 1)
         /\ Buffered(t, PieceAt(t, c), b, start) /\ Gathered(t, c, o) /\ c \in 1..(Len(t) + 1)
<1>1. c \in Nat \ {0} /\ (c - 1) + 1 = c /\ c \in 1..(Len(t) + 1)
  OBVIOUS
<1>2. /\ Newlines(t, c - 1) \in Nat
      /\ Newlines(t, c) = Newlines(t, c - 1) + IF t[c] = "nl" THEN 1 ELSE 0
  BY <1>1, NewlinesNext
<1>3. line = 1 + Newlines(t, c - 1)
  BY DEF Upto
<1>4. NextLine(line, t[c]) = 1 + Newlines(t, c)
  BY <1>2, <1>3 DEF NextLine
<1> QED BY <1>1, <1>3, <1>4 DEF Upto

\* A character of a comment, one of a statement, and a cut.
LEMMA UptoDrop ==
  ASSUME NEW t \in Seq(Marks), NEW c \in 1..Len(t), NEW o, NEW b, NEW line, NEW start, Upto(t, c - 1, o, b, line, start),
         c \notin KeptOf(t)
  PROVE  Upto(t, c, o, b, NextLine(line, t[c]), start)
<1>1. c \notin CutsOf(t)
  BY KeptIs
<1>2. /\ NextLine(line, t[c]) = 1 + Newlines(t, c)
      /\ Buffered(t, PieceAt(t, c), b, start) /\ Gathered(t, c, o) /\ c \in 1..(Len(t) + 1)
  BY UptoLine
<1>3. PieceAt(t, c + 1) = PieceAt(t, c)
  BY <1>2, PieceAtIs
<1>4. Gathered(t, c + 1, o)
  BY <1>1, <1>2, GatheredNext
<1> QED BY <1>2, <1>3, <1>4 DEF Upto

LEMMA UptoPut ==
  ASSUME NEW t \in Seq(Marks), NEW c \in 1..Len(t), NEW o, NEW b, NEW line, NEW start, Upto(t, c - 1, o, b, line, start),
         c \in KeptOf(t) \ CutsOf(t), NEW begin, begin = IF b = <<>> THEN line ELSE start
  PROVE  /\ t[c] \notin Space \/ b # <<>> => Upto(t, c, o, Append(b, t[c]), NextLine(line, t[c]), begin)
         /\ t[c] \in Space /\ b = <<>> => Upto(t, c, o, b, NextLine(line, t[c]), start)
<1>2. /\ NextLine(line, t[c]) = 1 + Newlines(t, c) /\ line = 1 + Newlines(t, c - 1)
      /\ Buffered(t, PieceAt(t, c), b, start) /\ Gathered(t, c, o) /\ c \in 1..(Len(t) + 1)
  BY UptoLine
<1>3. /\ PieceAt(t, c + 1) = PieceAt(t, c) \cup {c}
      /\ PieceAt(t, c) \in SUBSET Nat /\ \A i \in PieceAt(t, c) : i < c
  BY <1>2, PieceAtIs
<1>4. Gathered(t, c + 1, o)
  BY <1>2, GatheredNext
<1>5. begin = IF b = <<>> THEN 1 + Newlines(t, c - 1) ELSE start
  BY <1>2
<1>6. c \in Nat
  OBVIOUS
<1>7. /\ t[c] \notin Space \/ b # <<>> => Buffered(t, PieceAt(t, c) \cup {c}, Append(b, t[c]), begin)
      /\ t[c] \in Space /\ b = <<>> => Buffered(t, PieceAt(t, c) \cup {c}, b, start)
  BY <1>2, <1>3, <1>5, <1>6, BufferPut
<1> QED BY <1>2, <1>3, <1>4, <1>7 DEF Upto

LEMMA UptoCut ==
  ASSUME NEW t \in Seq(Marks), NEW c \in 1..Len(t), NEW o, NEW b, NEW line, NEW start, Upto(t, c - 1, o, b, line, start),
         c \in CutsOf(t), NEW any
  PROVE  Upto(t, c, IF TrimRight(b) = <<>> THEN o ELSE Append(o, [sql |-> TrimRight(b), line |-> start]),
              <<>>, NextLine(line, t[c]), any)
<1>2. /\ NextLine(line, t[c]) = 1 + Newlines(t, c) /\ line = 1 + Newlines(t, c - 1)
      /\ Buffered(t, PieceAt(t, c), b, start) /\ Gathered(t, c, o) /\ c \in 1..(Len(t) + 1)
  BY UptoLine
<1>3. PieceAt(t, c + 1) = {} /\ PieceAt(t, c) \in SUBSET (1..Len(t))
  BY <1>2, PieceAtIs
<1>4. /\ TrimRight(b) = <<>> <=> Solid(t, PieceAt(t, c)) = {}
      /\ Solid(t, PieceAt(t, c)) # {} => [sql |-> TrimRight(b), line |-> start] = CutAt(t, c)
  BY <1>2, <1>3, FlushIs, SMTT(30) DEF CutAt
<1>5. Gathered(t, c + 1, IF TrimRight(b) = <<>> THEN o ELSE Append(o, [sql |-> TrimRight(b), line |-> start]))
  BY <1>2, <1>4, GatheredNext
<1>6. Buffered(t, {}, <<>>, any)
  BY BufferNone
<1> QED BY <1>2, <1>3, <1>5, <1>6 DEF Upto

\* What is left at the end of the text is its last statement.
LEMMA UptoEnd ==
  ASSUME NEW t \in Seq(Marks), NEW o, NEW b, NEW line, NEW start, Upto(t, Len(t), o, b, line, start)
  PROVE  (IF TrimRight(b) = <<>> THEN o ELSE Append(o, [sql |-> TrimRight(b), line |-> start])) = StatementsOf(t)
<1> DEFINE c == Len(t) + 1
           D == {d \in CutsOf(t) \cup {c} : Solid(t, PieceAt(t, d)) # {}}
           r == IF TrimRight(b) = <<>> THEN o ELSE Append(o, [sql |-> TrimRight(b), line |-> start])
<1>1. c \in Nat /\ c \in 1..(Len(t) + 1)
  OBVIOUS
<1>2. Buffered(t, PieceAt(t, c), b, start) /\ Gathered(t, c, o)
  BY DEF Upto
<1>3. PieceAt(t, c) \in SUBSET (1..Len(t))
  BY <1>1, PieceAtIs
<1> HIDE DEF c
<1>4. /\ TrimRight(b) = <<>> <=> Solid(t, PieceAt(t, c)) = {}
      /\ Solid(t, PieceAt(t, c)) # {} => [sql |-> TrimRight(b), line |-> start] = CutAt(t, c)
  BY <1>2, <1>3, FlushIs DEF CutAt
<1>5. PICK e : Lists(e, Ended(t, c)) /\ o = Stated(t, e)
  BY <1>2 DEF Gathered
<1>6. \A d \in CutsOf(t) : d < c
  <2>1. CutsOf(t) \subseteq 1..Len(t)
    BY KeptIs
  <2> QED BY <2>1 DEF c
<1>7. PICK f : Lists(f, D) /\ r = Stated(t, f)
  <2>1. CASE Solid(t, PieceAt(t, c)) = {}
    <3>1. D = Ended(t, c)
      BY <1>6, <2>1 DEF Ended
    <3> QED BY <1>4, <1>5, <2>1, <3>1
  <2>2. CASE Solid(t, PieceAt(t, c)) # {}
    <3>1. D = Ended(t, c) \cup {c}
      BY <1>6, <2>2 DEF Ended
    <3>2. \A d \in Ended(t, c) : d < c
      BY DEF Ended
    <3>3. Lists(Append(e, c), Ended(t, c) \cup {c}) /\ Stated(t, Append(e, c)) = Append(Stated(t, e), CutAt(t, c))
      BY <1>1, <1>5, <3>2, StatedMore
    <3> QED BY <1>4, <1>5, <2>2, <3>1, <3>3
  <2> QED BY <2>1, <2>2
<1>8. InOrder(D) = f
  BY <1>7, InOrderIs
<1>9. StatementsOf(t) = [n \in DOMAIN f |-> CutAt(t, f[n])]
  BY <1>8 DEF StatementsOf, CutAt, PieceAt, KeptOf, CutsOf, c
<1>10. f \in Seq(Nat)
  BY <1>7 DEF Lists
<1>11. Stated(t, f) = [n \in 1..Len(f) |-> [d \in Nat |-> CutAt(t, d)][f[n]]]
  BY DEF Stated, Spelled
<1>12. DOMAIN f = 1..Len(f) /\ \A n \in 1..Len(f) : f[n] \in Nat
  BY <1>10
<1>13. Stated(t, f) = [n \in DOMAIN f |-> CutAt(t, f[n])]
  BY <1>11, <1>12
<1> HIDE DEF r
<1> QED BY <1>7, <1>9, <1>13 DEF r

After(t, c) == IF c < Len(t) THEN t[c + 1] ELSE ""

\* Where in a lexeme the scanner is behind character i.
Inside(t, i, in, skip) ==
  /\ in \in Modes /\ skip \in BOOLEAN
  /\ ~skip /\ in = "" => i + 1 \in Lexemes(t) \cup {Len(t) + 1}
  /\ ~skip /\ in \in Quotes =>
       \E s \in Lexemes(t) : s <= i /\ t[s] = in /\ \A j \in (s + 1)..i : t[j] # t[s]
  /\ ~skip /\ in = "--" =>
       \E s \in Lexemes(t) : s <= i /\ Comment(t, s) /\ t[s] = "-" /\ \A j \in (s + 1)..i : t[j] # "nl"
  /\ ~skip /\ in = "/*" =>
       \E s \in Lexemes(t) : /\ s + 1 <= i /\ Comment(t, s) /\ t[s] = "/"
                             /\ \A j \in (s + 3)..(i + 1) : j <= Len(t) => ~(t[j] = "/" /\ t[j - 1] = "*")
  /\ skip /\ in = "--" => i \in Lexemes(t) /\ Comment(t, i) /\ t[i] = "-"
  /\ skip /\ in = "/*" => i \in Lexemes(t) /\ Comment(t, i) /\ t[i] = "/"
  /\ skip /\ in \in Quotes => in = "sq" /\ t[i + 1] = "sq" /\ i + 1 \in Lexemes(t)
  /\ skip /\ in = "" =>
       t[i + 1] = "/" /\ \E s \in Lexemes(t) : Comment(t, s) /\ LexEnd(t, s) = i + 1

Scanning(t, i, st) ==
  \E o, b, line, start, in, skip :
    /\ Is(st, o, b, line, start, in, skip) /\ Inside(t, i, in, skip)
    /\ in \in Quotes => b # <<>>
    /\ Upto(t, IF skip /\ in \in Quotes THEN i + 1 ELSE i, o, b, line, start)

LEMMA ModesDiffer ==
  /\ "" \notin Quotes /\ "--" \notin Quotes /\ "/*" \notin Quotes
  /\ "" \in Modes /\ "--" \in Modes /\ "/*" \in Modes /\ Quotes \subseteq Modes
  /\ \A in \in Modes : in \in Quotes \/ in = "" \/ in = "--" \/ in = "/*"
BY DEF Modes, Quotes

LEMMA StepSkip ==
  ASSUME NEW t \in Seq(Marks), NEW c \in 1..Len(t), NEW st, NEW next,
         NEW o, NEW b, NEW line, NEW start, NEW in,
         Is(st, o, b, line, start, in, TRUE), Inside(t, c - 1, in, TRUE), in \in Quotes => b # <<>>,
         Upto(t, IF in \in Quotes THEN c ELSE c - 1, o, b, line, start)
  PROVE  Scanning(t, c, ScanByte(st, t[c], next))
<1> DEFINE r == ScanByte(st, t[c], next)
<1>1. Is(r, o, b, line, start, in, FALSE)
  BY ScanSkips
<1> HIDE DEF r
<1>2. in \in Modes /\ c \in Nat /\ c - 1 \in Nat /\ (c - 1) + 1 = c /\ Len(t) \in Nat
  <2>1. in \in Modes
    BY DEF Inside
  <2> QED BY <2>1
<1>3. CASE in \in Quotes
  <2>1. in = "sq" /\ t[c] = "sq" /\ c \in Lexemes(t)
    BY <1>2, <1>3 DEF Inside
  <2>2. c <= c /\ \A j \in (c + 1)..c : FALSE
    BY <1>2
  <2>3. Inside(t, c, in, FALSE)
    BY <1>2, <1>3, <2>1, <2>2, ModesDiffer DEF Inside
  <2> QED BY <1>1, <1>3, <2>3 DEF Scanning, r
<1>4. CASE in = "--"
  <2> DEFINE s == c - 1
  <2>1. s \in Lexemes(t) /\ Comment(t, s) /\ t[s] = "-" /\ s \in 1..Len(t)
    BY <1>4, LexemesAre DEF Inside
  <2>2. t[c] = "-" /\ t[s] \notin Quotes
    BY <1>2, <2>1, CommentIs
  <2>3. c \in (s + 1)..Len(t) /\ \A j \in (s + 1)..(c - 1) : FALSE
    BY <1>2
  <2>4. c <= LexEnd(t, s) /\ LexEnd(t, s) \in s..Len(t)
    BY <2>1, <2>3, LineEnds
  <2>5. c \notin KeptOf(t)
    <3>1. c \in s..LexEnd(t, s)
      BY <1>2, <2>1, <2>4
    <3> QED BY <2>1, <3>1, KeptIs
  <2>6. Upto(t, c, o, b, line, start)
    <3>1. Upto(t, c - 1, o, b, line, start) /\ NextLine(line, t[c]) = line
      BY <1>4, <2>2, ModesDiffer DEF NextLine
    <3> QED BY <2>5, <3>1, UptoDrop
  <2>7. Inside(t, c, in, FALSE)
    <3>1. s <= c /\ \A j \in (s + 1)..c : t[j] # "nl"
      BY <1>2, <2>2
    <3> QED BY <1>2, <1>4, <2>1, <3>1, ModesDiffer DEF Inside
  <2> QED BY <1>1, <1>4, <2>6, <2>7, ModesDiffer DEF Scanning, r
<1>5. CASE in = "/*"
  <2> DEFINE s == c - 1
  <2>1. s \in Lexemes(t) /\ Comment(t, s) /\ t[s] = "/" /\ s \in 1..Len(t)
    BY <1>5, LexemesAre DEF Inside
  <2>2. t[c] = "*"
    BY <1>2, <2>1, CommentIs
  <2>3. c \in (s + 1)..Len(t) /\ \A j \in (s + 3)..c : FALSE
    BY <1>2
  <2>4. c <= LexEnd(t, s) /\ LexEnd(t, s) \in s..Len(t)
    BY <2>1, <2>3, BlockEnds
  <2>5. c \notin KeptOf(t)
    <3>1. c \in s..LexEnd(t, s)
      BY <1>2, <2>1, <2>4
    <3> QED BY <2>1, <3>1, KeptIs
  <2>6. Upto(t, c, o, b, line, start)
    <3>1. Upto(t, c - 1, o, b, line, start) /\ NextLine(line, t[c]) = line
      BY <1>5, <2>2, ModesDiffer DEF NextLine
    <3> QED BY <2>5, <3>1, UptoDrop
  <2>7. Inside(t, c, in, FALSE)
    <3>1. s + 1 <= c /\ \A j \in (s + 3)..(c + 1) : FALSE
      BY <1>2
    <3> QED BY <1>2, <1>5, <2>1, <3>1, ModesDiffer DEF Inside
  <2> QED BY <1>1, <1>5, <2>6, <2>7, ModesDiffer DEF Scanning, r
<1>6. CASE in = ""
  <2>1. PICK s \in Lexemes(t) : t[c] = "/" /\ Comment(t, s) /\ LexEnd(t, s) = c
    BY <1>2, <1>6 DEF Inside
  <2>2. s \in 1..Len(t) /\ LexEnd(t, s) \in s..Len(t) /\ c + 1 \in Lexemes(t) \cup {Len(t) + 1}
    BY <2>1, LexemesAre, LexEndIs
  <2>3. c \notin KeptOf(t)
    <3>1. c \in s..LexEnd(t, s)
      BY <2>1, <2>2
    <3> QED BY <2>1, <3>1, KeptIs
  <2>4. Upto(t, c, o, b, line, start)
    <3>1. Upto(t, c - 1, o, b, line, start) /\ NextLine(line, t[c]) = line
      BY <1>6, <2>1, ModesDiffer DEF NextLine
    <3> QED BY <2>3, <3>1, UptoDrop
  <2>5. Inside(t, c, in, FALSE)
    BY <1>2, <1>6, <2>2, ModesDiffer DEF Inside
  <2> QED BY <1>1, <1>6, <2>4, <2>5, ModesDiffer DEF Scanning, r
<1> QED BY <1>2, <1>3, <1>4, <1>5, <1>6, ModesDiffer DEF r

LEMMA StepLine ==
  ASSUME NEW t \in Seq(Marks), NEW c \in 1..Len(t), NEW st, NEW next,
         NEW o, NEW b, NEW line, NEW start,
         Is(st, o, b, line, start, "--", FALSE), Inside(t, c - 1, "--", FALSE), Upto(t, c - 1, o, b, line, start)
  PROVE  Scanning(t, c, ScanByte(st, t[c], next))
<1> DEFINE r == ScanByte(st, t[c], next)
           in == IF t[c] = "nl" THEN "" ELSE "--"
<1>1. Is(r, o, b, NextLine(line, t[c]), start, in, FALSE)
  BY ScanLine
<1> HIDE DEF r
<1>2. PICK s \in Lexemes(t) : s <= c - 1 /\ Comment(t, s) /\ t[s] = "-" /\ \A j \in (s + 1)..(c - 1) : t[j] # "nl"
  BY DEF Inside
<1>3. s \in 1..Len(t) /\ LexEnd(t, s) + 1 \in Lexemes(t) \cup {Len(t) + 1}
  BY LexemesAre
<1>4. c \in (s + 1)..Len(t) /\ c \in Nat
  BY <1>2, <1>3
<1>5. c <= LexEnd(t, s) /\ LexEnd(t, s) \in s..Len(t) /\ (t[c] = "nl" => LexEnd(t, s) = c)
  BY <1>2, <1>3, <1>4, LineEnds
<1>6. c \notin KeptOf(t)
  <2>1. c \in s..LexEnd(t, s)
    BY <1>3, <1>4, <1>5
  <2> QED BY <1>2, <2>1, KeptIs
<1>7. Upto(t, c, o, b, NextLine(line, t[c]), start)
  BY <1>6, UptoDrop
<1>8. Inside(t, c, in, FALSE)
  <2>1. CASE t[c] = "nl"
    BY <1>3, <1>5, <2>1, ModesDiffer DEF Inside
  <2>2. CASE t[c] # "nl"
    <3>1. s <= c /\ \A j \in (s + 1)..c : t[j] # "nl"
      BY <1>2, <1>3, <1>4, <2>2
    <3> QED BY <1>2, <2>2, <3>1, ModesDiffer DEF Inside
  <2> QED BY <2>1, <2>2
<1>9. in \notin Quotes
  BY ModesDiffer
<1> HIDE DEF in
<1> QED BY <1>1, <1>7, <1>8, <1>9 DEF Scanning, r

LEMMA StepBlock ==
  ASSUME NEW t \in Seq(Marks), NEW c \in 1..Len(t), NEW st, NEW next, next = After(t, c),
         NEW o, NEW b, NEW line, NEW start,
         Is(st, o, b, line, start, "/*", FALSE), Inside(t, c - 1, "/*", FALSE), Upto(t, c - 1, o, b, line, start)
  PROVE  Scanning(t, c, ScanByte(st, t[c], next))
<1> DEFINE r == ScanByte(st, t[c], next)
           closes == t[c] = "*" /\ next = "/"
<1>1. IF closes THEN Is(r, o, b, line, start, "", TRUE)
                ELSE Is(r, o, b, NextLine(line, t[c]), start, "/*", FALSE)
  BY ScanBlock
<1> HIDE DEF r
<1>2. PICK s \in Lexemes(t) : /\ s + 1 <= c - 1 /\ Comment(t, s) /\ t[s] = "/"
                              /\ \A j \in (s + 3)..((c - 1) + 1) : j <= Len(t) => ~(t[j] = "/" /\ t[j - 1] = "*")
  BY DEF Inside
<1>3. s \in 1..Len(t) /\ Len(t) \in Nat
  <2>1. s \in 1..Len(t)
    BY LexemesAre
  <2> QED BY <2>1
<1>4. c \in (s + 1)..Len(t) /\ c \in Nat /\ c >= s + 2 /\ (c - 1) + 1 = c /\ (c + 1) - 1 = c
  BY <1>2, <1>3
<1>5. \A j \in (s + 3)..c : ~(t[j] = "/" /\ t[j - 1] = "*")
  BY <1>2, <1>3, <1>4
<1>6. /\ c <= LexEnd(t, s) /\ LexEnd(t, s) \in s..Len(t)
      /\ c < Len(t) /\ t[c] = "*" /\ t[c + 1] = "/" => LexEnd(t, s) = c + 1
  BY <1>2, <1>3, <1>4, <1>5, BlockEnds
<1>7. c \notin KeptOf(t)
  <2>1. c \in s..LexEnd(t, s)
    BY <1>3, <1>4, <1>6
  <2> QED BY <1>2, <2>1, KeptIs
<1>8. Upto(t, c, o, b, NextLine(line, t[c]), start)
  BY <1>7, UptoDrop
<1>9. CASE closes
  <2>1. c < Len(t) /\ t[c] = "*" /\ t[c + 1] = "/" /\ NextLine(line, t[c]) = line
    BY <1>9 DEF NextLine, After
  <2>2. Inside(t, c, "", TRUE)
    BY <1>2, <1>6, <2>1, ModesDiffer DEF Inside
  <2> QED BY <1>1, <1>8, <1>9, <2>1, <2>2, ModesDiffer DEF Scanning, r
<1>10. CASE ~closes
  <2>1. \A j \in (s + 3)..(c + 1) : j <= Len(t) => ~(t[j] = "/" /\ t[j - 1] = "*")
    <3>1. \A j \in (s + 3)..(c + 1) : j \in (s + 3)..c \/ j = c + 1
      BY <1>3, <1>4
    <3>2. c + 1 <= Len(t) => ~(t[c + 1] = "/" /\ t[c] = "*")
      <4>1. c < Len(t) => next = t[c + 1]
        BY DEF After
      <4>2. c + 1 <= Len(t) => c < Len(t)
        BY <1>3, <1>4
      <4> QED BY <1>10, <4>1, <4>2
    <3> QED BY <1>4, <1>5, <3>1, <3>2
  <2>2. s + 1 <= c
    BY <1>3, <1>4
  <2>3. Inside(t, c, "/*", FALSE)
    BY <1>2, <2>1, <2>2, ModesDiffer DEF Inside
  <2> QED BY <1>1, <1>8, <1>10, <2>3, ModesDiffer DEF Scanning, r
<1> QED BY <1>9, <1>10

LEMMA CommentNext ==
  ASSUME NEW t, NEW c \in 1..Len(t), Len(t) \in Nat
  PROVE  Comment(t, c) <=> (t[c] = "-" /\ After(t, c) = "-") \/ (t[c] = "/" /\ After(t, c) = "*")
<1>1. CASE c < Len(t)
  <2>1. After(t, c) = t[c + 1]
    BY <1>1 DEF After
  <2> QED BY <1>1, <2>1 DEF Comment
<1>2. CASE ~(c < Len(t))
  <2>1. After(t, c) = ""
    BY <1>2 DEF After
  <2> QED BY <1>2, <2>1 DEF Comment
<1> QED BY <1>1, <1>2

LEMMA UptoMore ==
  ASSUME NEW t, NEW h, NEW o, NEW b, NEW line, NEW start, Upto(t, h, o, b, line, start), NEW c \in Nat
  PROVE  Append(b, t[c]) # <<>>
<1>1. PICK p : Lists(p, Begun(t, PieceAt(t, h + 1))) /\ b = Spelled(t, p)
  BY DEF Upto, Buffered
<1>2. p \in Seq(Nat)
  BY <1>1 DEF Lists
<1>3. Append(p, c) \in Seq(Nat) /\ Append(p, c) # <<>>
  <2>1. Append(p, c) \in Seq(Nat) /\ Len(Append(p, c)) = Len(p) + 1 /\ Len(p) \in Nat /\ Len(<<>>) = 0
    BY <1>2
  <2> HIDE DEF Lists
  <2> QED BY <2>1
<1>4. Append(Spelled(t, p), t[c]) = Spelled(t, Append(p, c))
  BY <1>2, SpelledIs
<1>5. Spelled(t, Append(p, c)) # <<>>
  BY <1>3, SpelledIs
<1> QED BY <1>1, <1>4, <1>5

LEMMA StepQuote ==
  ASSUME NEW t \in Seq(Marks), NEW c \in 1..Len(t), NEW st, NEW next, next = After(t, c),
         NEW o, NEW b, NEW line, NEW start, NEW in \in Quotes,
         Is(st, o, b, line, start, in, FALSE), Inside(t, c - 1, in, FALSE), b # <<>>, Upto(t, c - 1, o, b, line, start)
  PROVE  Scanning(t, c, ScanByte(st, t[c], next))
<1> DEFINE r == ScanByte(st, t[c], next)
           doubled == t[c] = "sq" /\ in = "sq" /\ next = "sq"
           more == Append(b, t[c])
<1>1. PICK s \in Lexemes(t) : s <= c - 1 /\ t[s] = in /\ \A j \in (s + 1)..(c - 1) : t[j] # t[s]
  BY ModesDiffer DEF Inside
<1>2. s \in 1..Len(t) /\ Len(t) \in Nat /\ LexEnd(t, s) + 1 \in Lexemes(t) \cup {Len(t) + 1}
  <2>1. s \in 1..Len(t) /\ LexEnd(t, s) + 1 \in Lexemes(t) \cup {Len(t) + 1}
    BY LexemesAre
  <2> QED BY <2>1
<1>3. c \in (s + 1)..Len(t) /\ c \in Nat /\ c # s
  BY <1>1, <1>2
<1>4. c <= LexEnd(t, s) /\ LexEnd(t, s) \in s..Len(t) /\ (t[c] = in => LexEnd(t, s) = c)
  BY <1>1, <1>2, <1>3, QuoteEnds
<1>5. c \in KeptOf(t) \ CutsOf(t)
  <2>1. c \in s..LexEnd(t, s)
    BY <1>2, <1>3, <1>4
  <2>2. ~Comment(t, s)
    BY <1>1, CommentIs
  <2> QED BY <1>3, <2>1, <2>2, KeptIs
<1>6. Upto(t, c, o, more, NextLine(line, t[c]), start)
  <2>1. start = IF b = <<>> THEN line ELSE start
    OBVIOUS
  <2> QED BY <1>5, <2>1, UptoPut
<1>7. more # <<>>
  BY <1>3, UptoMore
<1>8. in \in Modes \ {"--", "/*"}
  BY ModesDiffer
<1>9. start = (IF b = <<>> THEN line ELSE start) /\ ~(b = <<>> /\ t[c] \in Space)
  OBVIOUS
<1>10. \A x \in Quotes : x # "nl" /\ x # ""
  BY DEF Quotes
<1>11. CASE doubled
  <2>1. Is(r, o, Append(more, t[c]), line, start, in, TRUE)
    BY <1>8, <1>9, <1>11, ScanOther
  <2>2. c < Len(t) /\ t[c + 1] = "sq" /\ t[c + 1] = t[c] /\ "sq" \in Quotes
    BY <1>11 DEF After, Quotes
  <2>3. c + 1 \in Lexemes(t) /\ c + 1 \in 1..Len(t) /\ (c + 1) - 1 = c
    BY <1>2, <1>3, <1>4, <1>11, <2>2
  <2>4. c + 1 \in KeptOf(t) \ CutsOf(t)
    <3>1. LexEnd(t, c + 1) \in (c + 1)..Len(t)
      BY <2>3, LexEndIs
    <3>2. c + 1 \in (c + 1)..LexEnd(t, c + 1)
      BY <2>3, <3>1
    <3>3. ~Comment(t, c + 1) /\ t[c + 1] # ";"
      BY <2>2, CommentIs
    <3> QED BY <2>3, <3>2, <3>3, KeptIs
  <2>5. Upto(t, c, o, more, line, start)
    BY <1>6, <1>11 DEF NextLine
  <2>6. Upto(t, c + 1, o, Append(more, t[c + 1]), NextLine(line, t[c + 1]), start)
    <3> HIDE DEF more
    <3>1. start = IF more = <<>> THEN line ELSE start
      BY <1>7
    <3>2. Upto(t, (c + 1) - 1, o, more, line, start)
      BY <2>3, <2>5
    <3> QED BY <1>7, <2>3, <2>4, <3>1, <3>2, UptoPut
  <2>7. NextLine(line, t[c + 1]) = line
    BY <2>2 DEF NextLine
  <2>8. Append(more, t[c]) # <<>>
    BY <1>3, <2>5, UptoMore
  <2>9. Inside(t, c, in, TRUE)
    BY <1>8, <1>11, <2>2, <2>3, ModesDiffer DEF Inside
  <2> HIDE DEF r, more
  <2> QED BY <2>1, <2>2, <2>6, <2>7, <2>8, <2>9 DEF Scanning, r
<1>12. CASE t[c] = in /\ ~doubled
  <2>1. Is(r, o, more, line, start, "", FALSE)
    BY <1>8, <1>9, <1>10, <1>12, ScanOther
  <2>2. Upto(t, c, o, more, line, start)
    BY <1>6, <1>10, <1>12 DEF NextLine
  <2>3. Inside(t, c, "", FALSE)
    BY <1>2, <1>4, <1>12, ModesDiffer DEF Inside
  <2> HIDE DEF r, more
  <2> QED BY <2>1, <2>2, <2>3, ModesDiffer DEF Scanning, r
<1>13. CASE t[c] # in
  <2>1. Is(r, o, more, NextLine(line, t[c]), start, in, FALSE)
    BY <1>8, <1>9, <1>10, <1>13, ScanOther
  <2>2. Inside(t, c, in, FALSE)
    <3>1. s <= c /\ \A j \in (s + 1)..c : t[j] # t[s]
      BY <1>1, <1>2, <1>3, <1>13
    <3> QED BY <1>1, <1>8, <3>1, ModesDiffer DEF Inside
  <2> HIDE DEF r, more
  <2> QED BY <1>6, <1>7, <2>1, <2>2 DEF Scanning, r
<1> QED BY <1>11, <1>12, <1>13

\* Between two lexemes.
Opening == ""

LEMMA StepOpen ==
  ASSUME NEW t \in Seq(Marks), NEW c \in 1..Len(t), NEW st, NEW next, next = After(t, c),
         NEW o, NEW b, NEW line, NEW start,
         Is(st, o, b, line, start, Opening, FALSE), Inside(t, c - 1, Opening, FALSE), Upto(t, c - 1, o, b, line, start)
  PROVE  Scanning(t, c, ScanByte(st, t[c], next))
<1> DEFINE r == ScanByte(st, t[c], next)
           begin == IF b = <<>> THEN line ELSE start
           more == Append(b, t[c])
<1>1. Len(t) \in Nat /\ c \in Nat /\ (c - 1) + 1 = c /\ c # Len(t) + 1 /\ c - 1 \in 0..Len(t)
  <2>1. Len(t) \in Nat /\ c \in Nat /\ 1 <= c /\ c <= Len(t)
    OBVIOUS
  <2> QED BY <2>1
<1>2. c \in Lexemes(t)
  BY <1>1 DEF Inside, Opening
<1>3. LexEnd(t, c) \in c..Len(t) /\ LexEnd(t, c) + 1 \in Lexemes(t) \cup {Len(t) + 1} /\ c \in c..LexEnd(t, c)
  <2>1. LexEnd(t, c) \in c..Len(t)
    BY LexEndIs
  <2>2. LexEnd(t, c) + 1 \in Lexemes(t) \cup {Len(t) + 1}
    BY <1>2, LexemesAre
  <2>3. c \in c..LexEnd(t, c)
    BY <1>1, <2>1
  <2> QED BY <2>1, <2>2, <2>3
<1>4. (c \in KeptOf(t) <=> ~Comment(t, c)) /\ (c \in CutsOf(t) <=> t[c] = ";")
  BY <1>2, <1>3, KeptIs
<1>5. Comment(t, c) <=> (t[c] = "-" /\ next = "-") \/ (t[c] = "/" /\ next = "*")
  BY <1>1, CommentNext
<1>6. /\ "" \in Modes \ {"--", "/*"} /\ "" \notin Quotes
      /\ \A x \in Quotes : x # "nl" /\ x # "" /\ x # ";" /\ x # "-" /\ x # "/" /\ x \notin Space
      /\ \A x \in Space : x # ";" /\ x # "-" /\ x # "/"
  BY DEF Quotes, Space, Modes
<1>7. t[c] \notin Quotes /\ ~Comment(t, c) => LexEnd(t, c) = c
  BY CharEnds
<1>8. t[c] \notin Quotes /\ ~Comment(t, c) => Inside(t, c, "", FALSE)
  BY <1>3, <1>7, ModesDiffer DEF Inside
<1>9. Upto(t, c - 1, o, b, line, begin)
  BY <1>1, UptoStart
<1>10. ASSUME c \in KeptOf(t) \ CutsOf(t)
       PROVE  /\ t[c] \notin Space \/ b # <<>> => Upto(t, c, o, more, NextLine(line, t[c]), begin)
              /\ t[c] \in Space /\ b = <<>> => Upto(t, c, o, b, NextLine(line, t[c]), start)
  BY <1>10, UptoPut
<1>11. more # <<>>
  BY <1>1, UptoMore
<1>12. CASE b = <<>> /\ t[c] \in Space
  <2>1. Is(r, o, b, NextLine(line, t[c]), start, "", FALSE)
    <3>1. Is(st, o, <<>>, line, start, "", FALSE)
      BY <1>12 DEF Opening
    <3> QED BY <1>6, <1>12, <3>1, ScanBlank
  <2>2. c \in KeptOf(t) \ CutsOf(t) /\ t[c] \notin Quotes /\ ~Comment(t, c)
    BY <1>4, <1>5, <1>6, <1>12
  <2> HIDE DEF r, more, begin
  <2> QED BY <1>6, <1>8, <1>10, <1>12, <2>1, <2>2 DEF Scanning, r
<1>13. ASSUME ~(b = <<>> /\ t[c] \in Space)
       PROVE  LET dashes == t[c] = "-" /\ next = "-"
                  slash == t[c] = "/" /\ next = "*"
                  quotes == t[c] \in Quotes
                  ends == t[c] = ";"
              IN  /\ dashes => Is(r, o, b, line, begin, "--", TRUE)
                  /\ slash => Is(r, o, b, line, begin, "/*", TRUE)
                  /\ quotes => Is(r, o, more, line, begin, t[c], FALSE)
                  /\ ends => Is(r, IF TrimRight(b) = <<>> THEN o ELSE Append(o, [sql |-> TrimRight(b), line |-> begin]),
                                <<>>, line, begin, "", FALSE)
                  /\ ~dashes /\ ~slash /\ ~quotes /\ ~ends => Is(r, o, more, NextLine(line, t[c]), begin, "", FALSE)
  BY <1>6, <1>13, ScanOther, ZenonT(60) DEF Opening
<1>14. CASE ~(b = <<>> /\ t[c] \in Space) /\ Comment(t, c)
  <2>1. c \notin KeptOf(t) /\ NextLine(line, t[c]) = line
    BY <1>4, <1>5, <1>14 DEF NextLine
  <2>2. Upto(t, c, o, b, line, begin)
    <3> HIDE DEF begin
    <3>1. Upto(t, c, o, b, NextLine(line, t[c]), begin)
      BY <1>9, <2>1, UptoDrop
    <3> QED BY <2>1, <3>1
  <2>3. CASE t[c] = "-"
    <3>1. Is(r, o, b, line, begin, "--", TRUE)
      BY <1>5, <1>13, <1>14, <2>3
    <3>2. Inside(t, c, "--", TRUE)
      BY <1>2, <1>14, <2>3, ModesDiffer DEF Inside
    <3> HIDE DEF r, begin
    <3> QED BY <2>2, <3>1, <3>2, ModesDiffer DEF Scanning, r
  <2>4. CASE t[c] = "/"
    <3>1. Is(r, o, b, line, begin, "/*", TRUE)
      BY <1>5, <1>13, <1>14, <2>4
    <3>2. Inside(t, c, "/*", TRUE)
      BY <1>2, <1>14, <2>4, ModesDiffer DEF Inside
    <3> HIDE DEF r, begin
    <3> QED BY <2>2, <3>1, <3>2, ModesDiffer DEF Scanning, r
  <2> QED BY <1>5, <1>14, <2>3, <2>4
<1>15. CASE ~(b = <<>> /\ t[c] \in Space) /\ ~Comment(t, c) /\ t[c] \in Quotes
  <2>1. Is(r, o, more, line, begin, t[c], FALSE)
    BY <1>13, <1>15
  <2>2. c \in KeptOf(t) \ CutsOf(t) /\ t[c] \notin Space /\ NextLine(line, t[c]) = line
    BY <1>4, <1>6, <1>15 DEF NextLine
  <2>3. Upto(t, c, o, more, line, begin)
    BY <1>10, <2>2
  <2>4. Inside(t, c, t[c], FALSE)
    <3>1. c <= c /\ \A j \in (c + 1)..c : FALSE
      <4>1. c \in Nat
        BY <1>1
      <4> HIDE DEF r, begin, more
      <4> QED BY <4>1
    <3> QED BY <1>2, <1>15, <3>1, ModesDiffer DEF Inside
  <2> HIDE DEF r, begin, more
  <2> QED BY <1>11, <2>1, <2>3, <2>4 DEF Scanning, r
<1>16. CASE ~(b = <<>> /\ t[c] \in Space) /\ ~Comment(t, c) /\ t[c] = ";"
  <2> DEFINE out == IF TrimRight(b) = <<>> THEN o ELSE Append(o, [sql |-> TrimRight(b), line |-> begin])
  <2>1. Is(r, out, <<>>, line, begin, "", FALSE)
    BY <1>13, <1>16
  <2>2. c \in CutsOf(t) /\ NextLine(line, t[c]) = line /\ t[c] \notin Quotes
    BY <1>4, <1>6, <1>16 DEF NextLine
  <2>3. Upto(t, c, out, <<>>, line, begin)
    <3> HIDE DEF begin
    <3>1. Upto(t, c, out, <<>>, NextLine(line, t[c]), begin)
      BY <1>9, <2>2, UptoCut
    <3> HIDE DEF out
    <3> QED BY <2>2, <3>1
  <2>4. Inside(t, c, "", FALSE)
    BY <1>8, <1>16, <2>2
  <2> HIDE DEF r, begin, out
  <2> QED BY <1>6, <2>1, <2>3, <2>4 DEF Scanning, r
<1>17. CASE ~(b = <<>> /\ t[c] \in Space) /\ ~Comment(t, c) /\ t[c] \notin Quotes /\ t[c] # ";"
  <2>1. Is(r, o, more, NextLine(line, t[c]), begin, "", FALSE)
    BY <1>5, <1>13, <1>17
  <2>2. Upto(t, c, o, more, NextLine(line, t[c]), begin)
    BY <1>4, <1>10, <1>17
  <2>3. Inside(t, c, "", FALSE)
    BY <1>8, <1>17
  <2> HIDE DEF r, begin, more
  <2> QED BY <1>6, <2>1, <2>2, <2>3 DEF Scanning, r
<1> QED BY <1>12, <1>14, <1>15, <1>16, <1>17

LEMMA ScanKeeps ==
  ASSUME NEW t \in Seq(Marks), NEW c \in 1..Len(t), NEW st, Scanning(t, c - 1, st)
  PROVE  Scanning(t, c, ScanByte(st, t[c], After(t, c)))
<1>1. PICK o, b, line, start, in, skip :
        /\ Is(st, o, b, line, start, in, skip) /\ Inside(t, c - 1, in, skip)
        /\ in \in Quotes => b # <<>>
        /\ Upto(t, IF skip /\ in \in Quotes THEN (c - 1) + 1 ELSE c - 1, o, b, line, start)
  BY DEF Scanning
<1>2. in \in Modes /\ skip \in BOOLEAN
  BY <1>1 DEF Inside
<1>3. (c - 1) + 1 = c
  OBVIOUS
<1>4. CASE skip = TRUE
  <2>1. Upto(t, IF in \in Quotes THEN c ELSE c - 1, o, b, line, start)
    BY <1>1, <1>3, <1>4
  <2>2. Is(st, o, b, line, start, in, TRUE) /\ Inside(t, c - 1, in, TRUE) /\ (in \in Quotes => b # <<>>)
    BY <1>1, <1>4
  <2> QED BY <2>1, <2>2, StepSkip
<1>5. CASE skip = FALSE
  <2>1. Is(st, o, b, line, start, in, FALSE) /\ Inside(t, c - 1, in, FALSE) /\ Upto(t, c - 1, o, b, line, start)
    BY <1>1, <1>5
  <2>2. CASE in \in Quotes
    BY <1>1, <2>1, <2>2, StepQuote
  <2>3. CASE in = ""
    BY <2>1, <2>3, StepOpen DEF Opening
  <2>4. CASE in = "--"
    BY <2>1, <2>4, StepLine
  <2>5. CASE in = "/*"
    BY <2>1, <2>5, StepBlock
  <2> QED BY <1>2, <2>2, <2>3, <2>4, <2>5, ModesDiffer
<1> QED BY <1>2, <1>4, <1>5

\* The scanner cuts a text of any length where its lexemes say.
LEMMA SplitIs ==
  ASSUME NEW t \in Seq(Marks)
  PROVE  splitSQLStatements(t) = StatementsOf(t)
<1> DEFINE s == Scanned(t)
           D == {i \in 0..Len(t) : Scanning(t, i, s[i])}
<1>1. Len(t) \in Nat
  OBVIOUS
<1>2. s[0] = Fresh /\ \A i \in 1..Len(t) : s[i] = ScanByte(s[i - 1], t[i], After(t, i))
  BY ScanIs DEF After
<1> HIDE DEF s
<1>3. 0 \in D
  <2>1. Is(Fresh, <<>>, <<>>, 1, 1, "", FALSE)
    BY DEF Is, Fresh
  <2>2. Inside(t, 0, "", FALSE)
    <3>1. 0 + 1 \in Lexemes(t) \cup {Len(t) + 1}
      <4>1. 1 \in Lexemes(t) \cup {Len(t) + 1}
        BY LexemesAre
      <4> QED BY <4>1
    <3> QED BY <3>1, ModesDiffer DEF Inside
  <2>3. Scanning(t, 0, Fresh)
    BY <2>1, <2>2, UptoNone, ModesDiffer DEF Scanning
  <2> QED BY <1>1, <1>2, <2>3
<1>4. ASSUME NEW d \in 0..Len(t), d \in D, d < Len(t) PROVE d + 1 \in D
  <2>1. d + 1 \in 1..Len(t) /\ (d + 1) - 1 = d /\ d + 1 \in 0..Len(t)
    BY <1>1, <1>4
  <2>2. Scanning(t, (d + 1) - 1, s[d])
    BY <1>4, <2>1
  <2>3. Scanning(t, d + 1, ScanByte(s[d], t[d + 1], After(t, d + 1)))
    BY <2>1, <2>2, ScanKeeps
  <2>4. s[d + 1] = ScanByte(s[d], t[d + 1], After(t, d + 1))
    BY <1>2, <2>1
  <2> QED BY <2>1, <2>3, <2>4
<1>5. Scanning(t, Len(t), s[Len(t)])
  <2> HIDE DEF D
  <2>1. \A d \in 0..Len(t) : d \in D
    BY <1>1, <1>3, <1>4, InductUpTo
  <2>2. Len(t) \in D
    BY <1>1, <2>1
  <2> QED BY <2>2 DEF D
<1>6. PICK o, b, line, start, in, skip :
        /\ Is(s[Len(t)], o, b, line, start, in, skip) /\ Inside(t, Len(t), in, skip)
        /\ Upto(t, IF skip /\ in \in Quotes THEN Len(t) + 1 ELSE Len(t), o, b, line, start)
  BY <1>5 DEF Scanning
<1>7. ~(skip /\ in \in Quotes)
  <2>1. Len(t) + 1 \notin Lexemes(t)
    <3>1. \A i \in Lexemes(t) : i \in 1..Len(t)
      BY LexemesAre
    <3> QED BY <1>1, <3>1
  <2> QED BY <1>6, <2>1 DEF Inside
<1>8. Upto(t, Len(t), o, b, line, start)
  BY <1>6, <1>7
<1>9. flush(s[Len(t)]).out = IF TrimRight(b) = <<>> THEN o ELSE Append(o, [sql |-> TrimRight(b), line |-> start])
  <2> DEFINE z == flush(s[Len(t)])
             out == IF TrimRight(b) = <<>> THEN o ELSE Append(o, [sql |-> TrimRight(b), line |-> start])
  <2>1. Is(z, out, <<>>, line, start, in, skip)
    BY <1>6, StMoves
  <2> HIDE DEF z, out
  <2>2. z.out = out
    BY <2>1 DEF Is
  <2> QED BY <2>2 DEF z, out
<1>10. (IF TrimRight(b) = <<>> THEN o ELSE Append(o, [sql |-> TrimRight(b), line |-> start])) = StatementsOf(t)
  BY <1>8, UptoEnd
<1>11. splitSQLStatements(t) = flush(s[Len(t)]).out
  BY DEF splitSQLStatements, s
<1> QED BY <1>9, <1>10, <1>11

\* A text of characters, whatever it was typed in and whatever is done
\* beside it.
TextInv == text \in Seq(Marks)

LEMMA TextStep == TextInv /\ [Splitting \/ Commanding \/ Holding]_migrationVars => TextInv'
<1> SUFFICES ASSUME TextInv, [Splitting \/ Commanding \/ Holding]_migrationVars PROVE TextInv'
  OBVIOUS
<1>1. ASSUME NEW ch \in Marks, Type(ch) PROVE TextInv'
  BY <1>1 DEF TextInv, Type
<1>2. ASSUME Commanding PROVE text' = text
  <2>1. ASSUME NEW mode, NEW reason, NEW review, NEW failOn, NEW opens, Invoke(mode, reason, review, failOn, opens)
        PROVE  text' = text
    BY <2>1 DEF Invoke
  <2>2. ASSUME Apply \/ ExecStatement \/ ExecFails PROVE text' = text
    BY <2>2 DEF Apply, ExecStatement, ExecFails
  <2>3. ASSUME Applied \/ Kill \/ EditFile PROVE text' = text
    BY <2>3 DEF Applied, Kill, EditFile
  <2> QED BY <1>2, <2>1, <2>2, <2>3 DEF Commanding
<1>3. ASSUME Holding PROVE text' = text
  <2>1. ASSUME NEW plan, HoldPlan(plan) PROVE text' = text
    BY <2>1 DEF HoldPlan
  <2>2. ASSUME NEW reason, NEW expires, ApprovePlan(reason, expires) PROVE text' = text
    BY <2>2 DEF ApprovePlan
  <2>3. ASSUME ReviewPlan \/ CheckPlan \/ MigrationTick PROVE text' = text
    BY <2>3 DEF ReviewPlan, CheckPlan, MigrationTick
  <2> QED BY <1>3, <2>1, <2>2, <2>3 DEF Holding
<1>4. ASSUME UNCHANGED migrationVars PROVE text' = text
  BY <1>4 DEF migrationVars
<1> QED BY <1>1, <1>2, <1>3, <1>4 DEF TextInv, Splitting

\* Every text, of whatever length and of whatever characters, is split exactly
\* at the semicolons outside its quotes and comments, each statement with the
\* line it begins on: one pass with a few flags finds what the lexemes of the
\* whole text say (splitSQLStatements).
THEOREM SplitsAtTopLevelHolds == MigrationSpec => []SplitsAtTopLevel
<1>1. MigrationInit => TextInv
  BY DEF MigrationInit, TextInv
<1>2. TextInv /\ [Splitting \/ Commanding \/ Holding]_migrationVars => TextInv'
  BY TextStep
<1>3. TextInv => SplitsAtTopLevel
  BY SplitIs DEF TextInv, SplitsAtTopLevel
<1> QED BY <1>1, <1>2, <1>3, PTL DEF MigrationSpec
=============================================================================
