----------------------------- MODULE Migration -----------------------------
(***************************************************************************)
(* The migration planner and its command (orm/migration/plan.go,           *)
(* parser.go, review_mode.go, cmd/goquent/migrate.go): a text is split     *)
(* into statements, each statement becomes a step by the first pattern     *)
(* that matches it, a step is classified, and a plan is executable or not. *)
(* `migrate apply` then executes the statements one by one, outside any    *)
(* transaction; a statement may fail, the process may be killed, and the   *)
(* files may be edited while it runs.  A caller of the library may also    *)
(* hold a plan, review and approve it, and ask later whether it may run.   *)
(*                                                                         *)
(* A text is a sequence of the characters the splitter tells apart, "x"    *)
(* standing for any other (sq, dq and bt are the quotes).  A statement is  *)
(* [form, clauses]; a clause of an ALTER TABLE is its verb and whether NOT *)
(* NULL and DEFAULT occur in it.                                           *)
(***************************************************************************)
EXTENDS Naturals, Sequences, FiniteSets, SequencesExt

CONSTANTS
    Marks,        \* the characters of texts
    MaxText,      \* bound: length of a text
    Scripts,      \* what the migration files may hold: sequences of statements
    Structured,   \* step lists callers or schema comparison hand to PlanSteps
    Edited,       \* what an edit may leave in the files
    MaxFileEdits, \* bound: edits of the files during a command
    MaxReviews,   \* bound: calls of ApplyReviewMode on a plan a caller holds
    MaxClock

Clauses == [verb : STRING, notNull : BOOLEAN, default : BOOLEAN]
Statements == [form : STRING, clauses : Seq(Clauses)]
ASSUME ScriptsAssumption == Scripts \cup Edited \subseteq Seq(Statements)

VARIABLES
    text,         \* the text to split
    file,         \* the statements in the files now
    fileEdits,
    command,      \* the command: flags, what it read, plan, statements left, exit code
    executed,     \* history: the statements this command executed, in order
    mine,         \* the plan a caller holds
    verdict,      \* what EnsureExecutable last said of it, {} before
    clock

migrationVars == <<text, file, fileEdits, command, executed, mine, verdict, clock>>

-----------------------------------------------------------------------------
(* splitSQLStatements: one pass with a flag per kind of quote and comment  *)

Space == {"sp", "nl"}
Quotes == {"sq", "dq", "bt"}
TrimRight(s) ==
    LET solid == {i \in DOMAIN s : s[i] \notin Space}
    IN  IF solid = {} THEN <<>> ELSE SubSeq(s, 1, CHOOSE i \in solid : \A j \in solid : j <= i)

Fresh == [out |-> <<>>, b |-> <<>>, line |-> 1, start |-> 1, in |-> "", skip |-> FALSE]
flush(st) ==
    LET sql == TrimRight(st.b)
    IN  [st EXCEPT !.b = <<>>, !.out = IF sql = <<>> THEN @ ELSE Append(@, [sql |-> sql, line |-> st.start])]
Newline(st, ch) == IF ch = "nl" THEN [st EXCEPT !.line = @ + 1] ELSE st
Put(st, ch) == [Newline(st, ch) EXCEPT !.b = Append(@, ch)]

(* Mutant: a semicolon ends a statement whatever quote it is in            *)
EndsAnywhere(st, ch) == ch = ";"
EndsStatement(st, ch) == ch = ";" /\ st.in \notin Quotes

(* One character, of which next follows.                                   *)
ScanByte(st0, ch, next) ==
    LET blank == st0.b = <<>> /\ ch \in Space
        st == IF st0.b = <<>> THEN [st0 EXCEPT !.start = st0.line] ELSE st0
    IN  CASE st0.skip -> [st0 EXCEPT !.skip = FALSE]
          [] ~st0.skip /\ st0.in = "--" ->
               IF ch = "nl" THEN [Newline(st0, ch) EXCEPT !.in = ""] ELSE st0
          [] ~st0.skip /\ st0.in = "/*" ->
               IF ch = "*" /\ next = "/" THEN [st0 EXCEPT !.in = "", !.skip = TRUE] ELSE Newline(st0, ch)
          [] ~st0.skip /\ st0.in \notin {"--", "/*"} /\ blank -> Newline(st0, ch)
          [] OTHER ->
               CASE st.in \notin Quotes /\ ch = "-" /\ next = "-" -> [st EXCEPT !.in = "--", !.skip = TRUE]
                 [] st.in \notin Quotes /\ ch = "/" /\ next = "*" -> [st EXCEPT !.in = "/*", !.skip = TRUE]
                 [] ch = "sq" /\ st.in = "sq" /\ next = "sq" -> [Put(Put(st, ch), ch) EXCEPT !.skip = TRUE]
                 [] ch \in Quotes /\ st.in \in {"", ch} /\ ~(ch = "sq" /\ st.in = "sq" /\ next = "sq") ->
                      [Put(st, ch) EXCEPT !.in = IF @ = "" THEN ch ELSE ""]
                 [] EndsStatement(st, ch) -> flush(st)
                 [] OTHER -> Put(st, ch)

Scanned(t) ==
    LET At[i \in 0..Len(t)] ==
            IF i = 0 THEN Fresh
            ELSE ScanByte(At[i - 1], t[i], IF i < Len(t) THEN t[i + 1] ELSE "")
    IN  At
splitSQLStatements(t) == flush(Scanned(t)[Len(t)]).out

-----------------------------------------------------------------------------
(* parseMigrationStatement and classifyStep                                *)

Plain(type) ==
    [type |-> type, nullable |-> TRUE, default |-> FALSE, concurrent |-> FALSE,
     from |-> "", to |-> "", unknown |-> FALSE]

(* Mutant: NOT NULL is looked for behind DEFAULT only                      *)
nullableBeforeDefault(clauses) == \A c \in Range(clauses) : ~c.default \/ ~c.notNull
nullableIn(clauses) == \A c \in Range(clauses) : ~c.notNull

(* Only the first clause of an ALTER TABLE is matched; NOT NULL and DEFAULT
   are looked for in all that follows ADD.  ADD CONSTRAINT and DROP
   CONSTRAINT have the shape of a column.                                  *)
parseAlter(clauses) ==
    LET first == clauses[1]
    IN  CASE first.verb \in {"add", "addConstraint"} ->
               [Plain("AddColumn") EXCEPT
                  !.nullable = nullableIn(clauses),
                  !.default = \E c \in Range(clauses) : c.default]
          [] first.verb \in {"drop", "dropConstraint"} -> Plain("DropColumn")
          [] first.verb \in {"rename", "change"} -> Plain("RenameColumn")
          [] first.verb \in {"type", "modify"} -> [Plain("AlterColumnType") EXCEPT !.to = "some"]
          [] first.verb = "setNotNull" -> [Plain("AlterNullability") EXCEPT !.nullable = FALSE]
          [] first.verb = "dropNotNull" -> Plain("AlterNullability")
          [] OTHER -> Plain("Unsupported")

parseMigrationStatement(s) ==
    CASE s.form = "createTable" -> Plain("AddTable")
      [] s.form = "dropTable" -> Plain("DropTable")
      [] s.form = "alter" -> parseAlter(s.clauses)
      [] s.form = "createIndex" -> Plain("AddIndex")
      [] s.form = "createIndexConcurrently" -> [Plain("AddIndex") EXCEPT !.concurrent = TRUE]
      [] s.form = "dropIndex" -> Plain("DropIndex")
      [] OTHER -> Plain("Unsupported")

riskRank == [low |-> 0, medium |-> 1, high |-> 2, destructive |-> 3, blocked |-> 4]
compareRisk(a, b) == riskRank[a] >= riskRank[b]

structuralOnly(type) ==
    type \in {"AlterIndex", "AlterColumnDefault", "AddForeignKey", "DropForeignKey", "AlterForeignKey",
              "AddCheck", "DropCheck", "AlterCheck", "SchemaIdentityDifference"}

(* parseTypeSize: decimal(10,2) has size 10                                *)
TypeOf == [smallint |-> [base |-> "smallint", size |-> 0, rank |-> 1], int |-> [base |-> "int", size |-> 0, rank |-> 2],
           text |-> [base |-> "text", size |-> 0, rank |-> 5], varchar9 |-> [base |-> "varchar", size |-> 9, rank |-> 0],
           varchar5 |-> [base |-> "varchar", size |-> 5, rank |-> 0]]
Sized(a, b) == a.base = b.base /\ a.size > 0 /\ b.size > 0
typeChangeNarrows(a, b) == IF Sized(a, b) THEN b.size < a.size ELSE a.rank > 0 /\ b.rank > 0 /\ b.rank < a.rank
typeChangeExpands(a, b) == IF Sized(a, b) THEN b.size >= a.size ELSE a.rank > 0 /\ b.rank > 0 /\ b.rank > a.rank
classifyTypeChange(from, to) ==
    CASE from = "" -> "high"
      [] from # "" /\ typeChangeNarrows(TypeOf[from], TypeOf[to]) -> "destructive"
      [] from # "" /\ ~typeChangeNarrows(TypeOf[from], TypeOf[to]) /\ typeChangeExpands(TypeOf[from], TypeOf[to]) -> "medium"
      [] OTHER -> "high"

(* The level of the one warning of a step; a step without one is low.      *)
classifyStep(s) ==
    CASE s.unknown \/ s.type = "Unsupported" -> "blocked"
      [] ~s.unknown /\ (structuralOnly(s.type) \/ s.type = "RenameColumn") -> "high"
      [] ~s.unknown /\ s.type \in {"DropTable", "DropColumn"} -> "destructive"
      [] ~s.unknown /\ s.type = "AddColumn" /\ ~s.nullable -> IF s.default THEN "medium" ELSE "high"
      [] ~s.unknown /\ s.type = "AlterColumnType" -> classifyTypeChange(s.from, s.to)
      [] ~s.unknown /\ s.type = "AlterNullability" /\ ~s.nullable -> "high"
      [] ~s.unknown /\ (s.type = "DropIndex" \/ (s.type = "AddIndex" /\ ~s.concurrent)) -> "medium"
      [] OTHER -> "low"

-----------------------------------------------------------------------------
(* Plans                                                                   *)

NoApproval == [given |-> FALSE, reason |-> FALSE, expires |-> 0]
aggregateWarnings(levels) == CHOOSE l \in levels : \A k \in levels : compareRisk(l, k)
requiresApproval(level) == compareRisk(level, "high") /\ level # "blocked"

finalizePlan(steps) ==
    LET levels == {"low"} \cup {classifyStep(s) : s \in Range(steps)}
        level == aggregateWarnings(levels)
    IN  [steps |-> steps, levels |-> levels, level |-> level,
         required |-> requiresApproval(level),
         incomplete |-> \E s \in Range(steps) : s.unknown,
         blocked |-> level = "blocked" \/ \E s \in Range(steps) : structuralOnly(s.type),
         approval |-> NoApproval]

PlanSQL(statements) == finalizePlan([i \in DOMAIN statements |-> parseMigrationStatement(statements[i])])
PlanSteps(steps) == finalizePlan(steps)

backfillReviewForStep(s) ==
    IF \/ s.type \in {"AddColumn", "AlterNullability"} /\ ~s.nullable
       \/ s.type \in {"AlterColumnType", "RenameColumn", "DropColumn"}
    THEN {"medium"} ELSE {}

backfillLevels(plan) == plan.levels \cup UNION {backfillReviewForStep(s) : s \in Range(plan.steps)}

(* The verdict is recomputed from the warnings: that a structural step
   blocks the plan is not a warning, and is forgotten here.                *)
applyBackfillReviewMode(plan) ==
    LET levels == backfillLevels(plan)
        level == aggregateWarnings(levels)
    IN  [plan EXCEPT !.levels = levels, !.level = level,
                     !.blocked = level = "blocked", !.required = requiresApproval(level)]

ReviewModes == {"", "backfill", "other"}
ModeKnown(mode) == mode # "other"
ApplyReviewMode(plan, mode) == IF mode = "backfill" THEN applyBackfillReviewMode(plan) ELSE plan

(* Mutant: the plan's own flag is trusted                                  *)
RefusedByFlag(plan) == plan.incomplete \/ plan.blocked
RefusedByStep(plan) ==
    \/ \E s \in Range(plan.steps) : structuralOnly(s.type) \/ s.unknown
    \/ plan.incomplete \/ plan.blocked

EnsureExecutable(plan, now) ==
    /\ ~RefusedByStep(plan)
    /\ plan.required => /\ plan.approval.given /\ plan.approval.reason
                        /\ plan.approval.expires = 0 \/ plan.approval.expires > now

-----------------------------------------------------------------------------
(* goquent migrate plan | dry-run | apply                                  *)

Idle == [phase |-> "idle", mode |-> "", reason |-> FALSE, review |-> "", failOn |-> FALSE,
         sql |-> <<>>, plan |-> finalizePlan(<<>>), left |-> <<>>, exit |-> 0]

(* Migrator.Plan: the approval is copied into the plan                     *)
MigratorPlan(c) ==
    [ApplyReviewMode(PlanSQL(c.sql), c.review) EXCEPT
       !.approval = IF c.reason THEN [given |-> TRUE, reason |-> TRUE, expires |-> 0] ELSE NoApproval]

Exits(c, code) == command' = [c EXCEPT !.phase = "exited", !.exit = code]
Threshold(c) == IF c.failOn /\ compareRisk(c.plan.level, "high") THEN 1 ELSE 0

(* The files are read once.  Without a driver, or when the database cannot
   be opened, apply ends with 2.                                           *)
Invoke(mode, reason, review, failOn, opens) ==
    LET read == [Idle EXCEPT !.mode = mode, !.reason = reason, !.review = review,
                             !.failOn = failOn, !.sql = file]
        c == [read EXCEPT !.plan = MigratorPlan(read)]
    IN  /\ command.phase = "idle"
        /\ CASE ~ModeKnown(review) -> Exits(read, 2)
             [] ModeKnown(review) /\ mode # "plan" /\ ~EnsureExecutable(c.plan, clock) -> Exits(c, 1)
             [] ModeKnown(review) /\ mode = "plan" -> Exits(c, Threshold(c))
             [] OTHER -> IF mode = "dry-run" THEN Exits(c, Threshold(c))
                         ELSE IF opens THEN command' = [c EXCEPT !.phase = "opened"] ELSE Exits(c, 2)
        /\ UNCHANGED <<text, file, fileEdits, executed, mine, verdict, clock>>

(* Migrator.Apply plans the text it holds again                            *)
Apply ==
    /\ command.phase = "opened"
    /\ LET c == [command EXCEPT !.plan = MigratorPlan(command)]
       IN  IF EnsureExecutable(c.plan, clock)
           THEN command' = [c EXCEPT !.phase = "executing", !.left = c.sql]
           ELSE Exits(c, 2)
    /\ UNCHANGED <<text, file, fileEdits, executed, mine, verdict, clock>>

ExecStatement ==
    /\ command.phase = "executing" /\ command.left # <<>>
    /\ executed' = Append(executed, Head(command.left))
    /\ command' = [command EXCEPT !.left = Tail(@)]
    /\ UNCHANGED <<text, file, fileEdits, mine, verdict, clock>>

(* Mutant: the next statement is tried                                     *)
AfterFailureGoesOn(c) == [c EXCEPT !.left = Tail(@)]
AfterFailure(c) == [c EXCEPT !.phase = "exited", !.exit = 2]

(* The database rejects a statement, or the answer is lost                 *)
ExecFails ==
    /\ command.phase = "executing" /\ command.left # <<>>
    /\ \/ UNCHANGED executed
       \/ executed' = Append(executed, Head(command.left))
    /\ command' = AfterFailure(command)
    /\ UNCHANGED <<text, file, fileEdits, mine, verdict, clock>>

Applied ==
    /\ command.phase = "executing" /\ command.left = <<>>
    /\ Exits(command, Threshold(command))
    /\ UNCHANGED <<text, file, fileEdits, executed, mine, verdict, clock>>

(* The process is killed                                                   *)
Kill ==
    /\ command.phase \in {"opened", "executing"}
    /\ command' = [command EXCEPT !.phase = "killed"]
    /\ UNCHANGED <<text, file, fileEdits, executed, mine, verdict, clock>>

EditFile ==
    /\ command.phase \in {"opened", "executing"} /\ fileEdits < MaxFileEdits
    /\ file' \in Edited
    /\ fileEdits' = fileEdits + 1
    /\ UNCHANGED <<text, command, executed, mine, verdict, clock>>

-----------------------------------------------------------------------------
(* A caller and the plan it holds                                          *)

NothingHeld == [plan |-> finalizePlan(<<>>), reviews |-> 0, held |-> FALSE]

HoldPlan(plan) ==
    /\ ~mine.held
    /\ mine' = [plan |-> plan, reviews |-> 0, held |-> TRUE]
    /\ UNCHANGED <<text, file, fileEdits, command, executed, verdict, clock>>

ReviewPlan ==
    /\ mine.held /\ mine.reviews < MaxReviews
    /\ mine' = [mine EXCEPT !.plan = ApplyReviewMode(@, "backfill"), !.reviews = @ + 1]
    /\ UNCHANGED <<text, file, fileEdits, command, executed, verdict, clock>>

(* The Approval of a plan is a public field                                *)
ApprovePlan(reason, expires) ==
    /\ mine.held
    /\ mine' = [mine EXCEPT !.plan.approval = [given |-> TRUE, reason |-> reason, expires |-> expires]]
    /\ UNCHANGED <<text, file, fileEdits, command, executed, verdict, clock>>

CheckPlan ==
    /\ mine.held
    /\ verdict' = {[ok |-> EnsureExecutable(mine.plan, clock), plan |-> mine.plan, at |-> clock]}
    /\ UNCHANGED <<text, file, fileEdits, command, executed, mine, clock>>

MigrationTick ==
    /\ mine.held /\ clock < MaxClock
    /\ clock' = clock + 1
    /\ UNCHANGED <<text, file, fileEdits, command, executed, mine, verdict>>

(* Texts of every shape                                                    *)
Type(ch) ==
    /\ Len(text) < MaxText
    /\ text' = Append(text, ch)
    /\ UNCHANGED <<file, fileEdits, command, executed, mine, verdict, clock>>

-----------------------------------------------------------------------------
MigrationInit ==
    /\ text = <<>> /\ file \in Scripts /\ fileEdits = 0
    /\ command = Idle /\ executed = <<>>
    /\ mine = NothingHeld /\ verdict = {} /\ clock = 1

(* The three are independent: each is explored by itself.                  *)
Splitting == \E ch \in Marks : Type(ch)
Commanding ==
    \/ \E mode \in {"plan", "dry-run", "apply"}, reason, failOn, opens \in BOOLEAN, review \in ReviewModes :
           Invoke(mode, reason, review, failOn, opens)
    \/ Apply \/ ExecStatement \/ ExecFails \/ Applied \/ Kill \/ EditFile
Holding ==
    \/ \E s \in Scripts : HoldPlan(PlanSQL(s))
    \/ \E s \in Structured : HoldPlan(PlanSteps(s))
    \/ \E reason \in BOOLEAN, expires \in 0..MaxClock : ApprovePlan(reason, expires)
    \/ ReviewPlan \/ CheckPlan \/ MigrationTick
MigrationSpec == MigrationInit /\ [][Splitting \/ Commanding \/ Holding]_migrationVars

-----------------------------------------------------------------------------
(* Properties                                                              *)

(* The text again, as a sequence of lexemes: LexEnd is where the lexeme at
   i ends - a quoted string, a comment or one character.                   *)
FirstOr(S, n) == IF S = {} THEN n ELSE CHOOSE i \in S : \A j \in S : i <= j
Comment(t, i) == /\ i < Len(t)
                 /\ <<t[i], t[i + 1]>> \in {<<"-", "-">>, <<"/", "*">>}
LexEnd(t, i) ==
    LET after == (i + 1)..Len(t)
    IN  CASE t[i] \in Quotes -> FirstOr({j \in after : t[j] = t[i]}, Len(t))
          [] Comment(t, i) /\ t[i] = "-" -> FirstOr({j \in after : t[j] = "nl"}, Len(t))
          [] Comment(t, i) /\ t[i] = "/" -> FirstOr({j \in (i + 3)..Len(t) : t[j] = "/" /\ t[j - 1] = "*"}, Len(t))
          [] OTHER -> i
(* One begins at the first character and one behind every other.           *)
Lexemes(t) ==
    LET behind == [i \in 1..Len(t) |-> LexEnd(t, i) + 1]
        closed == {S \in SUBSET (1..(Len(t) + 1)) :
                     1 \in S /\ \A i \in S \ {Len(t) + 1} : behind[i] \in S}
    IN  {i \in 1..Len(t) : \A S \in closed : i \in S}
Written(t, lexemes) == UNION {i..LexEnd(t, i) : i \in {k \in lexemes : ~Comment(t, k)}}
Cuts(t, lexemes) == {i \in lexemes : t[i] = ";"}

(* The positions of the statement that ends at cut c, or at the end        *)
Piece(written, cuts, c) == {i \in written : i < c /\ \A d \in cuts : d < c => d < i}
Solid(t, piece) == {i \in piece : t[i] \notin Space}
Between(t, piece) == {i \in piece : \E k, l \in Solid(t, piece) : k <= i /\ i <= l}

InOrder(S) == [n \in 1..Cardinality(S) |-> CHOOSE i \in S : Cardinality({j \in S : j <= i}) = n]
Newlines(t, i) == Cardinality({k \in 1..i : t[k] = "nl"})
StatementAt(t, keep) ==
    [sql |-> [n \in DOMAIN keep |-> t[keep[n]]], line |-> 1 + Newlines(t, keep[1] - 1)]
StatementsOf(t) ==
    LET lexemes == Lexemes(t)
        written == Written(t, lexemes)
        cuts == Cuts(t, lexemes)
        ends == InOrder({c \in cuts \cup {Len(t) + 1} : Solid(t, Piece(written, cuts, c)) # {}})
    IN  [n \in DOMAIN ends |-> StatementAt(t, InOrder(Between(t, Piece(written, cuts, ends[n]))))]

(* What is planned and executed is the text cut exactly at the semicolons
   outside quotes and comments, less the comments, each statement with the
   line it begins on (parser.go:39).                                       *)
SplitsAtTopLevel == splitSQLStatements(text) = StatementsOf(text)

(* A command executes a prefix, in order, of the statements it read when it
   planned - all of them when it reports success, never past one that
   failed, none when it refuses or was not asked to apply - although the
   files change and the process may die in between (plan.go:216).          *)
RunsPlannedPrefix ==
    /\ IsPrefix(executed, command.sql)
    /\ executed # <<>> => command.mode = "apply"
    /\ command.phase = "exited" /\ command.exit = 0 /\ command.mode = "apply" => executed = command.sql
    /\ command.phase = "exited" /\ command.exit = 1 => executed \in {<<>>, command.sql}

(* What docs/migration-plan.md says of a change                            *)
Dangerous(s) ==
    \/ s.form = "dropTable"
    \/ s.form = "alter" /\ \E c \in Range(s.clauses) :
           \/ c.verb \in {"drop", "rename", "change", "type", "modify", "setNotNull"}
           \/ c.verb = "add" /\ c.notNull /\ ~c.default
Opaque(s) == s.form = "other" \/ (s.form = "alter" /\ \E c \in Range(s.clauses) : c.verb = "other")
Single(s) == Len(s.clauses) <= 1

(* No statement with one change that is high risk or destructive by the
   guide is executed without an approval reason, wherever it stands among
   the others, and no file with a statement that cannot be classified has
   any statement executed.                                                 *)
DangerousRunsApproved ==
    \A i \in DOMAIN executed :
        /\ Single(executed[i]) /\ Dangerous(executed[i]) => command.reason
        /\ \A s \in Range(command.sql) : Single(s) => ~Opaque(s)

(* The same of every statement, as the guide says it.                      *)
DangerousAlwaysApproved ==
    \A i \in DOMAIN executed : Dangerous(executed[i]) => command.reason

(* A plan found executable has no step that only a comparison of schemas
   can produce, none that is unknown or unclassified, and, for a step of
   high risk or more, a reason that has not expired - whatever review modes
   were applied to it and in which order it was approved (plan.go:244,
   review_mode.go:31).                                                     *)
ExecutableIsSafe ==
    \A v \in verdict : v.ok =>
        /\ \A s \in Range(v.plan.steps) : ~structuralOnly(s.type) /\ classifyStep(s) # "blocked"
        /\ (\E s \in Range(v.plan.steps) : compareRisk(classifyStep(s), "high"))
               => v.plan.approval.reason /\ v.plan.approval.expires \notin 1..v.at
=============================================================================
