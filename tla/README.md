# Verification of goquent

goquent is a Go ORM and query builder with a gate in front of the database.
This project models the parts that decide what reaches the database and what the
caller is told of it: commands that must be applied once although connections and
processes fail, plans that must run once and as they were reviewed, writes whose
outcome must be told truthfully, tenants that must not meet, statements that must
mean what the calls said, migrations that must not run unreviewed, and the
accounting of what a request did.

`PROJECT.json` lists, for machines, the components, the runs and their
properties, the source lines of every definition, the hazards and the theorems.

## 1. Inventory

| component | state it keeps | operations | what is hard | what makes it correct |
|---|---|---|---|---|
| command store (`orm/command_store.go`) | a ledger table in the database, one transaction per run | `CommandStore.Run`: lookup, reserve, statements and hooks, save result, commit | concurrent callers of one key, ambiguous commit and rollback, panics, process death, rows changed or purged out of band | applied at most once per record and as a whole; definite errors and answers are true |
| observation scope (`orm/internal/observe/state.go`) | counters, pending tickets, shapes, event queue, under one mutex | `Start`, `Begin`, `End`, `Reject`, `Tx`, `Finish`, `Drain`, `Snapshot` | statements of several goroutines, late and double completions, limits, saturation, a hook called without the lock | exact budget; counters equal what happened; frozen after Finish; no event lost or delivered twice |
| observed reader (`orm/internal/observe/rows.go`) | counts and flags of one result | `Next`, `Scan`, `Err`, `NextResultSet`, `Close`, `Result` | arbitrary call orders, several result sets, failures at each call, cancellation between calls | success only for a complete clean read; ticket ended once |
| validated plans (`orm/query/binding.go`, `authorization*.go`, `execution.go`) | an opaque handle with an atomic flag, private plans, provider decisions | `Validate*`, `ExecuteValidated*`, `Authorize` | copies of a handle, a Query changed meanwhile, late or kept decisions, expiry and cancellation during callbacks | what runs is what was validated, once, and high-risk statements only under a decision that still holds |
| write results (`orm/query/write_results.go`, `optimistic.go`, `internal/writecheck`) | an atomic flag per plan, an owned transaction | `AtomicWrite`, `ExpectAffected`, `OptimisticVersion`, `runWrite` | concurrent writers of one row, failing commit and rollback, panicking scanners | no lost update; a definite error changed nothing; no lock left behind |
| transactions and recipes (`orm/orm.go`, `driver/driver.go`, `transaction_hooks.go`, `idempotency.go`) | a transaction, application callbacks | `TransactionContext`, `RunTransactionWithHooks`, `RunIdempotentCommand` | panicking callbacks, conflict and second lookup, ambiguous commit, deadlines | all or nothing; an answer is a row; connections come back |
| compound and nested writes (`orm/compound_plan.go`, `nested_*.go`, `scope.go`) | statements planned on one handle and run on another | plan, rebind, parent, deletes, children, grandchildren | a child that fails after its parent, scopes that change the children, concurrent replacements | one caller's whole tree or none of it |
| write mapping (`orm/write*.go`, `meta.go`, `internal/writeinput`) | columns and arguments in parallel lists | `Insert`, `InsertMany`, `Update`, `Upsert`, `UpsertMany` | tags, options, map order, batches of unlike rows | a value lands in its own column and row; a batch is its single writes |
| gate (`orm/query/risk.go`, `suppression.go`, `policy.go`, `tenant_*.go`, `write_scope.go`, `settings.go`, `plan.go`) | a registry of policies, snapshots of it, plans with a public half | policy registration, planning, suppression, approval, execution | combinations of rules; public plans that are edited; expiry | no row of another tenant; scope claims are proven; no risk runs unanswered |
| review receipts (`orm/query/review_receipt.go`, `orm/review/precision.go`) | token with atomic counters, operations, recorded receipts | sample, record, compare | concurrent sampling against two budgets; queries and sources that change meanwhile | bounds hold; matched is proven |
| review scanner (`orm/review`) | syntax trees | scan, track, diff | precision of static analysis | never reports more than it knows |
| migration planner (`orm/migration/plan.go`, `parser.go`, `review_mode.go`, `cmd/goquent/migrate.go`) | a plan, an approval | `Plan`, `DryRun`, `Apply`, `ApplyReviewMode`, `EnsureExecutable` | texts with quotes and comments, partial application, edited files | what was planned runs, in order, and nothing dangerous without a reason |
| preflight (`orm/migration/preflight*.go`) | a connection, a generation counter, private receipts in artifacts | derivation of requirements, `Collect`, `Evaluate`, `Close` | many queries without a transaction while other sessions work; failed and newer attempts; copied and edited artifacts; the clock | a satisfied verdict is of the newest attempt, recent, true of the time of its collection, and leaves nothing unobserved |
| schema comparison (`orm/migration/schema*.go`) | declared schemas, complete or not | `DiffSchemas`, completeness of a schema | declarations that are partial, double or contradictory | no invented change; no gap left unmarked |
| status (`orm/migration/status.go`) | none of its own | `ReadStatus` | two queries beside a working migration tool | ready is reported only if it was so |
| drift (`orm/migration/drift.go`) | records | compare | none at run time | every input classified |
| manifest, operations, MCP server, the other commands | documents | build, check, serve | none concurrent: one request at a time | read only |
| query builder (`orm/internal/querybuilder`, `orm/query/query.go`) | clauses of each builder, subqueries | fluent calls, `Build*` | groups and ORs stored flat, text and arguments built apart, policies added at every build | the statement means what was said; arguments fit; building changes nothing |

Interactions. A `Query` plans a statement (`plan.go`) and seals it
(`sealExecution`); the gate, the authorization and the write options are checked
against the seal; `runWrite` or `execute` claims the seal and calls the executor
through `plannedExecution.observe`, which reserves budget in the observation
scope of the context; rows come back through the observed reader, which ends the
scope's ticket. The command store runs sealed statements of its own inside one
transaction. Contexts, the authorization provider, hooks and scanners are
application code called in the middle of these steps.

## 2. Modules

| module | models | composed with |
|---|---|---|
| `CommandStore` | `CommandStore.Run` and its database | implements `OnceLedger` |
| `OnceLedger` | what the store promises: a record is decided once and replayed | abstract specification |
| `CommandStoreProofs`, `ObserveProofs`, `AtomicWriteProofs`, `WritesProofs`, `ReviewProofs`, `MigrationProofs`, `PreflightProofs`, `GateProofs` | theorems, see section 5 | the module they are named for; `ObserveProofs` also `ObservedRows`, `MigrationProofs` also `MigrationStatus` and `SchemaDiff`, `ReviewProofs` is over `ReviewSession` and `PlanBinding`, `WritesProofs` over `Recipes` and `WriteMapping` |
| `Observe` | `State` and its tickets, boundaries, events | |
| `ObservedRows` | `Rows` over `*sql.Rows` | ends a ticket of `Observe` |
| `PlanBinding` | validated plans and authorization | dispatches what `AtomicWrite` or a read executes |
| `AtomicWrite` | `runWrite` of several goroutines on one row | |
| `Preflight` | derived requirements, collectors, evaluation, and other sessions | observes what `SchemaDiff` compares |
| `SchemaDiff` | `DiffSchemas` and `schemaDefinitionComplete` as operators | |
| `QueryBuilder` | the fluent builder, its predicate tree and `Build*` in both dialects | |
| `WriteScope` | condition trees: what the analysis reads and what the database makes of them | |
| `RiskPolicy` | risk rules, table policies, suppressions | over `WriteScope` |
| `Gate` | one query from its settings to the rows it touches | over `RiskPolicy` |
| `Recipes` | transactions, hooks, idempotent commands, nested writes of concurrent callers | |
| `WriteMapping` | structs, maps and options to a statement, and its effect | |
| `ReviewSession` | receipts, `Record`, `finish` | |
| `Migration` | splitter, parser, classification, plans and `goquent migrate` | executes what `SchemaDiff` or a text plans |
| `MigrationStatus` | `ReadStatus` beside a migration tool | |
| `MC_*` | the instances TLC checks | |

Comments in each module say which code an action stands for; in general one
method under a mutex, or the code between two calls that can block or fail, is
one action. A definition whose name ends like another's with a suffix
(`ReserveOutsideTx`, `DrainTakeKeepsQueue`, ...) and stands before it is a
mutant: the same operation with a plausible mistake, labelled "Mutant:" in its comment. Each property of each run is
violated when its mutant replaces the original.

### CommandStore

State: `ledger[k]` is the committed row of an operation ID, `tx[c]` the open
transaction of caller `c` with the row it reserved and the statements it ran,
`pc[c]` its place in `Run`. Actions: `Call` (checks and input snapshot),
`Lookup`, `Begin`, `Reserve*`, `Relookup`, `ExecStep`/`ExecFails`, `SaveResult`,
`Commit*`, `Panic`; the environment cancels contexts, kills processes, loses
COMMIT answers before or after the server executed them, ends orphaned
transactions, damages and purges rows.

`OnceLedger` is the contract in `command_store.go` above `Run`: the first decision for a record
is final and later calls replay it. `ImplementsOnceLedger` maps the detailed
state to it.

### Observe and ObservedRows

Every method of `State` but `Drain` runs under `State.mu` and is one action;
`Drain` is three, because the hook is called without the lock. `sum` holds the
counters of `Summary`; `Record` is `add` and `enqueue`, with saturation and
dropping. `fate[s]` is a history of statement `s`, which the counters are
compared with. `ObservedRows` lets a caller call the reader's methods in any
order on results of one to three sets; `*sql.Rows` is external. `read` is a
history of the rows the caller was given of each set: a success has to mean that
it was given all of each.

### PlanBinding and AtomicWrite

`PlanBinding` has a clock, a mutable Query, a context, handles and attempts. An
attempt claims its handle, rebuilds the plan, requests and awaits a decision,
checks, binds and dispatches; the application can change everything between any
two of these steps. `AtomicWrite` has a row with a version, plans sealed in one
of three modes, and goroutines that execute them; the database locks an
uncommitted row.

### Preflight

A plan is a sequence of abstract steps; `requirementsFor` is the derivation of
what has to be observed. `Collect` is one action per query: the schemas, each
target's shape, the counts, the shapes again, the schemas again. Between any two
of them other sessions may alter a schema, a table or rows. A table's `shape` is
what `inspectTable` can find: its type and whether all of its rows are visible. A receipt
is private to the collector; callers may copy an artifact, edit it and
recompute its public digest (`Edit`). `log` is a history of attempts: when each
began and whether its counts were right when taken. `env` selects one of the settings
of the instance: which plans, how many collectors, what changes.

`SatisfiedIsTrue` speaks of collections during which other sessions made at most
one change of schema or tables. With two, the second undoing the first, a false
verdict is possible, as docs/migration-preflight.md says ("does not detect an
intermediate change that was reverted").

### SchemaDiff

There is one step, the comparison. The initial states are the pairs of small
schemas and of declarations of them; a declaration says nothing that is not so
except where it is invalid or contradicts itself (`Truthful`, which `DeclaresAssumption`
asks of every declaration considered). `Changes` computes what really
differs, and the plan is compared with it. `NoFalseChange` assumes `SameStyle`:
a table both sides declare is identified by both or by neither, and likewise an
index and its extended attributes. Without it the comparison does report
changes that are none: see section 6.

### QueryBuilder

SQL text is a sequence of tokens. A condition is one token that knows the call
that asked for it; a placeholder carries its number and the value its caller
meant, so the text can be compared with the argument list, which the code builds
apart. `b` holds two builders, of which one may use the other as a subquery,
union branch or join. `ref` is what the calls said, kept beside the storage, and
`MeaningPreserved` evaluates both under every assignment of truth to the
conditions. `WhereGroup` and its relatives push a frame on a stack, because the
callback's calls go to a builder of its own. `WhereIn` is given a value of three
kinds (`InValues`): a slice of a type `addWhereIn` lists, a slice of another type that
can be copied, and anything else. The first adds its condition; what `strictInValue`
refuses is a remembered error; the rest adds nothing and remembers nothing. `ref` holds the
call all the same, marked `UnlistedLeaf`, and `MeaningPreserved` makes exactly one exception: the
meaning it compares with leaves these calls out, because the code does (section 6). `WhereColumns` adds its pairs flat,
as `addWhereColumns` does, and is called with at least one pair. Left out: equality with an empty
list, JSON conditions only `api` offers, `Build` inside a group callback.

### WriteScope, RiskPolicy, Gate

`WriteScope` has the condition trees with three-valued truth on one side and the
two analyses of the code on the other; `RiskPolicy` the rules that turn a plan into
warnings and a level; `Gate` the life of one query: policies registered and
snapshot, conditions, joins, projections, suppressions and approvals, planning,
sealing, an edit of the public half of the plan, a tick of the clock, a write of
another session, execution. `db` is the content of the target table; execution
evaluates the sealed statement on it, so the tenant and scope properties speak
of rows and not of the analysis. Setters that commute are called in one order;
the clock moves only where something reads it; conditions are not offered to an
INSERT, which reads none. A batch is inserted row by row (`InsertRow`), each over what the rows
before it left, and an error undoes them all. MySQL writes through a join, where SET and the join's
values allow it (`JoinedWrite`); PostgreSQL refuses the text the builder makes.

### Recipes and WriteMapping

In `Recipes` each caller makes one call. A statement planned on the plain
database is durable at once; one rebound to the transaction lands in `pend` and
becomes durable at `Commit`. Any step may fail, panic or outlive its context;
`AwaitDone` is database/sql's watcher that rolls back when a context ends. A
statement that meets another caller's uncommitted key waits. All calls are about
one idempotency key and one parent; that is the only way they can meet.
`WriteMapping` has one step, a call with its rows and options; the two lists the
code builds (columns, arguments) are built as it builds them, and `Executed`
applies the statement to a small table with a primary and another unique key. An assignment
that reads its column (`SetColumn` of a column, `Increment`) in an `Upsert` is refused by PostgreSQL (`Ambiguous`).

### ReviewSession

The scanner samples the operations of the source, then tests sample the real
queries from several goroutines, `Ask` and `Sampled` being the parts of
`ReviewReceipt` before and after the planning call. A query is the list of its calls,
the inputs (files, go.mod, manifest) one content number. `finish` compares
operation by operation, and queries may change until the tests return.

### Migration and MigrationStatus

Three independent parts: texts typed character by character and split, compared
with a second definition by lexemes; the command, which reads the files, plans,
opens the database and executes statement by statement while files are edited,
statements fail and the process is killed; and a plan a caller holds, reviews,
approves with an expiry and asks `EnsureExecutable` about. A statement is its
form and the clauses of its ALTER TABLE. `MigrationStatus` is the
two queries of `ReadStatus`, with a migration tool at work between them.

## 3. Runs

| run | bounds | shows |
|---|---|---|
| `command_store` | 2 callers, 1 key, 2 inputs, 2 runs in total over both callers, 1 purge, 1 damage | `OncePerRecord`, `WholeCommands`, `DefiniteMeansNotApplied`, `AnswersAreApplications`, refinement of `OnceLedger`; `RunsSettle`: every run returns, every key is released |
| `observe` | lanes: 3 statements, 2 shapes, 1 refusal; 2 statements, 2 drains, 1 transaction, a queue of 2; results of up to 3 sets | `SummaryIsTrue` (types, budget, counters, repeated shapes, boundaries), `Frozen`, `EventsAccounted`, `DrainEnds`, `EndIsTruthful` |
| `reviews` | lanes: 2 operations, 2 samplers, 2 records, 1 edit; 2 attempts, 2 handles, 4 materials; texts of up to 5 of 8 characters; files of up to 2 of 24 statements, 1 edit; held plans, 1 review, clock of 2; 3 versions, 7 moves | `ReceiptBudget`, `MatchedIsProven`; `SingleAttempt`, `DispatchIsCovered`, `BoundInTime`; `SplitsAtTopLevel`; `RunsPlannedPrefix`, `DangerousRunsApproved`; `ExecutableIsSafe`; `ReadyWasTrue` |
| `migrate_clauses` | as `reviews` | violated: see section 6 |
| `atomic_write` | 3 writers, 2 plans, version up to 1 | `UpdatesAreKept` (single use, no lost update, no version without successor), `AnswersAreTrue` (a definite error changed nothing, success is durable), `WritesSettle` (writes return, locks go) |
| `preflight` | six settings of 2 tables, 2 scopes, at most 2 collectors, 3 attempts, 2 changes | `SatisfiedHolds`: a satisfied verdict is current, fresh and true; `UnobservedBlocks` |
| `schema_diff` | 2 tables, 2 columns, an index, a foreign key, two checks | `ComparisonIsRight`: no false change, exactness, agreement of summary and comparison |
| `schema_identity` | 2 tables | violated: see section 6 |
| `query` | 2 builders, calls of cost 4, 2 of them on the second, nesting of 2, MySQL without and PostgreSQL with strict policy | `MeaningPreserved`, `ArgumentsFit`, `BuildIsRepeatable` |
| `soft_delete` | PostgreSQL, a soft-delete policy without strict settings | violated: see section 6 |
| `gate` | 5 settings, 3 policies, 7 conditions, 4 joins, 15 inserts, 6 of them of two rows; 2 conditions, joins or options per query, 1 event | `TenantIsolation`, `ScopeIsProven`, `RiskIsGoverned` |
| `writes` | 2 callers, 10 calls, 1 purge, 2 children with a grandchild each; 3 columns, 4 struct types and maps, 22 option sets, batches of up to 2 (`MaxBatch`) whose rows take free and taken values of both keys, 2 dialects | `WholeOrNothing`, `AnswersAreRows`, `NestedIsWhole`, `ConnectionsReturn`; `BatchMatchesSingle`, `WriteIsTargeted` |

A lane is a part of an instance that shares no variable with the others and is
explored by itself: the initial state chooses it.

Why these are enough. One key suffices for the command store, because rows of
different keys never interact; two callers make every race between lookup,
reservation and commit, and two runs in total make either such a race or, by one
caller after the other or by one alone, replay, conflict and retry. In `observe` every limit (budget, tracking, shapes, queue, saturation) is
smaller than the number of statements, so that each is reached in the middle of
the others. Materials in `reviews` cover blocked, high-risk, owned
and ordinary plans; two handles and two attempts make every kept decision and
double use. Three writers on two plans make
two that race for a row and two that race for a plan; a version column that ends
at 1 makes the write that has no successor. In `preflight` each setting opens one
dimension -- plans, artifacts, time, generations, other sessions, shapes --
because the others do not matter to it: plans are derived before anything is read, receipts
do not depend on rows. Two schema changes are what it takes to fool the second
look, one is what the property is about. In `schema_diff` items of one collection
never meet those of another but in constraint names, which the members family
has; one or two items per collection make missing, added, changed, doubled. In `query` four plain
calls, or two special ones, are what it takes to put a condition behind a group,
an OR inside it and a policy around it; a build, another call and a second build
fit as well. In `gate` a tree of two conditions has at most six levels (`MaxDepth`; the code's own
limits are 64 groups and 256 values under one another); two parts of a query beside its policy make every pair of rule and
exception; one event is enough for each thing that can go stale. In `writes` two callers of
one key make each conflict; two children make the order and the matching of
generated IDs matter. In `reviews` texts of five characters hold a quote, its escape, a
comment's beginning or end and a semicolon; two statements put a dangerous one before or
behind a harmless one. Where a
theorem exists (section 5) the bound does not matter at all.

Deadlock is not checked where a system may really stop: callers that made all
their runs, writers that made their one call, collectors out of attempts, a
comparison, a command or a review that was made, a query at its bound.

## 4. Fairness

Liveness is checked under weak fairness of the steps of a goroutine inside a
call, and of the database server ending a transaction whose client is gone. The
first is Go's scheduler together with statements that return or time out: no
step of the code waits for another caller except for a row lock in the
database. The second is the server's own cleanup of dead sessions. Callers, the
application, cancellation and failures are not fair. For `Drain` it includes
that the application's hook returns or panics. The lock wait needs no strong
fairness because each caller gives the lock up for good. In `writes` only two
things are fair: that a deadline passes, and that database/sql's watcher rolls back
the transaction of a context that ended. The callers are not: `ConnectionsReturn` is
about a caller that panicked and is gone.

## 5. Proofs

All proofs are for every value of the constants that satisfies the named
assumptions.

`CommandStoreProofs` proves type correctness and then `Consistent`, the
inductive invariant: it ties each caller's place in `Run` to what its
transaction holds and what the ledger shows, says that a reserved key has one
open transaction at most, that every row was written by one application with
that row's input and summary, and that what was answered was in the ledger. The
properties a user cares about are not inductive by themselves: that a definite
error means nothing was applied depends on no transaction of that run being
left that could still commit, which depends on where each error path stands.
From `Consistent` follow `OncePerRecord`, `WholeCommands`,
`DefiniteMeansNotApplied`, `AnswersAreApplications`; and each step of the store is a step of
`OnceLedger` or leaves its variables unchanged, which proves `ImplementsOnceLedger`.

`ObserveProofs` proves, for any number of statements, limits and queue length,
`ScopeInv`: the counters and the event account together with what they depend on.
`SummaryIsTrue` alone is not inductive: that `inFlight` is exact also
when tracking is saturated needs `pending` to stay within its limit and to be empty
after Finish; that the repeated shapes are counted right needs a statement's group to
exist as long as the scope is open; that no event is lost needs one drain at a
time. `Frozen` is the action property of it: after Finish no step moves the
summary. For the reader, `RowsInv` says where an open reader stands in the
result and whether it left a set early or met a failure, and
`EndIsTruthful` follows for any results and any order of calls.

`ReviewProofs` proves `BindingInv` of `PlanBinding`: which labels of an attempt mean that its
handle is claimed and marked, that its plan is the validated one, that the
provider was asked; and that two attempts never hold the same handle. From it
`SingleAttempt`, `DispatchIsCovered` and the action property `BoundInTime`.

`AtomicWriteProofs` proves `WriteInv`: who may hold the row's lock, that a
transaction which may still commit was sealed at the version the row still has, and that
every plan has one claimant. `UpdatesAreKept` counts the durable versioned
updates against the version, by induction over the steps and with finite
cardinality; `AnswersAreTrue` follows from where each error path stands.

`WritesProofs` proves `RecipesInv`: what a call has still to run says exactly
which rows it has written, in its transaction or on the database; the key and
the parent row are locked by one transaction; the collection is emptied before
a child goes in. Counting the winners of the key against its purges gives
`AnswersAreRows`; `WholeOrNothing` and `NestedIsWhole` follow. The rows found
at the start may be any of another owner.

`WritesProofs` also proves, of `WriteMapping`, both of its properties for any structs and maps with any
tags, any options, any table, both dialects and batches of any length. There is one step, so no
invariant has to be found; the work is in following two parallel lists through the
code. `KeepIs` says what the loops that leave columns out return, `SortedFields` that
`sortWriteFields` moves arguments with their columns, `FlattenIs` and `CutRows` that
the rows cut out of one argument list are the rows that were appended to it: the
argument of column j of row i is at (i - 1) times the number of columns plus j.
`WriteTargeted` then needs that the arbiter of an `Upsert` with `WherePK` is the primary key and nothing else,
so that a row in conflict is the row the value names. `BatchMatched` follows the batch and the
single calls through their tables (`BatchFollows`). It rests on three facts about
requests built by different code: `insertColumns`, `upsertColumns` and the `InsertMany` and
`UpsertMany` loops give the same columns; the keys a batch takes from its options or its type are, where a
conflict clause reads them, those every row would give alone (`ManyKeysAre`, `OneKeysAre`); and a row that a
statement takes after others it would take alone (`Alone`), which is not so the other way round: PostgreSQL
refuses a batch that changes a row twice.

`ReviewProofs` also proves, of `ReviewSession`, the budget for any number of samplers -- every goroutine
between the two counters holds a ticket of its own, which is why two atomic
additions without a lock suffice -- and `SessionInv`, which ties records to
claims: an operation with one record has exactly one claim, and every claim
whose ID was used twice has spoiled its operation, the earlier as well as the
later. That is what `MatchedIsProven` needs at the moment of the comparison.

`MigrationProofs` proves for any files and edits that the statements executed
and those left are what was read when the command planned (`CommandInv`, from
which `RunsPlannedPrefix` and `DangerousRunsApproved` follow), `ExecutableIsSafe` for any steps and
any order of reviews and approvals, and `ReadyWasTrue` for any desired list and
any moves of the migration tool between the two queries.

It proves `SplitsAtTopLevel` for texts of any length: the scanner's one pass with a few
flags gives what the lexemes of the whole text say. `Lexemes` is the least set that holds
the first position and, with each, the one behind where its lexeme ends; `LexemesAre` shows that none
begins within another, so every character belongs to one. `Inside` ties each mode of
the scanner to a lexeme begun and not yet ended (the flag that skips the next character included: the second
dash, a doubled quote, the slash that closes a comment), and `Upto` says what the scanner has made
of the characters so far: the statements of the cuts behind it, the line, and in the buffer
the piece since the last cut from its first solid character on. `ScanKeeps`
carries both over one character, a lemma per mode (`StepOpen`, `StepQuote`, `StepLine`, `StepBlock`, `StepSkip`);
`FlushIs` shows that what a flush trims is the statement of the piece.
The induction is over the positions of one text, by the least position that fails.

It also proves `ComparisonIsRight`, for any schemas and any truthful declarations of them,
complete or not. The state says little (`Declared`); the work is about `DiffSchemas`.
Collection by collection, every step that is not a gap is a change, and without a gap
every change is a step (`ColumnsCompared`, `IndexesCompared`, `ConstraintsCompared`): an absence
survives `Demote` only where the side that lacks the name declares the collection complete
(`DemotedRight`, `DemotedGapless`), an unknown default hides no alteration but its own, and of indexes and
constraints only the valid and unambiguous are believed. `NothingInvented` carries this to tables,
where a table is believed if it is declared once, in scope or without identity on both
sides; `NothingMissed` shows that a comparison without gap has paired every table in its scope, so that
it equals `Changes`; `SummaryIs` pairs each gap of a schema against itself with the defect
`schemaDefinitionComplete` looks for.

`PreflightProofs` proves `EvidenceInv` for any plans, settings, collectors and
number of generations. A receipt of its collector's current generation is of the collector's newest
attempt, because `Collect` counts the generation before it reads and a generation that wraps
closes the collector; no artifact a caller copies or edits can have another receipt.
A collection knows enough of what it saw: if nothing was changed since it began, all of it
is so now; and if a count of it was wrong and there was one change, that
change is in a schema it has still to read, or in a table it has still to look at
again (`SchemaShows`, `TableShows`). This is why the second look covers the tables of every
count, and why the schema is read last. `SatisfiedHolds` follows. `UnobservedBlocks`
needs that every step which cannot be observed leaves a requirement no count can satisfy,
however many steps come after it: an induction over the steps, done by the least element of the set
of counterexamples (`Induct`), since the library's induction rules take an operator.

`GateProofs` proves the three properties of `Gate` for any settings, policies,
conditions, joins, inserts, tables and number of calls. The inductive invariant `IInv`
has a part for each thing the gate relies on: a query keeps the settings and the policy
it was made with (`QueryFacts`); a sealed plan is what its builder made of the query
(`PlanFacts`); an open gate means that every finding was lowered,
suppressed before its expiry or approved (`RiskFacts`, `PolicyFacts`), and that
under strict settings the statement was judged and fits the tenant (`TenantFacts`,
`EvidenceFacts`). An edit of the public half of a plan, a tick or another session's row may come
at any time, so none of these may speak of the public half. What remains is about one
condition tree, and goes by induction over trees (`TreeInduction`, the least level of a counterexample):

- `BoundHolds`: a tree that `tenantBound` accepts is true only of rows of the
  tenant, whatever stands beside the binding comparison, and never through NOT;
- `ScopeBinds`: a row that satisfies a tree has the value `scopeBindings` reads for each
  column it binds, so two rows under a complete key agree on it and are one row (`AtMostOne`), if
  the database enforces the key, which is what an application asserts with it.

The walks are recursive functions over the set of trees of at most `MaxDepth` levels,
which `WalkExists` shows to be defined by their step. Inserts go through `tenantRows`:
the tenant column is filled or compared in every row, and a conflict clause whose key
does not hold the tenant, or that writes it, is refused (`KeyFits`, `ConflictFits`). The database takes
them one after the other: each row of the tenant leaves the other tenants' rows as they are (`InsertRowOwn`),
so all of them do (`InsertedOwn`, over the tables between the rows, which `GoesExists` shows to exist).

Assumptions on constants: bounds are natural numbers, sets that are counted are
finite, and `None`, `NoLimit`, `NoShape` and the like are none of the values they stand beside.
`CallsAssumption` says which recipes open their own transaction (hooks and
commands do, InsertOnceReturning does not); `OldAssumption` that the
collection found at the start was written by one session other than the callers;
`ChainsAssumption` and `FormsAssumption` are types of the
source and of queries; `OwnersAssumption` that a test's query is not named like the
scanner's; `ScriptsAssumption`, `ResultsAssumption` that files and results are
sequences; `ShapesAssumption`, `SettingsAssumption` what `inspectTable` can find and the types of
plans and bounds; `ScopesAssumption` that scopes are numbered; `DepthAssumption` that conditions
have a greatest depth, as `predicate.MaxDepth` and `valueguard.MaxDepth` give them;
`GateAssumption` the fields and types of settings, policies, inserts and rows; `WriteAssumption` that a
table's columns have different names and its rows different primary keys (`NameAssumption`, `KeyAssumption`),
and that the rows of a call name columns of the table, no two fields of a struct the same one (`RowAssumption`):
the database refuses a statement with an unknown or repeated column; `DeclaresAssumption` that
declarations are truthful: what is declared once and validly is so, what is declared complete is complete,
a declared namespace is the schema's, and an index declared with its extended attributes has its catalog text
beside them (the catalog readers set both; the text is what `diffIndex` compares last). TLC evaluates each of them on the instances.

Only model-checked:

- liveness (`RunsSettle`, `WritesSettle`, `DrainEnds`, `ConnectionsReturn`), which
  is out of the prover's reach;
- what `QueryBuilder` states: it builds and evaluates
  trees with RECURSIVE operators, for which the prover has no SMT backend.

## 6. What the models found

Backed by a run each:

`schema_identity`: a table that both sides declare, under complete inventories of
the same scope, is reported as a definite `drop_table` (or `add_table`) when one
of the two declarations has no identity: the two have different keys and are never matched.
docs/schema-capabilities.md:89 says that "neither marker nor incomplete scope
invents absence". An unknown marker for the declaration without identity stands
beside the false change, so the plan as a whole is incomplete. In the same way an
unchanged index that one side declares by its columns only, and the other with
extended attributes, is reported as altered (beside the unknown marker that
docs/schema-capabilities.md:66 announces).

`soft_delete`: without strict settings `policyBuilder` appends the soft-delete filter
as one more conjunct, and an OR of the caller lets deleted rows through
(specs/goquent_ai_safe_orm_roadmap_v2.md:986: deleted rows are excluded by
default). Under strict settings the caller's conditions are grouped first, and
`MeaningPreserved` holds.

`migrate_clauses`: an ALTER TABLE is classified by its first clause. "ADD a int, DROP
COLUMN b" is of low risk and is applied without approval
(docs/migration-plan.md:32 and :40). `DangerousRunsApproved` is what does hold: the
promise for statements of one clause.

Noted while modelling, without a run of its own:

- `addWhereIn` lists the slice types it knows, and its default branch
  (wherebuilder.go:277) adds no condition and no error. Under strict settings `WhereIn` and its variants are guarded
  by `strictInValue` (tenant_policy.go:449), which lets every slice pass that can be copied, so an IN over []int16, []int8 or
  []byte is dropped and the statement matches more rows than the caller said, although
  docs/gq-ai-03-pr2-validation.md:42 says "Strict WhereIn now rejects unsupported input shapes". A slice
  of a named type is refused there, because it cannot be copied. Without strict settings there is no guard
  and all of these are dropped. `WhereIn` in the model does the same, and `MeaningPreserved` excepts it by name;
- a DELETE drops the values its joins bind (`ArgsMatch` leaves it out;
  docs/predicate-tree.md:18 describes it); a joined subquery loses its predicate error,
  and a subquery's remembered error is not consulted when it is attached; a second build of a joined
  query without columns has an empty star list;
- an UPDATE or DELETE without a condition of the caller on a soft-delete table is not blocked,
  because `hasNoPredicate` sees the appended filter; the first suppression of a code wins, so an
  expired one shadows a renewed one; `RequireApproval` never sets an expiry;
- on PostgreSQL an `Upsert` with `SetColumn` of a column or `Increment` always fails, because
  `RenderAssignment` (expression.go:156) names the column without its table, which ON CONFLICT DO UPDATE finds
  ambiguous; docs/orm/generic-crud.md says that these apply "to the conflict-update side of `Upsert`";
- `Upsert` with conflict columns other than the primary key updates the primary key
  as well; readonly key and conflict columns are written by `Upsert`; `UpsertMany`
  of maps with `WherePK` accepts rows `Upsert` refuses; a single `Upsert` of a map
  lists its columns in map order;
- the backfill review mode recomputes `Blocked` without the structural steps;
  `EnsureExecutable` still refuses them by looking at the steps (`ExecutableIsSafe`);
- ADD CONSTRAINT parses as an added column; removed comments leave no space, so
  tokens may fuse; files are joined by a newline only, so an unterminated last
  statement merges with the next file; `apply --fail-on` executes and then exits 1;
  the scale of a decimal is not compared, and a change from bigint to decimal counts as an expansion;
- a review computes once, when the tests return, whether its inputs are unchanged.

## 7. Not modelled, and the plan

What the modules leave out of the code they model: JSON decoding and catalog
queries (their answers are modelled); durations and row metrics of a summary;
capability tables; inline suppression comments; the limit of 16 words and of 4096
operations of a review; MySQL backslash escapes and dollar quoting, which
the splitter does not handle either; reading rows of Returning variants back;
an output stream that cannot be written, which ends a command with 2.

Where a module decides with less than the code reads, on the side that allows more runs unless it says otherwise:

- `Preflight.ValidSource` numbers requirements by plan and place; in the code equal requirements of one plan
  share a digest (preflight.go:264), and the check for doubles (:461) refuses them as well;
- `RiskPolicy`: settings with a severity that is none of the known ones, which `compareRisk` ranks with
  the low one (risk.go:368), are excluded by `SettingsAssumption`; `Gate` says nothing of them;
- `WriteScope.LeafBindings` leaves out the check of the columns of a BETWEEN of columns
  (write_scope.go:470, tenant_policy.go:180), and `KnownOperators` holds the operators the conditions of
  `Gate` use, not all of the code's;
- `Gate.ConflictFits` leaves out what tenant_write.go:80-90 refuses besides: a key with a nullable column, with one
  that is not the schema's, or of a kind that is not supported;
- `Gate.AnalyzeWriteScope` leaves out the refusal of a key context made for another database, dialect,
  table or alias (write_scope.go:240-253);
- the databases of `Gate` and `WriteMapping` are the modules' own reading of MySQL and PostgreSQL: that an insert
  of PostgreSQL may not change a row twice is in `WriteMapping` only.

Components not modelled: text production (public output, performance evidence,
manifest skeletons), reflection (scanning, conversion), canonical encodings, the
rest of the static analysis of Go source, and the MCP server and manifest checks,
which answer from documents one request at a time and keep nothing. Their inputs are
texts and syntax trees; none of them has state that outlives a call.

Still to do, in this order:

1. operation specifications, as operators from a specification to a scoped query;
2. cursor pagination against full enumeration;
3. the single-row reader, and write checks inside a caller's managed transaction.
