----------------------------- MODULE Preflight -----------------------------
(***************************************************************************)
(* orm/migration/preflight*.go: evidence that the data admits a migration. *)
(* A plan derives, from the steps of a migration, the requirements to be   *)
(* observed.  A Collector reads the schema, the shape of each target and a *)
(* count of violating rows, query by query over one connection and without *)
(* a transaction, while other sessions change schema, tables and rows.     *)
(* The artifact it returns is bound to it by a private receipt; Evaluate   *)
(* turns an artifact into a verdict.                                       *)
(*                                                                         *)
(* Collect, Evaluate and Close hold Collector.mu: a collector whose work   *)
(* is not None is inside Collect.  SHA-256 digests are modelled by what    *)
(* they digest; a target's rows by the number its requirement counts.      *)
(***************************************************************************)
EXTENDS Integers, Sequences, FiniteSets

CONSTANTS
  Settings,     \* the environments considered, a sequence (see SettingType)
  Collectors,
  Dialect,      \* the dialect of every collector
  Scopes,       \* 1..n: the current schema and the reference schemas
  Definitions,  \* what a scope may be read as
  Tables,
  Shapes,       \* what inspectTable may find (see inspectTable)
  GenMod,       \* the generation counter wraps here (2^64)
  PreflightMaxAge,
  None

ASSUME PreflightAssumption ==
  GenMod \in Nat \ {0, 1} /\ PreflightMaxAge \in Nat
ASSUME ShapesAssumption == Shapes \subseteq {"integer", "text", "opaque", "divided", "hidden", "gone"}
ASSUME ScopesAssumption == IsFiniteSet(Scopes) /\ Scopes = 1..Cardinality(Scopes)

VARIABLES
  env,          \* the setting of this behaviour
  schema,       \* schema[i]: the definition of scope i in the catalog
  shape, bad,   \* per table: its shape, and the rows that violate
  now, skew,    \* time, and how far the configured clock is ahead of it
  ddl, dml,     \* numbers of changes made by other sessions
  gen, closed,  \* per collector
  work,         \* work[c]: the collection c is in, or None
  docs,         \* the artifacts callers hold
  view,         \* what the call of Evaluate that just returned said, or None
  log           \* history of attempts: what was true while they ran

databaseVars == <<env, schema, shape, bad, ddl, dml>>
timeVars == <<now, skew>>
collectorVars == <<gen, closed, work>>
vars == <<databaseVars, timeVars, collectorVars, docs, view, log>>

(***************************************************************************)
(* requirementsFor and buildPreflight.  A step is abstracted to what the   *)
(* derivation tells apart; "measurable" stands for the conditions on       *)
(* columns, keys and identities under which a count is meant.              *)
(***************************************************************************)
StepTypes == {"nullability", "index", "foreign_key", "structure", "other"}
Phases == {"unknown", "expand", "backfill", "contract"}

StepType ==
  [type : StepTypes,
   phase : Phases, compatible : BOOLEAN, deps : Seq(Int),
   sql : BOOLEAN,                  \* the step carries SQL text
   drifted : BOOLEAN,              \* its tables or index differ from the plan's schemas
   unknown : BOOLEAN,              \* ComparisonUnknown
   defined : BOOLEAN,              \* Nullable, the index or the key is known
   demands : BOOLEAN,              \* NOT NULL, resp. UNIQUE, is asked for
   measurable : BOOLEAN,
   target : Tables, reference : Tables,
   scoped : BOOLEAN, refScoped : BOOLEAN, queryable : BOOLEAN]

PlanType ==
  [id : Nat, dialect : STRING, schema : [Scopes -> Definitions],
   incomplete : BOOLEAN, opaque : BOOLEAN, supportedVersion : BOOLEAN,
   steps : Seq(StepType)]

\* Who uses the database, the MaxAge options given to Evaluate (unusable ones
\* included), and bounds on what they do: maxTime and maxSkew on
\* time and on the clock's error, maxAttempts on calls of Collect, maxDocs on
\* artifacts (for Edit), maxDDL and maxDML on other sessions, maxBad on rows.
SettingType ==
  [plans : SUBSET PlanType, collectors : SUBSET Collectors,
   definitions : SUBSET Definitions, shapes : SUBSET Shapes, ages : SUBSET Int,
   maxTime : Nat \ {0}, maxSkew : Nat, maxAttempts : Nat, maxDocs : Nat,
   maxDDL : Nat, maxDML : Nat, maxBad : Nat]

ASSUME SettingsAssumption == Settings \in Seq(SettingType)
Setting == Settings[env]

phaseRank(p) ==
  CASE p = "expand" -> 1 [] p = "backfill" -> 2 [] p = "contract" -> 3 [] OTHER -> 0

Requirement(s, kind, status, code) ==
  [kind |-> kind, status |-> status, code |-> code, target |-> s.target,
   reference |-> s.reference, scoped |-> s.scoped, refScoped |-> s.refScoped,
   queryable |-> s.queryable]
Unknown(s, code) == Requirement(s, "unknown", "unknown", code)
When(cond, r) == IF cond THEN <<r>> ELSE <<>>

\* A measured requirement: pending when it can be counted, else as given.
Measured(s, kind, status, code) ==
  IF s.measurable THEN Requirement(s, kind, "pending", "PREFLIGHT_MISSING")
                  ELSE Requirement(s, kind, status, code)

\* What the step's own type asks for.
TypeRequirements(s) ==
  IF s.type = "structure" THEN <<Unknown(s, "PREFLIGHT_EXTERNAL_WORK")>>
  ELSE IF s.type = "other" THEN <<Requirement(s, "unknown", "unsupported", "PREFLIGHT_UNSUPPORTED")>>
  ELSE IF ~s.defined THEN <<Unknown(s, "PREFLIGHT_DEFINITION")>>
  ELSE CASE s.type = "nullability" ->
              IF ~s.demands THEN <<>>
              ELSE When(s.phase # "contract", Unknown(s, "PREFLIGHT_PHASE"))
                   \o <<Measured(s, "null_count", "unknown", "PREFLIGHT_DEFINITION")>>
         [] s.type = "index" ->
              When(s.demands, Measured(s, "duplicate_count", "unsupported", "PREFLIGHT_UNSUPPORTED"))
         [] s.type = "foreign_key" ->
              <<Measured(s, "orphan_count", "unsupported", "PREFLIGHT_UNSUPPORTED")>>

\* Mutant: unknown requirements are left out.
requirementsForOnlyPending(p, i) == SelectSeq(TypeRequirements(p.steps[i]),
                                              LAMBDA r : r.status = "pending")

requirementsFor(p, i) ==
  LET s == p.steps[i]
  IN   When(p.incomplete, Unknown(s, "PREFLIGHT_DEFINITION"))
    \o When(phaseRank(s.phase) = 0, Unknown(s, "PREFLIGHT_PHASE"))
    \o When(~s.compatible, Unknown(s, "PREFLIGHT_COMPATIBILITY"))
    \o When(i > 1 /\ s.phase = "contract" /\ s.deps = <<>>, Unknown(s, "PREFLIGHT_DEPENDENCY"))
    \o When(s.sql \/ p.opaque, Unknown(s, "PREFLIGHT_DEFINITION"))
    \o When(s.drifted, Unknown(s, "PREFLIGHT_DEFINITION"))
    \o IF s.unknown THEN <<Unknown(s, "PREFLIGHT_DEFINITION")>>
       ELSE TypeRequirements(s)
            \o When(s.phase = "backfill", Unknown(s, "PREFLIGHT_EXTERNAL_WORK"))

\* The requirements of the steps 1..n of p, in order.
RequirementsTo(p) ==
  LET upTo[n \in 0..Len(p.steps)] == IF n = 0 THEN <<>> ELSE upTo[n-1] \o requirementsFor(p, n)
  IN upTo
Requirements(p) == RequirementsTo(p)[Len(p.steps)]

\* buildPreflight accepts p: dependencies on earlier steps, each once, and no
\* phase after a later one.
ValidPlan(p) ==
  LET n == Len(p.steps)
  IN /\ n \in 1..64 /\ Len(Requirements(p)) <= 64
     /\ \A i \in 1..n : LET d == p.steps[i].deps IN
          /\ \A j \in 1..Len(d) : d[j] >= 0 /\ d[j] < i - 1
          /\ \A j, k \in 1..Len(d) : d[j] = d[k] => j = k
     /\ \A i, j \in 1..n :
          i < j /\ phaseRank(p.steps[j].phase) > 0
            => phaseRank(p.steps[i].phase) <= phaseRank(p.steps[j].phase)

(***************************************************************************)
(* Artifacts.  The digest of a collection is the collection.               *)
(***************************************************************************)
\* ValidatePreflightSource.  RequirementIDs bind plan and ordinal.
ValidSource(d) ==
  /\ ValidPlan(d.plan)
  /\ d.col # None =>
       /\ d.col.plan = d.plan.id /\ d.col.fingerprint = d.plan.schema
       /\ Len(d.col.results) <= Len(Requirements(d.plan))
       /\ \A i \in 1..Len(d.col.results) : LET r == d.col.results[i] IN
            /\ r.requirement = <<d.plan.id, i>>
            /\ r.completed => r.count # None

Clock == now + skew

Init ==
  /\ env \in DOMAIN Settings
  /\ schema \in [Scopes -> Setting.definitions]
  /\ shape \in [Tables -> Setting.shapes] /\ bad \in [Tables -> 0..Setting.maxBad]
  /\ now = 1 /\ skew = 0 /\ ddl = 0 /\ dml = 0
  /\ gen = [c \in Collectors |-> 0]
  /\ closed = [c \in Collectors |-> FALSE]
  /\ work = [c \in Collectors |-> None]
  /\ \E p \in Setting.plans : docs = <<[plan |-> p, col |-> None, receipt |-> None]>>
  /\ view = None /\ log = <<>>

(***************************************************************************)
(* Collect.  attempt is the history's name of this call.                   *)
(***************************************************************************)
Refuses(c, d) ==
  closed[c] \/ ~ValidSource(d) \/ d.plan.dialect # Dialect

\* Mutant: earlier receipts stay valid.
CollectNoSupersede(c, d) ==
  /\ work[c] = None /\ ~Refuses(c, docs[d]) /\ Len(log) < Setting.maxAttempts
  /\ work' = [work EXCEPT ![c] =
       [plan |-> docs[d].plan, attempt |-> Len(log) + 1, started |-> Clock,
        at |-> "before", read |-> <<>>, i |-> 1, obs |-> <<>>, results |-> <<>>]]
  /\ log' = Append(log, [owner |-> c, start |-> now, ddl |-> ddl, true |-> TRUE])
  /\ view' = None
  /\ UNCHANGED <<databaseVars, timeVars, gen, closed, docs>>

\* The call up to the first read: earlier receipts are superseded first, and
\* a generation that wraps closes the collector for good.
CollectStart(c, d) ==
  /\ work[c] = None /\ ~Refuses(c, docs[d]) /\ Len(log) < Setting.maxAttempts
  /\ gen' = [gen EXCEPT ![c] = (@ + 1) % GenMod]
  /\ IF gen'[c] = 0
       THEN closed' = [closed EXCEPT ![c] = TRUE] /\ UNCHANGED work
       ELSE /\ work' = [work EXCEPT ![c] =
                 [plan |-> docs[d].plan, attempt |-> Len(log) + 1, started |-> Clock,
                  at |-> "before", read |-> <<>>, i |-> 1, obs |-> <<>>, results |-> <<>>]]
            /\ UNCHANGED closed
  /\ log' = Append(log, [owner |-> c, start |-> now, ddl |-> ddl, true |-> TRUE])
  /\ view' = None
  /\ UNCHANGED <<databaseVars, timeVars, docs>>

\* finish: the artifact with its receipt; Collector.mu is released.
Finish(c, code, results) ==
  LET w == work[c]
      col == [plan |-> w.plan.id, fingerprint |-> w.plan.schema,
              completed |-> code = "PREFLIGHT_OK", code |-> code,
              started |-> w.started, finished |-> Clock, results |-> results]
  IN /\ docs' = Append(docs, [plan |-> w.plan, col |-> col,
                              receipt |-> [gen |-> gen[c], owner |-> c, digest |-> col,
                                           plan |-> w.plan.id, attempt |-> w.attempt]])
     /\ work' = [work EXCEPT ![c] = None]

Goto(c, w) == work' = [work EXCEPT ![c] = w] /\ UNCHANGED docs

collectRest == <<databaseVars, timeVars, gen, closed>>

\* observeSchemas, one ReadSchema per step; a mismatch shows after the last.
ObserveSchema(c) ==
  LET w == work[c]
      read == Append(w.read, schema[Len(w.read) + 1])
  IN /\ w # None /\ w.at \in {"before", "after"}
     /\ IF Len(read) < Cardinality(Scopes) THEN Goto(c, [w EXCEPT !.read = read])
        ELSE IF read # w.plan.schema THEN Finish(c, "PREFLIGHT_SCHEMA_CHANGED", w.results)
        ELSE IF w.at = "before" THEN Goto(c, [w EXCEPT !.at = "check", !.read = <<>>])
        ELSE Finish(c, "PREFLIGHT_OK", w.results)
     /\ view' = None
     /\ UNCHANGED <<collectRest, log>>

\* inspectTable: a table's shape as the type of the columns and the coverage
\* of its rows.  "hidden": row security or a missing privilege; "divided": a
\* view, a partition or a foreign table; "opaque": a collated or generated
\* column; "gone": no such column.
inspectTable(t) ==
  CASE shape[t] = "integer" -> [table |-> t, type |-> "integer", coverage |-> "satisfied"]
    [] shape[t] = "text"    -> [table |-> t, type |-> "text", coverage |-> "satisfied"]
    [] shape[t] = "opaque"  -> [table |-> t, type |-> "unsupported", coverage |-> "satisfied"]
    [] shape[t] = "divided" -> [table |-> t, type |-> "integer", coverage |-> "unsupported"]
    [] shape[t] = "hidden"  -> [table |-> t, type |-> "integer", coverage |-> "unknown"]
    [] shape[t] = "gone"    -> [table |-> t, type |-> "none", coverage |-> "unknown"]

More == <<"more", "more">>

\* checkTarget's answer once the tables in obs have been inspected; More if it
\* goes on to the next one.
checkTarget(p, r, obs) ==
  LET first == obs[1]
      second == obs[2]
  IN CASE ~p.supportedVersion -> <<"unknown", "PREFLIGHT_DEFINITION">>
       [] p.supportedVersion /\ ~r.scoped -> <<"unknown", "PREFLIGHT_SCOPE">>
       [] OTHER ->
            IF obs = <<>> THEN More
            ELSE IF first.coverage # "satisfied" THEN <<first.coverage, "PREFLIGHT_VISIBILITY">>
            ELSE IF first.type = "unsupported" \/ (r.kind # "null_count" /\ first.type # "integer")
              THEN <<"unsupported", "PREFLIGHT_UNSUPPORTED">>
            ELSE IF r.kind # "orphan_count" THEN <<"satisfied", "PREFLIGHT_OK">>
            ELSE IF ~r.refScoped THEN <<"unknown", "PREFLIGHT_SCOPE">>
            ELSE IF Len(obs) = 1 THEN More
            ELSE IF second.coverage # "satisfied" THEN <<second.coverage, "PREFLIGHT_VISIBILITY">>
            ELSE IF first.type # second.type THEN <<"unsupported", "PREFLIGHT_UNSUPPORTED">>
            ELSE <<"satisfied", "PREFLIGHT_OK">>

Current(w) == Requirements(w.plan)[w.i]
Checking(w) == w.i <= Len(Requirements(w.plan))
Inspecting(w) ==
  /\ w.at \in {"check", "recheck"} /\ Checking(w) /\ Current(w).status = "pending"
  /\ checkTarget(w.plan, Current(w), w.obs) = More

Inspect(c) ==
  LET w == work[c]
      r == Current(w)
  IN /\ w # None /\ Inspecting(w)
     /\ Goto(c, [w EXCEPT !.obs = Append(@, inspectTable(IF @ = <<>> THEN r.target ELSE r.reference))])
     /\ view' = None
     /\ UNCHANGED <<collectRest, log>>

preflightStatus(s) == IF s = "pending" THEN "unknown" ELSE s

Result(w, status, code, count) ==
  [requirement |-> <<w.plan.id, w.i>>, status |-> status, code |-> code,
   targets |-> w.obs, completed |-> count # None, count |-> count]
NextRequirement(w, result) ==
  [w EXCEPT !.results = Append(@, result), !.i = @ + 1, !.obs = <<>>]

\* What the query of r may count: rows of the target may be hidden, and rows
\* it refers to.  A query over a missing column fails.
Counts(r) ==
  LET orphans == r.kind = "orphan_count"
  IN IF shape[r.target] = "gone" \/ (orphans /\ shape[r.reference] = "gone") THEN {}
     ELSE (IF shape[r.target] = "hidden" THEN 0 ELSE bad[r.target])
          ..(IF orphans /\ shape[r.reference] = "hidden" THEN Setting.maxBad ELSE bad[r.target])

\* The next thing to do for requirement i is to count.
Counting(w) ==
  /\ w.at = "check" /\ Checking(w) /\ Current(w).status = "pending" /\ Current(w).queryable
  /\ checkTarget(w.plan, Current(w), w.obs) = <<"satisfied", "PREFLIGHT_OK">>

\* The loop over the requirements: a static one is copied, one that cannot be
\* measured is recorded as such, and a measurable one is counted.
Check(c) ==
  LET w == work[c]
      r == Current(w)
      answer == checkTarget(w.plan, r, w.obs)
  IN /\ w # None /\ w.at = "check" /\ ~Inspecting(w)
     /\ \/ /\ ~Checking(w)
           /\ Goto(c, [w EXCEPT !.at = "recheck", !.i = 1])
           /\ UNCHANGED log
        \/ /\ Checking(w) /\ r.status # "pending"
           /\ Goto(c, NextRequirement(w, Result(w, preflightStatus(r.status), r.code, None)))
           /\ UNCHANGED log
        \/ /\ Checking(w) /\ r.status = "pending" /\ answer[1] # "satisfied"
           /\ Goto(c, NextRequirement(w, Result(w, answer[1], answer[2], None)))
           /\ UNCHANGED log
        \/ /\ Checking(w) /\ r.status = "pending" /\ answer[1] = "satisfied" /\ ~r.queryable
           /\ Goto(c, NextRequirement(w, Result(w, "unsupported", "PREFLIGHT_UNSUPPORTED", None)))
           /\ UNCHANGED log
        \/ /\ Counting(w)
           /\ \E n \in Counts(r) :
                /\ Goto(c, NextRequirement(w, Result(w, "satisfied", "PREFLIGHT_OK", n)))
                /\ log' = [log EXCEPT ![w.attempt].true =
                             @ /\ n = bad[r.target] /\ schema = w.plan.schema]
     /\ view' = None
     /\ UNCHANGED collectRest

\* Mutant: the targets are not looked at again.
RecheckSkipped(c) ==
  LET w == work[c]
  IN /\ w # None /\ w.at = "recheck"
     /\ Goto(c, [w EXCEPT !.at = "after"])
     /\ view' = None
     /\ UNCHANGED <<collectRest, log>>

\* The second look at the targets.
Recheck(c) ==
  LET w == work[c]
  IN /\ w # None /\ w.at = "recheck" /\ ~Inspecting(w)
     /\ IF ~Checking(w) THEN Goto(c, [w EXCEPT !.at = "after"])
        ELSE IF Current(w).status = "pending" /\ w.obs # w.results[w.i].targets
          THEN Finish(c, "PREFLIGHT_SCHEMA_CHANGED", w.results)
        ELSE Goto(c, [w EXCEPT !.i = @ + 1, !.obs = <<>>])
     /\ view' = None
     /\ UNCHANGED <<collectRest, log>>

\* A query fails or a timeout expires.  The result of the requirement that was
\* being observed is kept as it stands.
CollectFail(c) ==
  LET w == work[c]
      r == Current(w)
  IN /\ w # None
     /\ w.at \in {"before", "after"} \/ Inspecting(w) \/ Counting(w)
     /\ Finish(c, "PREFLIGHT_FAILED",
          IF w.at = "check"
            THEN Append(w.results, Result(w, preflightStatus(r.status), r.code, None))
            ELSE w.results)
     /\ view' = None
     /\ UNCHANGED <<collectRest, log>>

CollectStep(c) ==
  ObserveSchema(c) \/ Inspect(c) \/ Check(c) \/ Recheck(c) \/ CollectFail(c)

\* Mutant: Close does not wait for a collection.
CloseUnlocked(c) ==
  /\ closed' = [closed EXCEPT ![c] = TRUE]
  /\ view' = None
  /\ UNCHANGED <<databaseVars, timeVars, gen, work, docs, log>>

Close(c) ==
  /\ work[c] = None
  /\ closed' = [closed EXCEPT ![c] = TRUE]
  /\ view' = None
  /\ UNCHANGED <<databaseVars, timeVars, gen, work, docs, log>>

(***************************************************************************)
(* Evaluate; owner None is the offline EvaluatePreflight.                  *)
(***************************************************************************)
verdictRank(s) ==
  CASE s = "satisfied" -> 0 [] s = "unsatisfied" -> 1 [] s = "unsupported" -> 2 [] OTHER -> 3

\* The check of requirement q given its result r.
CheckView(q, r) ==
  CASE q.status # "pending" -> [status |-> preflightStatus(q.status), code |-> q.code]
    [] q.status = "pending" /\ r.completed /\ r.count # None /\ r.status = "satisfied"
         /\ r.code = "PREFLIGHT_OK" ->
         IF r.count > 0 THEN [status |-> "unsatisfied", code |-> "PREFLIGHT_NONZERO"]
                        ELSE [status |-> r.status, code |-> r.code]
    [] OTHER -> IF r.status = "satisfied"
                  THEN [status |-> "unknown", code |-> "PREFLIGHT_MISSING"]
                  ELSE [status |-> preflightStatus(r.status), code |-> r.code]

\* The worst check; the first of several that are equally bad.
Worst(checks) ==
  IF \A i \in DOMAIN checks : checks[i].status = "satisfied"
    THEN [status |-> "satisfied", code |-> "PREFLIGHT_OK"]
    ELSE checks[CHOOSE i \in DOMAIN checks :
           /\ \A j \in DOMAIN checks :
                verdictRank(checks[j].status) <= verdictRank(checks[i].status)
           /\ \A j \in 1..i-1 : verdictRank(checks[j].status) < verdictRank(checks[i].status)]

\* owner vouches for d: it is open, made d last, and d is as it made it.
Authentic(d, owner) ==
  /\ owner # None /\ ~closed[owner]
  /\ d.receipt # None /\ d.receipt.owner = owner /\ d.receipt.gen = gen[owner]
  /\ d.receipt.digest = d.col /\ d.receipt.plan = d.plan.id

TimeInvalid(col) ==
  Clock = 0 \/ col.started = 0 \/ col.finished = 0 \/ col.finished < col.started
    \/ col.finished > Clock

\* Mutant: the age is counted from the end of the collection.
evaluateFromFinish(d, owner, maxAge) ==
  LET c == d.col
      answer(status, code) == [status |-> status, code |-> code]
  IN IF maxAge <= 0 \/ maxAge > PreflightMaxAge \/ ~ValidSource(d) THEN answer("unknown", "PREFLIGHT_INPUT")
     ELSE IF c = None THEN answer("unknown", "PREFLIGHT_MISSING")
     ELSE IF ~c.completed \/ c.code # "PREFLIGHT_OK" THEN answer("unknown", c.code)
     ELSE IF TimeInvalid(c) THEN answer("unknown", "PREFLIGHT_TIME")
     ELSE IF Clock - c.finished > maxAge THEN answer("unknown", "PREFLIGHT_EXPIRED")
     ELSE IF ~Authentic(d, owner) THEN answer("unknown", "PREFLIGHT_ORIGIN")
     ELSE IF Len(c.results) # Len(Requirements(d.plan)) THEN answer("unknown", "PREFLIGHT_MISSING")
     ELSE Worst([i \in DOMAIN c.results |-> CheckView(Requirements(d.plan)[i], c.results[i])])

\* evaluatePreflight, in the order of its checks.
evaluatePreflight(d, owner, maxAge) ==
  LET c == d.col
      answer(status, code) == [status |-> status, code |-> code]
  IN IF maxAge <= 0 \/ maxAge > PreflightMaxAge \/ ~ValidSource(d) THEN answer("unknown", "PREFLIGHT_INPUT")
     ELSE IF c = None THEN answer("unknown", "PREFLIGHT_MISSING")
     ELSE IF ~c.completed \/ c.code # "PREFLIGHT_OK"
       THEN answer("unknown", IF c.code = "PREFLIGHT_OK" THEN "PREFLIGHT_FAILED" ELSE c.code)
     ELSE IF TimeInvalid(c) THEN answer("unknown", "PREFLIGHT_TIME")
     ELSE IF Clock - c.started > maxAge THEN answer("unknown", "PREFLIGHT_EXPIRED")
     ELSE IF ~Authentic(d, owner) THEN answer("unknown", "PREFLIGHT_ORIGIN")
     ELSE IF Len(c.results) # Len(Requirements(d.plan)) THEN answer("unknown", "PREFLIGHT_MISSING")
     ELSE Worst([i \in DOMAIN c.results |-> CheckView(Requirements(d.plan)[i], c.results[i])])

Evaluate(owner, d, maxAge) ==
  /\ owner # None => work[owner] = None
  /\ view' = [doc |-> d, owner |-> owner,
              answer |-> evaluatePreflight(docs[d], owner, maxAge)]
  /\ UNCHANGED <<databaseVars, timeVars, collectorVars, docs, log>>

(***************************************************************************)
(* The environment: callers who keep, copy and edit artifacts, the clock,  *)
(* and other sessions of the database.                                     *)
(***************************************************************************)
\* A copy through JSON has no receipt; a struct copy keeps it and may be given
\* another plan and another collection, with the public digest recomputed.
Edits(d) ==
  {[d EXCEPT !.receipt = None]}
    \cup {[d EXCEPT !.plan = p, !.col.plan = p.id, !.col.fingerprint = p.schema] : p \in Setting.plans}
    \cup {[d EXCEPT !.col.started = Clock, !.col.finished = Clock]}
    \cup {[d EXCEPT !.col.completed = TRUE, !.col.code = "PREFLIGHT_OK",
                    !.col.results = [i \in DOMAIN @ |->
                       [@[i] EXCEPT !.status = "satisfied", !.code = "PREFLIGHT_OK",
                                    !.completed = TRUE, !.count = 0]]]}

Edit(d) ==
  /\ docs[d].col # None /\ Len(docs) < Setting.maxDocs
  /\ \E e \in Edits(docs[d]) : docs' = Append(docs, e)
  /\ view' = None
  /\ UNCHANGED <<databaseVars, timeVars, collectorVars, log>>

Tick ==
  /\ now < Setting.maxTime /\ now' = now + 1
  /\ view' = None
  /\ UNCHANGED <<databaseVars, skew, collectorVars, docs, log>>

AdjustClock ==
  /\ \E k \in 0..Setting.maxSkew : k # skew /\ skew' = k
  /\ view' = None
  /\ UNCHANGED <<databaseVars, now, collectorVars, docs, log>>

AlterSchema(i) ==
  /\ ddl < Setting.maxDDL /\ ddl' = ddl + 1
  /\ \E v \in Setting.definitions : v # schema[i] /\ schema' = [schema EXCEPT ![i] = v]
  /\ view' = None
  /\ UNCHANGED <<env, shape, bad, dml, timeVars, collectorVars, docs, log>>

AlterTable(t) ==
  /\ ddl < Setting.maxDDL /\ ddl' = ddl + 1
  /\ \E v \in Setting.shapes : v # shape[t] /\ shape' = [shape EXCEPT ![t] = v]
  /\ view' = None
  /\ UNCHANGED <<env, schema, bad, dml, timeVars, collectorVars, docs, log>>

WriteRows(t) ==
  /\ dml < Setting.maxDML /\ dml' = dml + 1
  /\ \E n \in 0..Setting.maxBad : n # bad[t] /\ bad' = [bad EXCEPT ![t] = n]
  /\ view' = None
  /\ UNCHANGED <<env, schema, shape, ddl, timeVars, collectorVars, docs, log>>

Next ==
  \/ \E c \in Setting.collectors : CollectStep(c) \/ Close(c)
                           \/ \E d \in DOMAIN docs : CollectStart(c, d)
  \/ \E c \in Setting.collectors \cup {None}, d \in DOMAIN docs, a \in Setting.ages : Evaluate(c, d, a)
  \/ \E d \in DOMAIN docs : Edit(d)
  \/ Tick \/ AdjustClock
  \/ \E i \in Scopes : AlterSchema(i)
  \/ \E t \in Tables : AlterTable(t) \/ WriteRows(t)

Spec == Init /\ [][Next]_vars

(***************************************************************************)
(* Properties.                                                             *)
(***************************************************************************)
Satisfied == view # None /\ view.answer.status = "satisfied"

\* Types, with the range of the generation counter.
TypeOK ==
  /\ env \in DOMAIN Settings /\ schema \in [Scopes -> Definitions] /\ shape \in [Tables -> Shapes]
  /\ bad \in [Tables -> 0..Setting.maxBad] /\ now \in 0..Setting.maxTime /\ skew \in 0..Setting.maxSkew
  /\ ddl \in 0..Setting.maxDDL /\ dml \in 0..Setting.maxDML
  /\ gen \in [Collectors -> 0..GenMod-1] /\ closed \in [Collectors -> BOOLEAN]
  /\ \A c \in Collectors : work[c] # None =>
       /\ work[c].at \in {"before", "check", "recheck", "after"}
       /\ work[c].attempt \in DOMAIN log /\ ~closed[c]
  /\ \A i \in DOMAIN docs : docs[i].plan \in Setting.plans

\* A satisfied verdict rests on the last attempt of the collector that gives
\* it: an attempt that failed, was refused for want of generations or is newer
\* leaves no older evidence usable, and edited, copied or foreign evidence is
\* never usable.
SatisfiedIsCurrent ==
  Satisfied =>
    LET d == docs[view.doc]
        own == {a \in DOMAIN log : log[a].owner = view.owner}
    IN /\ view.owner # None /\ ~closed[view.owner]
       /\ d.receipt.attempt \in own
       /\ \A a \in own : a <= d.receipt.attempt
       /\ d.col = d.receipt.digest /\ d.col.completed

\* A satisfied verdict tells the truth about the time of the collection: if
\* other sessions changed schema and tables at most once since it began, every
\* count was complete, was zero, and was taken under the schema of the plan.
\* Two changes, the second undoing the first, can go unnoticed.
SatisfiedIsTrue ==
  Satisfied =>
    LET d == docs[view.doc]
        l == log[d.receipt.attempt]
    IN ddl <= l.ddl + 1 =>
         /\ l.true
         /\ \A i \in DOMAIN Requirements(d.plan) : d.col.results[i].count = 0

\* Evidence ages from the start of its collection, by at most the clock's error
\* more than PreflightMaxAge, however long the collection took.
SatisfiedIsFresh ==
  Satisfied => now - log[docs[view.doc].receipt.attempt].start <= PreflightMaxAge + Setting.maxSkew

\* What cannot be observed is never satisfied: no step of the plan is without a
\* phase, declared incompatible, opaque, undefined, or in need of work outside
\* the database, whatever the later steps count.
UnobservedBlocks ==
  Satisfied =>
    LET p == docs[view.doc].plan
    IN /\ ~p.incomplete /\ ~p.opaque
       /\ \A i \in DOMAIN p.steps : LET s == p.steps[i] IN
            /\ s.phase \in {"expand", "contract"} /\ s.compatible
            /\ ~s.sql /\ ~s.drifted /\ ~s.unknown
            /\ s.type \notin {"structure", "other"} /\ s.defined
            /\ s.phase = "contract" /\ i > 1 => s.deps # <<>>
            /\ s.type = "nullability" /\ s.demands => s.phase = "contract"

\* All three: a satisfied answer is about this plan and database, recent, and true.
SatisfiedHolds == TypeOK /\ SatisfiedIsCurrent /\ SatisfiedIsFresh /\ SatisfiedIsTrue
=============================================================================
