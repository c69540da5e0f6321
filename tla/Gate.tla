-------------------------------- MODULE Gate --------------------------------
(***************************************************************************)
(* The life of one query from its settings to the database: policies are   *)
(* registered and snapshot, conditions and options are added, a plan is    *)
(* built, judged and sealed, its public half may be edited, time passes    *)
(* and other sessions write, and the sealed statement runs or is refused   *)
(* (query/query.go, plan.go, write_plan.go, generic.go, tenant_write.go,   *)
(* execution.go).                                                          *)
(***************************************************************************)
EXTENDS RiskPolicy

CONSTANTS
    SettingsSet,    \* the settings a query may be given
    PolicySet,      \* the table policies an application may register
    Conditions,     \* the leaves a caller may add
    JoinClauses,    \* the joins: type and ON tree
    Projections,    \* the column lists a caller may select
    Suppressions,   \* the codes a caller may suppress
    Inserts,        \* the rows and conflict clauses a caller may insert
    Databases,      \* the contents table orders may start with
    OtherRows,      \* the rows other sessions may insert into it
    Users,          \* the rows of table users
    MaxSize,        \* conditions, joins and options of one query together
    MaxEvents       \* clock ticks, edits and other sessions' writes

VARIABLES
    registry,   \* the global policy registry
    clock,      \* the current time
    query,      \* <<q>> once created
    plan,       \* <<p>> once planned: the public plan and its sealed execution
    db,         \* the rows of table orders
    ran,        \* <<r>>: what ran, on which rows
    events      \* how often something else happened in between

vars == <<registry, clock, query, plan, db, ran, events>>

-----------------------------------------------------------------------------
(* Tables.  orders is the target of every query, users may be joined; the  *)
(* application asserts their schema                                        *)

Columns(table) ==
    IF table = "orders"
    THEN [c \in {"id", "tenant", "x", "del"} |-> KeyColumn(c, 16, c = "del")]
    ELSE [c \in {"uid", "tenant"} |-> KeyColumn(c, 16, FALSE)]

Order(i, t, x, d) == [id |-> i, tenant |-> t, x |-> x, del |-> d]

Key(cols) == [kind |-> "unique", cols |-> [i \in DOMAIN cols |-> Columns("orders")[cols[i]]],
              allRows |-> TRUE, valid |-> TRUE, notDeferrable |-> TRUE]

(* A unique key as the database enforces it                                *)
Unique(rows, cols) ==
    \A r, s \in rows : (\A i \in DOMAIN cols : r[cols[i]] = s[cols[i]]) => r = s
SameKey(r, s, cols) == \A i \in DOMAIN cols : r[cols[i]] = s[cols[i]]

(* Settings have their fields, keys are over the table's columns and rules *)
(* are relabelled with levels there are                                    *)
SettingsAssumption ==
    \A s \in SettingsSet :
       /\ DOMAIN s = {"strict", "auto", "dialect", "tenant", "schema", "risk", "err", "policies",
                      "dbkeys", "alias"}
       /\ s.strict \in BOOLEAN
       /\ s.dbkeys \subseteq Seq(DOMAIN Columns("orders"))
       /\ \A code \in DOMAIN s.risk : s.risk[code].severity \in {""} \cup Range(Levels)

PolicyAssumption == \A p \in PolicySet : DOMAIN p = DOMAIN NoPolicy

InsertAssumption ==
    \A ins \in Inserts : ins.rows \in Seq(Range(ins.rows)) /\ ins.conflict \in Seq(Range(ins.conflict))

RowAssumption ==
    \A rows \in Databases \cup {OtherRows} : \A r \in rows : DOMAIN r = DOMAIN Columns("orders")

ASSUME GateAssumption == SettingsAssumption /\ PolicyAssumption /\ InsertAssumption /\ RowAssumption

-----------------------------------------------------------------------------
(* Settings                                                                *)

Building == query # <<>> /\ plan = <<>>
q == query[1]

(* Something outside the query's own calls                                 *)
Happens == ran = <<>> /\ events < MaxEvents /\ events' = events + 1

PolicyForTable(policies, table) ==
    LET hits == {p \in policies : p.table = table} IN
    IF hits = {} THEN NoPolicy ELSE CHOOSE p \in hits : TRUE

(* RegisterTablePolicy: replaces the table's policy for later snapshots    *)
RegisterTablePolicy(policy) ==
    /\ query = <<>>
    /\ registry' = {p \in registry : p.table # policy.table} \cup {normalizeTablePolicy(policy)}
    /\ UNCHANGED <<clock, query, plan, db, ran, events>>

(* ResetPolicyRegistry: queries keep the snapshot they were made with      *)
ResetPolicyRegistry ==
    /\ registry # {} /\ Building /\ Happens /\ registry' = {}
    /\ UNCHANGED <<clock, query, plan, db, ran>>

(* SnapshotDefaultSettings: the registry as it is now                      *)
SnapshotDefaultSettings(s) == [s EXCEPT !.policies = registry]

NoApproval == [given |-> FALSE, expires |-> 0]

NewQueryRecord(s) ==
    [settings |-> s, alias |-> s.alias, policy |-> PolicyForTable(s.policies, "orders"),
     conds |-> <<>>, join |-> <<>>, cols |-> {}, err |-> s.err,
     approval |-> NoApproval, sups |-> <<>>, required |-> {},
     deleted |-> "", keys |-> {}, options |-> 0]

(* Setters of different fields commute: conditions first, then the join,   *)
(* then the options                                                        *)
Size(q1) == Len(q1.conds) + Len(q1.join) + q1.options

(* New and NewWithSettings                                                 *)
New(s) ==
    /\ query = <<>> /\ \A k \in s.dbkeys : Unique(db, k)
    /\ query' = <<NewQueryRecord(SnapshotDefaultSettings(s))>>
    /\ UNCHANGED <<registry, clock, plan, db, ran, events>>

-----------------------------------------------------------------------------
(* Building a query                                                        *)

Change(q1) == query' = <<q1>> /\ UNCHANGED <<registry, clock, plan, db, ran, events>>

(* Where, OrWhere, WhereNot and groups: a condition with its connector     *)
AddCondition(leaf, or) ==
    /\ Building /\ Size(q) < MaxSize /\ q.join = <<>> /\ q.options = 0
    /\ q.conds = <<>> => ~or
    /\ Change([q EXCEPT !.conds = Append(@, [leaf |-> leaf, or |-> or])])

Option(q1) ==
    /\ Building /\ Size(q) < MaxSize
    /\ Change([q1 EXCEPT !.options = @ + 1])

(* RequireApproval: a reason must be given, otherwise the query is in      *)
(* error                                                                   *)
RequireApproval(reason) ==
    Option(IF reason THEN [q EXCEPT !.approval = [given |-> TRUE, expires |-> 0]]
           ELSE [q EXCEPT !.err = TRUE])

(* SuppressWarning: code, reason, expiry                                   *)
SuppressWarning(code, expires) ==
    Option([q EXCEPT !.sups = Append(@, [code |-> code, expires |-> expires])])

RequirePredicates(table, col) == Option([q EXCEPT !.required = @ \cup {<<table, col>>}])
WithDeleted == Option([q EXCEPT !.deleted = "with"])
OnlyDeleted == Option([q EXCEPT !.deleted = "only"])
Select(cols) == Option([q EXCEPT !.cols = cols])

(* WithWriteKeyContext: the application asserts the table's keys           *)
WithWriteKeyContext(keys) ==
    /\ Building /\ q.keys = {}
    /\ Change([q EXCEPT !.keys = {Key(k) : k \in keys}])

(* Join, LeftJoin, RightJoin on columns, or with a clause of conditions    *)
JoinTable(type, on) ==
    /\ Building /\ Size(q) < MaxSize /\ q.join = <<>> /\ q.options = 0
    /\ Change([q EXCEPT !.join = <<[type |-> type, on |-> on]>>])

-----------------------------------------------------------------------------
(* Targets and policies of a plan                                          *)

TableRef(table, alias) == [table |-> table, alias |-> alias]
Tables(q1) == <<TableRef("orders", q1.alias)>>
              \o [i \in DOMAIN q1.join |-> TableRef("users", "")]

Target(ref, policies) ==
    [table |-> ref.table, name |-> IF ref.alias # "" THEN ref.alias ELSE ref.table,
     cols |-> Columns(ref.table), policy |-> PolicyForTable(policies, ref.table)]
Targets(tables, policies) == [i \in DOMAIN tables |-> Target(tables[i], policies)]

(* tenantTargets: every table in the asserted schema, every policy column  *)
(* resolved, the tenant present and of the column's type                   *)
TargetsFail(s, tables) ==
    \/ ~s.schema
    \/ \E i \in DOMAIN tables :
          LET t == Target(tables[i], s.policies) IN
          \/ \E c \in t.policy.pii \cup t.policy.forbidden \cup t.policy.immutable : ~tenantColumn(t, c)
          \/ t.policy.tenant # "" /\ (~tenantColumn(t, t.policy.tenant) \/ ~scopeInteger(s.tenant, 16))

(* The tree of a flat list of conditions: AND binds tighter than OR        *)
Fold(kind, seq) == IF Len(seq) = 1 THEN seq[1] ELSE Branch(kind, seq)
Tree(conds) ==
    LET runs == FoldLeft(LAMBDA acc, c :
                   IF acc # <<>> /\ ~c.or THEN [acc EXCEPT ![Len(acc)] = Append(@, c.leaf)]
                   ELSE Append(acc, <<c.leaf>>), <<>>, conds) IN
    IF conds = <<>> THEN NoTree
    ELSE Fold("or", [i \in DOMAIN runs |-> Fold("and", runs[i])])

And(leaf) == [leaf |-> leaf, or |-> FALSE]

(* policyBuilder: the mandatory predicates.  Strict settings close the     *)
(* caller's conditions in a group first, the compatible ones only append   *)
DeletedLeaf(q1, col) == IF q1.deleted = "only" THEN NotNull(col) ELSE IsNull(col)
StrictConds(q1) ==
    LET name == IF q1.alias # "" THEN q1.alias ELSE "orders"
        group == IF q1.conds = <<>> THEN <<>> ELSE <<And(Branch("group", <<Tree(q1.conds)>>))>>
        tenant == IF q1.settings.auto /\ q1.policy.tenant # ""
                  THEN <<And(Equal(<<name, q1.policy.tenant>>, q1.settings.tenant))>> ELSE <<>>
        alive == IF q1.policy.soft # "" /\ q1.deleted # "with"
                 THEN <<And(DeletedLeaf(q1, <<name, q1.policy.soft>>))>> ELSE <<>> IN
    group \o tenant \o alive
policyBuilder(q1) ==
    IF q1.settings.strict THEN StrictConds(q1)
    ELSE IF q1.policy.soft = "" \/ q1.deleted = "with" THEN q1.conds
    ELSE Append(q1.conds, And(DeletedLeaf(q1, <<"", q1.policy.soft>>)))

-----------------------------------------------------------------------------
(* Plans.  stmt is the statement the database gets, where and src are the  *)
(* condition tree shown to the rules                                       *)

Statement(op, q1, tree) ==
    [op |-> op, tables |-> Tables(q1), join |-> q1.join, where |-> tree,
     rows |-> <<>>, conflict |-> <<>>, raw |-> ""]

newQueryPlan(op, stmt, cols) ==
    [op |-> op, stmt |-> stmt, tables |-> stmt.tables, join |-> stmt.join,
     where |-> stmt.where, src |-> stmt.where, cols |-> cols, limit |-> FALSE,
     unverified |-> IF stmt.join = <<>> THEN {} ELSE {"join_conditions_not_inspected"},
     meta |-> [required |-> {}, returning |-> {}, deleted |-> "", policyTable |-> ""],
     scope |-> "", evidence |-> <<>>, tenantEvidence |-> <<>>,
     warnings |-> {}, suppressed |-> {}, level |-> "low", blocked |-> FALSE,
     requiredApproval |-> FALSE, approval |-> NoApproval]

(* writeView: the part of a plan that evidence is about                    *)
writeView(p) == <<p.op, p.stmt, p.tables, p.join, p.where, p.cols, p.unverified>>

(* comparableWriteView: trees within the walks' budget (valueguard.Check), *)
(* scalar arguments only, and the tree's values are the statement's        *)
comparableWriteView(p) ==
    /\ {p.where, p.stmt.where} \cup {p.join[i].on : i \in DOMAIN p.join} \subseteq Trees
    /\ \A v \in Range(ValuesOf(p.stmt.where)) : scopeScalar(v)
    /\ ValuesOf(p.where) = ValuesOf(p.stmt.where)

(* sealWriteEvidence: what the builder really made, kept from the caller   *)
sealWriteEvidence(p, keys) ==
    IF p.op \notin {"update", "delete"} THEN p
    ELSE [p EXCEPT !.evidence = <<[view |-> writeView(p), keys |-> keys, failed |-> ~comparableWriteView(p)]>>]

(* Mutant: the analysis trusts the public tree                             *)
AnalyzeWriteScopePublic(p) ==
    IF p.evidence = <<>> \/ p.unverified # {} THEN "unknown"
    ELSE KeyScope(p.where, p.evidence[1].keys, Target(p.tables[1], {}).name)
(* AnalyzeWriteScope: only for the statement the evidence is about         *)
AnalyzeWriteScope(p) ==
    IF \/ p.evidence = <<>>
       \/ p.evidence[1].failed \/ ~comparableWriteView(p)
       \/ writeView(p) # p.evidence[1].view
       \/ p.unverified # {} \/ p.join # <<>> THEN "unknown"
    ELSE KeyScope(p.where, p.evidence[1].keys, Target(p.tables[1], {}).name)

(* applyPolicyMetadata: what the query says about itself                   *)
applyPolicyMetadata(p, q1) ==
    [p EXCEPT !.meta.required = q1.required, !.meta.policyTable = q1.policy.table,
              !.meta.deleted = IF q1.policy = NoPolicy THEN "" ELSE q1.deleted]

Blocked(p, code) ==
    [p EXCEPT !.blocked = TRUE, !.level = "blocked",
              !.warnings = @ \cup {newWarning(code, "blocked", FALSE)}]

(* finalizePlanWithSettings: the rules, the suppressions, the level        *)
Judged(p, s, ws, sups) ==
    LET a == applySuppressions(ws, sups, clock)
        kept == a.kept \cup a.said
        level == aggregateWarnings(kept) IN
    [p EXCEPT !.warnings = kept, !.suppressed = a.suppressed, !.level = level,
              !.blocked = level = "blocked", !.requiredApproval = requiresApprovalLevel(level)]
finalizePlanWithSettings(p0, approval, sups, policy, s) ==
    LET p == IF p0.op \in {"update", "delete"} THEN [p0 EXCEPT !.scope = AnalyzeWriteScope(p0)] ELSE p0
        ws == CheckQuery(p, s.risk) \cup checkRequiredPredicates(p)
              \cup (IF s.strict THEN {} ELSE checkPolicies(p, policy, s.policies)) IN
    IF s.strict /\ p0.op = "raw"
    THEN [Blocked(p0, "TENANT_POLICY_REJECTED") EXCEPT !.tenantEvidence = <<[failed |-> TRUE, view |-> <<>>]>>]
    ELSE IF s.err THEN Blocked(p0, "UNSUPPORTED_RISK_ENGINE")
    ELSE [Judged(p, s, ws, sups) EXCEPT !.approval = approval]

(* tenantProjection: only columns the schema places and no policy protects *)
tenantProjection(cols, ts) ==
    \A c \in cols \ {<<"", "count">>} :
       LET i == tenantResolve(c, ts) IN
       i # 0 /\ c[2] \notin ts[i].policy.pii \cup ts[i].policy.forbidden

(* A join a strict plan may contain: inner or left, every column placed    *)
JoinKnown(j, ts) == j.type \in {"inner", "left"} /\ tenantTreeKnown(j.on, ts)

(* The tenant of target i, bound by WHERE or by the join's own condition   *)
BoundSomewhere(p, ts, i, want) ==
    \/ tenantBound(p.where, ts, i, want)
    \/ i > 1 /\ tenantBound(p.join[i - 1].on, ts, i, want)

(* strictPolicyCheck: nothing unknown, every branch bound, and no risk     *)
(* that would need more than the structure                                 *)
strictPolicyCheck(p, s) ==
    LET ts == Targets(p.tables, s.policies) IN
    /\ ~TargetsFail(s, p.tables)
    /\ p.unverified \subseteq {"join_conditions_not_inspected"}
    /\ tenantTreeKnown(p.where, ts)
    /\ p.op # "select" => p.join = <<>>
    /\ \A i \in DOMAIN p.join : JoinKnown(p.join[i], ts)
    /\ \A i \in DOMAIN ts : i > 1 => ts[i].policy.soft = ""
    /\ p.op # "insert" =>
         \A i \in DOMAIN ts :
            /\ \A c \in ts[i].policy.required : requiredTenantFilter(p.where, ts, i, c)
            /\ ts[i].policy.tenant # "" => BoundSomewhere(p, ts, i, s.tenant[2])
    /\ p.op = "select" => tenantProjection(p.cols, ts)
    /\ \A level \in {aggregateWarnings(CheckQuery(p, <<>>)), aggregateWarnings(CheckQuery(p, s.risk))} :
          level # "blocked" /\ ~requiresApprovalLevel(level)

(* finalizeTenantPolicy: the verdict, and evidence of what it was about    *)
finalizeTenantPolicy(p, s) ==
    LET ok == strictPolicyCheck(p, s) /\ comparableWriteView(p)
        evidence == <<[failed |-> ~ok, view |-> IF ok THEN writeView(p) ELSE <<>>]>> IN
    IF ~s.strict THEN p
    ELSE [(IF ok THEN p ELSE Blocked(p, "TENANT_POLICY_REJECTED")) EXCEPT !.tenantEvidence = evidence]

(* Mutant: the verdict is kept, its subject is not                         *)
checkTenantEvidenceVerdict(p) == p.tenantEvidence # <<>> => ~p.tenantEvidence[1].failed
(* checkTenantEvidence: still the plan that was judged                     *)
checkTenantEvidence(p) ==
    p.tenantEvidence # <<>> =>
       ~p.tenantEvidence[1].failed /\ comparableWriteView(p) /\ writeView(p) = p.tenantEvidence[1].view

(* ensurePlanExecutable                                                    *)
ensurePlanExecutable(p) ==
    /\ checkTenantEvidence(p) /\ ~p.blocked
    /\ p.requiredApproval => p.approval.given /\ ~Expired(p.approval.expires, clock)

(* sealExecution: the statement, the verdict at this moment and the        *)
(* approval's expiry leave the public plan's reach                         *)
sealExecution(p, s) ==
    LET strictly == \A level \in {aggregateWarnings(CheckQuery(p, <<>>)), aggregateWarnings(CheckQuery(p, s.risk))} :
                       level # "blocked" /\ ~requiresApprovalLevel(level) IN
    [pub |-> p, inspection |-> p, stmt |-> p.stmt, at |-> clock,
     gate |-> ensurePlanExecutable(p) /\ (s.strict => strictly),
     expires |-> IF p.requiredApproval THEN p.approval.expires ELSE 0]

(* finalizePlan                                                            *)
finalizePlan(p, q1) ==
    sealExecution(finalizeTenantPolicy(
        finalizePlanWithSettings(sealWriteEvidence(applyPolicyMetadata(p, q1), q1.keys),
                                 q1.approval, q1.sups, q1.policy, q1.settings),
        q1.settings), q1.settings)

Planned(x) == plan' = <<x>> /\ UNCHANGED <<registry, clock, query, db, ran, events>>

(* A query in error, or whose targets strict settings cannot place, gives  *)
(* no plan                                                                 *)
Plannable(q1) == ~q1.err /\ (q1.settings.strict => ~TargetsFail(q1.settings, Tables(q1)))

(* Plan: a SELECT                                                          *)
PlanSelect ==
    /\ Building /\ Plannable(q)
    /\ LET stmt == Statement("select", q, Tree(policyBuilder(q)))
           cols == IF q.cols = {} THEN {<<"", "*">>} ELSE q.cols IN
       Planned(finalizePlan(newQueryPlan("select", stmt, cols), q))

(* tenantWriteColumn: protected, tenant and immutable columns              *)
tenantWriteColumn(policy, col, update) ==
    /\ col \notin policy.forbidden \cup policy.pii
    /\ update => col # policy.tenant /\ col \notin policy.immutable

(* PlanUpdate: one assigned column, the policy's predicates included       *)
PlanUpdate(col) ==
    /\ Building /\ Plannable(q)
    /\ q.settings.strict => q.alias = "" /\ tenantColumn(Target(Tables(q)[1], {}), col)
                            /\ tenantWriteColumn(q.policy, col, TRUE)
    /\ LET stmt == [Statement("update", q, Tree(policyBuilder(q))) EXCEPT !.rows = <<[c \in {col} |-> Number(9)]>>] IN
       Planned(finalizePlan(newQueryPlan("update", stmt, {<<"", col>>}), q))

(* PlanDelete                                                              *)
PlanDelete ==
    /\ Building /\ Plannable(q)
    /\ Planned(finalizePlan(newQueryPlan("delete", Statement("delete", q, Tree(policyBuilder(q))), {}), q))

-----------------------------------------------------------------------------
(* INSERT: rows are functions from columns to values; a conflict clause is *)
(* [cols, updates], DO NOTHING when updates is empty                       *)

(* tenantRows: the tenant is filled in or must agree                       *)
Filled(q1, row) ==
    IF q1.settings.auto /\ q1.policy.tenant # "" /\ q1.policy.tenant \notin DOMAIN row
    THEN [c \in DOMAIN row \cup {q1.policy.tenant} |->
            IF c \in DOMAIN row THEN row[c] ELSE q1.settings.tenant]
    ELSE row
RowFits(q1, row) ==
    /\ \A c \in DOMAIN row : c \in DOMAIN Columns("orders") /\ scopeScalar(row[c])
                             /\ tenantWriteColumn(q1.policy, c, FALSE)
    /\ q1.policy.tenant # "" => /\ q1.policy.tenant \in DOMAIN row
                                /\ scopeInteger(row[q1.policy.tenant], 16)
                                /\ row[q1.policy.tenant][2] = q1.settings.tenant[2]

(* sameTenantNames: the conflict target is exactly this key                *)
sameTenantNames(key, unique) == Range(key) = Range(unique) /\ Len(key) = Len(unique)

(* A key on which the insert may meet an existing row must hold the        *)
(* tenant.  MySQL reacts to every key, Postgres to the named one           *)
KeyFits(q1, key, c, rows) ==
    \/ q1.settings.dialect = "postgres" /\ ~sameTenantNames(key, c.cols)
    \/ /\ q1.policy.tenant # "" => q1.policy.tenant \in Range(key)
       /\ \A i \in DOMAIN rows : \A k \in Range(key) :
             k \in DOMAIN rows[i] /\ scopeInteger(rows[i][k], 16)
(* Mutant: any conflict target will do                                     *)
ConflictFitsAny(q1, c, rows) == \E key \in q1.settings.dbkeys : sameTenantNames(key, c.cols)
ConflictFits(q1, c, rows) ==
    /\ \A col \in c.updates : tenantWriteColumn(q1.policy, col, TRUE) /\ col \in DOMAIN rows[1]
    /\ \A key \in q1.settings.dbkeys : KeyFits(q1, key, c, rows)
    /\ \E key \in q1.settings.dbkeys : sameTenantNames(key, c.cols)

(* Mutant: only the first row is judged.                                   *)
tenantRowsFirst(q1, rows, conflict) ==
    /\ q1.alias = "" /\ rows # <<>> /\ RowFits(q1, rows[1])
    /\ \A i \in DOMAIN rows : DOMAIN rows[i] = DOMAIN rows[1]
    /\ \A i \in DOMAIN conflict : ConflictFits(q1, conflict[i], rows)
tenantRows(q1, rows, conflict) ==
    /\ q1.alias = "" /\ rows # <<>>
    /\ \A i \in DOMAIN rows : RowFits(q1, rows[i]) /\ DOMAIN rows[i] = DOMAIN rows[1]
    /\ \A i \in DOMAIN conflict : ConflictFits(q1, conflict[i], rows)

(* planInsertRows: INSERT, INSERT OR IGNORE, upsert; it reads neither      *)
(* conditions nor joins nor keys                                           *)
PlanInsert(ins) ==
    LET rows == IF q.settings.strict THEN [i \in DOMAIN ins.rows |-> Filled(q, ins.rows[i])] ELSE ins.rows
        stmt == [Statement("insert", q, NoTree) EXCEPT !.rows = rows, !.conflict = ins.conflict,
                                                       !.join = <<>>, !.tables = SubSeq(@, 1, 1)] IN
    /\ Building /\ q.conds = <<>> /\ q.join = <<>> /\ q.keys = {} /\ Plannable(q)
    /\ q.settings.strict => tenantRows(q, rows, ins.conflict)
    /\ Planned(finalizePlan(newQueryPlan("insert", stmt, {<<"", c>> : c \in DOMAIN rows[1]}), q))

(* planReturningProjection: the private plan, never the public one, is     *)
(* extended and judged again                                               *)
PlanReturning(col) ==
    /\ plan # <<>> /\ ran = <<>> /\ plan[1].gate
    /\ plan[1].stmt.op \in {"insert", "update", "delete"} /\ plan[1].pub.meta.returning = {}
    /\ q.settings.dialect = "postgres"
    /\ q.settings.strict =>
          /\ checkTenantEvidence(plan[1].inspection)
          /\ tenantProjection({<<"", col>>}, Targets(plan[1].inspection.tables, q.settings.policies))
    /\ LET again == finalizePlan([plan[1].inspection EXCEPT !.meta.returning = {<<"", col>>},
                                    !.warnings = {}, !.level = "low", !.approval = NoApproval], q) IN
       again.gate /\ Planned(again)

-----------------------------------------------------------------------------
(* Raw SQL: the text says nothing the rules could use                      *)
PlanRaw(text, approval) ==
    LET stmt == [Statement("raw", q, NoTree) EXCEPT !.raw = text, !.join = <<>>]
        judged == finalizePlanWithSettings(newQueryPlan("raw", stmt, {}), NoApproval, <<>>, NoPolicy, q.settings) IN
    /\ Building /\ Size(q) = 0 /\ q.keys = {} /\ ~q.settings.err
    /\ Planned(sealExecution([judged EXCEPT !.approval = approval], q.settings))

-----------------------------------------------------------------------------
(* Between planning and execution                                          *)

(* Fields of the public plan are ordinary fields                           *)
Edits(p) == {[p EXCEPT !.blocked = FALSE, !.requiredApproval = FALSE, !.stmt.where = NoTree],
             [p EXCEPT !.where = Equal(<<"", "id">>, Number(1))]}
EditPlan ==
    /\ plan # <<>> /\ Happens
    /\ \E p \in Edits(plan[1].pub) : p # plan[1].pub /\ plan' = <<[plan[1] EXCEPT !.pub = p]>>
    /\ UNCHANGED <<registry, clock, query, db, ran>>

(* Only a suppression to be judged and an approval to be used read it      *)
Tick ==
    /\ query # <<>> /\ IF plan = <<>> THEN q.sups # <<>> ELSE plan[1].expires # 0
    /\ Happens /\ clock' = clock + 1
    /\ UNCHANGED <<registry, query, plan, db, ran>>

(* Another session, of any tenant, inserts a row the keys allow            *)
OtherSession(r) ==
    /\ plan # <<>> /\ Happens /\ r \notin db
    /\ \A key \in q.settings.dbkeys : Unique(db \cup {r}, key)
    /\ db' = db \cup {r}
    /\ UNCHANGED <<registry, clock, query, plan, ran>>

-----------------------------------------------------------------------------
(* The database runs a statement                                           *)

NullUser == [uid |-> NULL, tenant |-> NULL]
NullOrder == Order(NULL, NULL, NULL, NULL)

(* Rows of the joined tables for which ON and WHERE hold                   *)
Joined(j, ts) ==
    LET inner == {m \in db \X Users : Holds(j.on, ts, m) = "t"} IN
    inner \cup (IF j.type = "left" THEN {<<r, NullUser>> : r \in {r \in db : \A m \in inner : m[1] # r}} ELSE {})
          \cup (IF j.type = "right" THEN {<<NullOrder, u>> : u \in {u \in Users : \A m \in inner : m[2] # u}} ELSE {})
Reached(stmt) ==
    LET ts == Targets(stmt.tables, {})
        from == IF stmt.join = <<>> THEN {<<r, NullUser>> : r \in db} ELSE Joined(stmt.join[1], ts) IN
    IF stmt.raw # "" THEN {<<r, NullUser>> : r \in db}
    ELSE {m \in from : Holds(stmt.where, ts, m) = "t"}

(* MySQL writes through a join.  SET names its column without a table, and *)
(* the values a join binds are not passed to a DELETE (BuildDelete)        *)
JoinedWrite(stmt) ==
    /\ q.settings.dialect = "mysql"
    /\ stmt.op = "update" => DOMAIN stmt.rows[1] \cap DOMAIN Columns("users") = {}
    /\ stmt.op = "delete" => \A n \in LeavesOf(stmt.join[1].on) : n.vals = <<>>
Accepted(stmt) ==
    LET ts == Targets(stmt.tables, {}) IN
    /\ Resolves(stmt.where, ts) /\ \A i \in DOMAIN stmt.join : Resolves(stmt.join[i].on, ts)
    /\ stmt.op \in {"update", "delete"} /\ stmt.join # <<>> => JoinedWrite(stmt)

(* INSERT, row by row, over what the rows before it left: a conflict is an *)
(* error, which undoes them all, unless the clause covers the key          *)
InsertedRow(row) == [c \in DOMAIN Columns("orders") |-> IF c \in DOMAIN row THEN row[c][2] ELSE NULL]
Covers(stmt, key) ==
    /\ stmt.conflict # <<>>
    /\ q.settings.dialect = "mysql" \/ sameTenantNames(key, stmt.conflict[1].cols)
Untouched == [ok |-> TRUE, rows |-> {}, after |-> db]
InsertRow(stmt, st, row) ==
    LET r == InsertedRow(row)
        met == {e \in st.after : \E key \in q.settings.dbkeys : SameKey(e, r, key)}
        free == \A key \in q.settings.dbkeys : (\E e \in st.after : SameKey(e, r, key)) => Covers(stmt, key)
        updates == stmt.conflict[1].updates
        merged(e) == [c \in DOMAIN e |-> IF c \in updates THEN r[c] ELSE e[c]] IN
    IF ~st.ok \/ r.id = NULL \/ r.tenant = NULL \/ ~free THEN [Untouched EXCEPT !.ok = FALSE]
    ELSE IF met = {} THEN [ok |-> TRUE, rows |-> st.rows \cup {r}, after |-> st.after \cup {r}]
    ELSE LET e == CHOOSE e \in met : TRUE IN
         [ok |-> TRUE, rows |-> st.rows \cup (IF updates = {} THEN {} ELSE {e}),
          after |-> (st.after \ {e}) \cup {merged(e)}]
Inserted(stmt) ==
    LET after[i \in 0..Len(stmt.rows)] ==
            IF i = 0 THEN Untouched ELSE InsertRow(stmt, after[i - 1], stmt.rows[i]) IN
    after[Len(stmt.rows)]

Assigned(stmt, r) == [c \in DOMAIN r |-> IF c \in DOMAIN stmt.rows[1] THEN stmt.rows[1][c][2] ELSE r[c]]
After(stmt) ==
    LET hit == {m[1] : m \in Reached(stmt)} \cap db IN
    CASE stmt.op = "update" -> (db \ hit) \cup {Assigned(stmt, r) : r \in hit}
      [] stmt.op = "delete" \/ stmt.raw = "drop" -> db \ hit
      [] OTHER -> db

(* checkExecution and execute: the sealed verdict and the sealed expiry,   *)
(* never the public plan                                                   *)
Execute ==
    LET p == plan[1]
        ins == Inserted(p.stmt)
        mine == Reached(p.stmt) IN
    /\ plan # <<>> /\ ran = <<>> /\ p.gate /\ ~Expired(p.expires, clock) /\ Accepted(p.stmt)
    /\ IF p.stmt.op = "insert"
       THEN ran' = <<[orders |-> ins.rows, users |-> {}, before |-> db]>> /\ db' = ins.after
       ELSE /\ ran' = <<[orders |-> {m[1] : m \in mine} \ {NullOrder},
                         users |-> {m[2] : m \in mine} \ {NullUser}, before |-> db]>>
            /\ db' = After(p.stmt)
    /\ UNCHANGED <<registry, clock, query, plan, events>>

-----------------------------------------------------------------------------
Init ==
    /\ registry = {} /\ clock = 1 /\ query = <<>> /\ plan = <<>> /\ ran = <<>> /\ events = 0
    /\ db \in Databases

Next ==
    \/ \E p \in PolicySet : RegisterTablePolicy(p)
    \/ ResetPolicyRegistry
    \/ \E s \in SettingsSet : New(s)
    \/ \E c \in Conditions : AddCondition(c, FALSE) \/ AddCondition(c, TRUE)
    \/ \E given \in BOOLEAN : RequireApproval(given)
    \/ \E code \in Suppressions : SuppressWarning(code, 2)
    \/ RequirePredicates("orders", "tenant")
    \/ WithDeleted \/ OnlyDeleted
    \/ Building /\ WithWriteKeyContext(q.settings.dbkeys)
    \/ \E cols \in Projections : Select(cols)
    \/ \E j \in JoinClauses : JoinTable(j.type, j.on)
    \/ PlanSelect
    \/ \E c \in {"x", "tenant"} : PlanUpdate(c)
    \/ PlanDelete
    \/ \E ins \in Inserts : PlanInsert(ins)
    \/ PlanReturning("del")
    \/ \E text \in {"read", "weak", "drop"}, e \in {0, 2} :
          PlanRaw(text, NoApproval) \/ PlanRaw(text, [given |-> TRUE, expires |-> e])
    \/ EditPlan
    \/ Tick
    \/ \E r \in OtherRows : OtherSession(r)
    \/ Execute

Spec == Init /\ [][Next]_vars

-----------------------------------------------------------------------------
(* Properties                                                              *)

Own == q.settings.tenant[2]
TenantOf(table) == PolicyForTable(q.settings.policies, table).tenant

(* Under strict settings (strictPolicyCheck, tenantRows) a statement that  *)
(* ran read, changed and created rows of the current tenant only, in the   *)
(* target and in a joined table, whatever was combined in the condition,   *)
(* the join, the conflict clause and other sessions' rows.                 *)
TenantIsolation ==
    (ran # <<>> /\ q.settings.strict) =>
       /\ TenantOf("orders") # "" =>
             /\ \A r \in ran[1].orders : r[TenantOf("orders")] = Own
             /\ {r \in db : r[TenantOf("orders")] # Own} = {r \in ran[1].before : r[TenantOf("orders")] # Own}
       /\ TenantOf("users") # "" => \A u \in ran[1].users : u[TenantOf("users")] = Own

(* Whenever AnalyzeWriteScope answers at_most_one for a plan, edited or    *)
(* not, the plan's statement matches at most one row of every table        *)
(* content the asserted keys allow.                                        *)
ScopeIsSound ==
    (plan # <<>> /\ ran = <<>> /\ AnalyzeWriteScope(plan[1].pub) = "at_most_one"
       /\ Accepted(plan[1].pub.stmt))
    => Cardinality(Reached(plan[1].pub.stmt)) <= 1

(* A public plan that EnsurePlanExecutable lets pass under strict settings *)
(* carries a statement that reaches the current tenant's rows only: edits  *)
(* after planning are noticed (checkTenantEvidence).                       *)
EvidenceCoversStatement ==
    (plan # <<>> /\ ran = <<>> /\ q.settings.strict /\ TenantOf("orders") # ""
       /\ ensurePlanExecutable(plan[1].pub) /\ Accepted(plan[1].pub.stmt) /\ plan[1].pub.op # "insert")
    => \A m \in Reached(plan[1].pub.stmt) : m[1][TenantOf("orders")] = Own

Configured(code) == code \in DOMAIN q.settings.risk
SuppressedAtPlanning(code) ==
    \E i \in DOMAIN q.sups : q.sups[i].code = code /\ ~Expired(q.sups[i].expires, plan[1].at)
ApprovedNow == plan[1].pub.approval.given /\ ~Expired(plan[1].expires, clock)

(* What the settings make of a rule's finding, and whether they leave it   *)
(* below what needs an answer                                              *)
Severity(code, level) ==
    IF Configured(code) /\ q.settings.risk[code].severity # "" THEN q.settings.risk[code].severity ELSE level
Lowered(code, level) ==
    \/ Configured(code) /\ ~q.settings.risk[code].enabled
    \/ compareRisk(Severity(code, level), "high") < 0
Suppressible(code, supp) == IF Configured(code) THEN Overridden(supp, q.settings.risk[code].supp) ELSE supp
Answered(code, level, supp) ==
    \/ Lowered(code, level)
    \/ ApprovedNow /\ Severity(code, level) # "blocked"
    \/ SuppressedAtPlanning(code) /\ Suppressible(code, supp)

(* No statement the risk engine holds to be dangerous ran without an       *)
(* answer to it: an UPDATE or DELETE of every row and a weak predicate     *)
(* need a changed rule, a suppression in force when it was planned or an   *)
(* approval, raw and destructive SQL a changed rule or an approval in      *)
(* force when it runs.                                                     *)
RiskAnsweredFor ==
    (ran # <<>>) =>
      LET s == plan[1].stmt IN
       /\ s.op = "update" /\ s.where = NoTree => Answered("UPDATE_WITHOUT_WHERE", "blocked", FALSE)
       /\ s.op = "delete" /\ s.where = NoTree => Answered("DELETE_WITHOUT_WHERE", "blocked", FALSE)
       /\ s.raw = "weak" \/ (\E n \in inspectionPredicates(s.where) : n.opaque = "weak") =>
             Answered("WEAK_PREDICATE", "high", TRUE)
       /\ s.op = "raw" => ~q.settings.strict /\ (ApprovedNow \/ Lowered("RAW_SQL_USED", "high"))
       /\ s.raw = "drop" => ApprovedNow \/ Lowered("DESTRUCTIVE_SQL_DETECTED", "destructive")

Mentions(tree, col) == \E n \in LeavesOf(tree) : \E c \in {n.col, n.vcol} : normalizeColumnName(c[2]) = normalizeColumnName(col)

(* The policies a query was created under bind it to the end, also when    *)
(* the registry is emptied: a statement without the tenant column never    *)
(* runs against a blocking policy and only with an approval otherwise, and *)
(* a required predicate is never missing.                                  *)
PolicyIsEnforced ==
    (ran # <<>> /\ ~q.settings.strict /\ plan[1].stmt.op \in {"select", "update", "delete"}) =>
       /\ \A p \in q.settings.policies :
             (/\ p.tenant # "" /\ \E t \in Range(plan[1].stmt.tables) : t.table = p.table
              /\ ~Mentions(plan[1].stmt.where, p.tenant))
             => p.tmode # "block" /\ ApprovedNow
       /\ \A r \in q.required : Mentions(plan[1].stmt.where, r[2])

(* Both: what the gate believes about a statement's tenant is proven of    *)
(* the statement that runs.                                                *)
ScopeIsProven == ScopeIsSound /\ EvidenceCoversStatement

(* Both: no finding is lost between the analysis and the decision to run.  *)
RiskIsGoverned == RiskAnsweredFor /\ PolicyIsEnforced
=============================================================================
