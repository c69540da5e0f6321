----------------------------- MODULE RiskPolicy -----------------------------
(***************************************************************************)
(* The rules that judge a finished plan: the risk engine (query/risk.go),  *)
(* table policies (query/policy.go) and suppressions                       *)
(* (query/suppression.go).  A warning is [code, level, supp], a set of     *)
(* warnings stands for the list: no rule depends on its order.             *)
(***************************************************************************)
EXTENDS WriteScope

Levels == <<"low", "medium", "high", "destructive", "blocked">>
riskRank(level) == CHOOSE i \in DOMAIN Levels : Levels[i] = level
compareRisk(a, b) == riskRank(a) - riskRank(b)
requiresApprovalLevel(level) == compareRisk(level, "high") >= 0 /\ level # "blocked"

newWarning(code, level, supp) == [code |-> code, level |-> level, supp |-> supp]

(* aggregateWarnings: the highest level of any warning                     *)
aggregateWarnings(ws) ==
    Levels[CHOOSE i \in DOMAIN Levels :
              /\ i = 1 \/ \E w \in ws : riskRank(w.level) = i
              /\ \A w \in ws : riskRank(w.level) <= i]

-----------------------------------------------------------------------------
(* Identifiers are compared without case by the policies                   *)
normalizeColumnName(name) == IF name = "TENANT" THEN "tenant" ELSE name

(* tableQualifierSet: the names a table goes by in the plan                *)
tableQualifierSet(p, table) ==
    {n \in UNION {{t.table, t.alias} : t \in {t \in Range(p.tables) : t.table = table}} : n # ""}

predicateColumnMatches(ref, target, qualifiers, allowUnqualified) ==
    /\ normalizeColumnName(ref[2]) = target
    /\ \/ qualifiers = {}
       \/ ref[1] = "" /\ allowUnqualified
       \/ ref[1] \in qualifiers

(* hasPolicyPredicateColumn: some leaf names the column, on either side    *)
hasPolicyPredicateColumn(p, table, col, allowUnqualified) ==
    \E n \in inspectionPredicates(p.src) : \E ref \in {n.col, n.vcol} :
       predicateColumnMatches(ref, normalizeColumnName(col), tableQualifierSet(p, table), allowUnqualified)

planTouchesTable(p, table) == \E t \in Range(p.tables) : t.table = table
countPlanTables(p) == Cardinality({t.table : t \in Range(p.tables)})

(* PlanHasPredicateColumn and MissingRequiredPredicates                    *)
PlanHasPredicateColumn(p, table, col) ==
    hasPolicyPredicateColumn(p, table, col, table = "" \/ countPlanTables(p) <= 1)
MissingRequiredPredicates(p, required) ==
    {r \in required : ~PlanHasPredicateColumn(p, r[1], r[2])}

(* checkRequiredPredicates: each missing one blocks                        *)
checkRequiredPredicates(p) ==
    {newWarning("REQUIRED_PREDICATE_MISSING", "blocked", FALSE)
       : r \in MissingRequiredPredicates(p, p.meta.required)}

-----------------------------------------------------------------------------
(* Risk rules                                                              *)

selectStarUsed(p) == p.cols = {} \/ \E c \in p.cols : c[2] = "*"
selectIsAggregateOnly(p) == p.cols # {} /\ \A c \in p.cols : c[2] = "count"

(* hasNoPredicate: no leaf and no WHERE in the text                        *)
hasNoPredicate(p) == inspectionPredicates(p.src) = {} /\ p.stmt.where = NoTree
hasWeakPredicate(p) == p.stmt.raw = "weak" \/ \E n \in inspectionPredicates(p.src) : n.opaque = "weak"
containsDangerousSQLToken(p) == p.stmt.raw = "drop"

WriteRule(p, bare, bulk) ==
    IF hasNoPredicate(p) THEN {newWarning(bare, "blocked", FALSE)}
    ELSE IF p.scope # "at_most_one" THEN {newWarning(bulk, "medium", TRUE)} ELSE {}

(* The rules of CheckQuery by operation, and the two that look at the text *)
RiskRules(p) ==
    UNION {IF p.op = "select" /\ selectStarUsed(p)
             THEN {newWarning("SELECT_STAR_USED", "medium", TRUE)} ELSE {},
           IF p.op = "select" /\ ~p.limit /\ ~selectIsAggregateOnly(p)
             THEN {newWarning("LIMIT_MISSING", "medium", TRUE)} ELSE {},
           IF p.op = "update" THEN WriteRule(p, "UPDATE_WITHOUT_WHERE", "BULK_UPDATE_DETECTED") ELSE {},
           IF p.op = "delete" THEN WriteRule(p, "DELETE_WITHOUT_WHERE", "BULK_DELETE_DETECTED") ELSE {},
           IF p.op = "raw" THEN {newWarning("RAW_SQL_USED", "high", TRUE)} ELSE {},
           IF containsDangerousSQLToken(p) THEN {newWarning("DESTRUCTIVE_SQL_DETECTED", "destructive", FALSE)} ELSE {},
           IF hasWeakPredicate(p) THEN {newWarning("WEAK_PREDICATE", "high", TRUE)} ELSE {}}

(* applyRiskConfig: a rule may be switched off, relabelled and made        *)
(* suppressible or not                                                     *)
Overridden(supp, choice) == IF choice = "" THEN supp ELSE choice = "yes"
applyRiskConfig(ws, config) ==
    {IF w.code \in DOMAIN config
       THEN newWarning(w.code, IF config[w.code].severity = "" THEN w.level ELSE config[w.code].severity,
                       Overridden(w.supp, config[w.code].supp))
       ELSE w : w \in {w \in ws : w.code \in DOMAIN config => config[w.code].enabled}}

CheckQuery(p, config) == applyRiskConfig(RiskRules(p), config)

-----------------------------------------------------------------------------
(* Table policies                                                          *)

NoPolicy == [table |-> "", tenant |-> "", tmode |-> "", soft |-> "", smode |-> "",
             pii |-> {}, pmode |-> "", required |-> {}, rmode |-> "",
             forbidden |-> {}, immutable |-> {}]

defaultPolicyMode(mode, fallback) == IF mode \in {"warn", "enforce", "block"} THEN mode ELSE fallback

(* normalizeTablePolicy: the modes a policy leaves open                    *)
normalizeTablePolicy(policy) ==
    [policy EXCEPT !.tmode = defaultPolicyMode(@, "enforce"), !.smode = defaultPolicyMode(@, "enforce"),
                   !.pmode = defaultPolicyMode(@, "warn"), !.rmode = defaultPolicyMode(@, "enforce")]

(* Mutant: blocking is no more than enforcing                              *)
policyModeLevelSoft(mode, fallback) ==
    IF mode \in {"enforce", "block"} /\ compareRisk(fallback, "high") < 0 THEN "high" ELSE fallback
policyModeLevel(mode, fallback) ==
    CASE mode = "enforce" -> IF compareRisk(fallback, "high") < 0 THEN "high" ELSE fallback
      [] mode = "block" -> "blocked"
      [] OTHER -> fallback

policyWarning(code, level, supp) == newWarning(code, level, supp /\ level # "blocked")
policyAppliesToOperation(op) == op \in {"select", "update", "delete"}

(* newPolicyCheckContext: a column two touched policies own must be        *)
(* qualified in the predicate                                              *)
newPolicyCheckContext(policies) ==
    LET owned(p) == {normalizeColumnName(c) : c \in ({p.tenant, p.soft} \cup p.required) \ {""}} IN
    {c \in UNION {owned(p) : p \in policies} : Cardinality({p \in policies : c \in owned(p)}) > 1}

(* selectedPIIColumnsForPolicy over the projection or the RETURNING list   *)
selectedPII(p, policy) ==
    LET cols == IF p.meta.returning # {} THEN p.meta.returning ELSE p.cols IN
    {c \in policy.pii : \/ \E s \in cols : s[2] = "*"
                        \/ \E s \in cols : predicateColumnMatches(s, normalizeColumnName(c),
                                               tableQualifierSet(p, policy.table), TRUE)}

(* shouldRequireSoftDeleteFilter: WithDeleted lifts it for the query's own *)
(* policy table                                                            *)
shouldRequireSoftDeleteFilter(p, table) ==
    ~(p.meta.deleted = "with" /\ p.meta.policyTable \in {"", table})

(* checkPolicyWithContext: what one policy has to say about one plan       *)
checkPolicyWithContext(p, policy, ambiguous) ==
    LET applies == policyAppliesToOperation(p.op)
        has(col) == hasPolicyPredicateColumn(p, policy.table, col, normalizeColumnName(col) \notin ambiguous) IN
    UNION {IF policy.tenant # "" /\ applies /\ ~has(policy.tenant)
             THEN {policyWarning("TENANT_FILTER_MISSING", policyModeLevel(policy.tmode, "high"), FALSE)} ELSE {},
           {policyWarning("REQUIRED_FILTER_MISSING", policyModeLevel(policy.rmode, "high"), FALSE)
              : c \in {c \in policy.required : applies /\ ~has(c)}},
           IF policy.soft # "" /\ applies /\ shouldRequireSoftDeleteFilter(p, policy.table) /\ ~has(policy.soft)
             THEN {policyWarning("SOFT_DELETE_FILTER_MISSING", policyModeLevel(policy.smode, "medium"), TRUE)} ELSE {},
           {policyWarning("PII_COLUMN_SELECTED", policyModeLevel(policy.pmode, "medium"), TRUE)
              : c \in IF p.op = "select" \/ p.meta.returning # {} THEN selectedPII(p, policy) ELSE {}}}

(* checkPolicies: every policy of a touched table, the query's own in      *)
(* place of the set's                                                      *)
checkPolicies(p, extra, policies) ==
    LET byTable == {q \in policies : q.table # extra.table} \cup ({extra} \ {NoPolicy})
        touched == {q \in byTable : planTouchesTable(p, q.table)} IN
    UNION {checkPolicyWithContext(p, q, newPolicyCheckContext(touched)) : q \in touched}

-----------------------------------------------------------------------------
(* Suppressions: [code, reason, expires], 0 for no expiry                  *)

findSuppression(code, sups) ==
    LET hits == {i \in DOMAIN sups : sups[i].code = code} IN
    IF hits = {} THEN <<>> ELSE <<sups[CHOOSE i \in hits : \A j \in hits : i <= j]>>

Expired(expires, now) == expires # 0 /\ expires <= now

(* Mutant: the suppression's clock is not looked at                        *)
FateAnyTime(w, sups, now) ==
    LET s == findSuppression(w.code, sups) IN
    IF s # <<>> /\ w.supp THEN "suppressed" ELSE "kept"

(* One warning against the first suppression of its code                   *)
Fate(w, sups, now) ==
    LET s == findSuppression(w.code, sups) IN
    IF s = <<>> THEN "kept"
    ELSE IF Expired(s[1].expires, now) THEN "expired"
    ELSE IF ~w.supp THEN "refused"
    ELSE "suppressed"

(* applySuppressions: what stays, what is silenced, what is said of the    *)
(* suppressions themselves                                                 *)
applySuppressions(ws, sups, now) ==
    [kept |-> {w \in ws : Fate(w, sups, now) # "suppressed"},
     suppressed |-> {w \in ws : Fate(w, sups, now) = "suppressed"},
     said |-> {newWarning(IF Fate(w, sups, now) = "expired" THEN "SUPPRESSION_EXPIRED"
                          ELSE "SUPPRESSION_NOT_ALLOWED", "medium", FALSE)
                 : w \in {w \in ws : Fate(w, sups, now) \in {"expired", "refused"}}}]
=============================================================================
