----------------------------- MODULE WriteScope -----------------------------
(***************************************************************************)
(* What goquent reads out of a condition tree before it lets a statement   *)
(* run: whether an UPDATE or DELETE can reach more than one row            *)
(* (query/write_scope.go) and whether every branch of the condition binds  *)
(* the current tenant (query/tenant_policy.go).  Next to both stands what  *)
(* the database makes of the same tree, in three-valued logic.             *)
(*                                                                         *)
(* A column reference is <<qualifier, name>>, the qualifier "" when there  *)
(* is none and the name "expr" when the text is not an identifier.  A      *)
(* value is <<type, n>>; NULL is <<"nil", 0>>.                             *)
(***************************************************************************)
EXTENDS Integers, Sequences, FiniteSets, SequencesExt

CONSTANT MaxDepth   \* levels of conditions under one another

ASSUME DepthAssumption == MaxDepth \in Nat

Nil == <<"nil", 0>>
Number(n) == <<"int", n>>
NoColumn == <<"", "">>

(* predicate.Node: a leaf, or a branch over children                       *)
Leaf(kind, col, op, vals) ==
    [kind |-> kind, col |-> col, op |-> op, vals |-> vals, vcol |-> NoColumn,
     opaque |-> "", ch |-> <<>>]
Branch(kind, ch) == [Leaf(kind, NoColumn, "", <<>>) EXCEPT !.ch = ch]
NoTree == Leaf("none", NoColumn, "", <<>>)

Equal(col, v) == Leaf("comparison", col, "=", <<v>>)
SameColumn(a, b) == [Leaf("column", a, "=", <<>>) EXCEPT !.vcol = b]
IsNull(col) == Leaf("null", col, "IS NULL", <<>>)
NotNull(col) == Leaf("null", col, "IS NOT NULL", <<>>)
Opaque == [Leaf("opaque", NoColumn, "", <<>>) EXCEPT !.opaque = "unparsed_expression"]

Branches == {"and", "or", "group", "not"}

(* The trees of at most d levels below the root, only branches having      *)
(* children, and those no walk gives up on: the builders stop at           *)
(* predicate.MaxDepth, valueguard.Check beyond                             *)
Columned == STRING \X STRING
Value == STRING \X Int
Nodes(children) ==
    {n \in [kind : STRING, col : Columned, op : STRING, vals : Seq(Value), vcol : Columned,
            opaque : STRING, ch : children] : n.ch # <<>> => n.kind \in Branches}
TreesTo[d \in 0..MaxDepth] == Nodes(IF d = 0 THEN {<<>>} ELSE Seq(TreesTo[d - 1]))
Trees == TreesTo[MaxDepth]

(* A walk over a tree: what op makes of a node and of its children's       *)
(* results                                                                 *)
Walk(op(_, _), n) ==
    LET at[m \in Trees] == op(m, [i \in DOMAIN m.ch |-> at[m.ch[i]]]) IN at[n]

scopeScalar(v) == v[1] # "custom"

(* Correspondence "generated": nothing under the node was left unparsed or *)
(* uncopied                                                                *)
Generated(n) ==
    Walk(LAMBDA m, ch : /\ m.opaque = ""
                        /\ \A i \in DOMAIN m.vals : scopeScalar(m.vals[i])
                        /\ \A i \in DOMAIN ch : ch[i], n)

(* The values of a tree in argument order                                  *)
ValuesOf(n) == Walk(LAMBDA m, ch : m.vals \o FlattenSeq(ch), n)

LeavesOf(n) == Walk(LAMBDA m, ch : IF ch = <<>> THEN {m} ELSE UNION Range(ch), n)

(* inspectionPredicates: the leaves, for the checks that only look for a   *)
(* column                                                                  *)
inspectionPredicates(tree) == IF tree = NoTree THEN {} ELSE LeavesOf(tree)

scopeColumn(ref) == ref[2] # "expr" /\ ref[1] # "expr"

(* scopeInteger: the value as a signed integer of the column's width       *)
Limit(bits) == 2 ^ (bits - 1)
scopeInteger(v, bits) ==
    v[1] = "int" /\ v[2] >= -Limit(bits) /\ v[2] <= Limit(bits) - 1

-----------------------------------------------------------------------------
(* Write scope: keys an application asserts, bound by the condition        *)

KeyColumn(name, bits, nullable) == [name |-> name, bits |-> bits, nullable |-> nullable]

(* validWriteKey: every assertion explicit, every column an integer of the *)
(* dialect; "typed" says that type and width agree                         *)
validWriteKey(k) ==
    /\ k.kind \in {"primary", "unique"}
    /\ k.allRows /\ k.valid /\ k.notDeferrable
    /\ k.cols # <<>> /\ IsInjective([i \in DOMAIN k.cols |-> k.cols[i].name])
    /\ \A i \in DOMAIN k.cols :
          k.cols[i].bits \in {16, 32, 64} /\ ~(k.kind = "primary" /\ k.cols[i].nullable)

Unknown == [unknown |-> TRUE, map |-> {}]
Bound(map) == [unknown |-> FALSE, map |-> map]

(* The leaf cases of scopeBindings: a comparison or an IN of one integer   *)
(* binds a key column                                                      *)
LeafBindings(n, k, target) ==
    LET keys == {i \in DOMAIN k.cols : k.cols[i].name = n.col[2]}
        bits == k.cols[CHOOSE i \in keys : TRUE].bits
        foreign(ref) == ~scopeColumn(ref) \/ ref[1] \notin {"", target} IN
    CASE n.kind \in {"null", "column"} ->
            IF foreign(n.col) \/ foreign(n.vcol) THEN Unknown ELSE Bound({})
      [] n.kind \in {"comparison", "in", "between"} ->
            IF foreign(n.col) THEN Unknown
            ELSE IF keys = {} THEN Bound({})
            ELSE IF \E i \in DOMAIN n.vals : n.vals[i] # Nil /\ ~scopeInteger(n.vals[i], bits)
                 THEN Unknown
            ELSE IF Len(n.vals) # 1 \/ n.vals[1] = Nil THEN Bound({})
            ELSE IF <<n.kind, n.op>> \in {<<"comparison", "=">>, <<"in", "IN">>}
                 THEN Bound({<<n.col[2], n.vals[1][2]>>})
            ELSE Bound({})
      [] OTHER -> Unknown

(* AND and group: bindings are united, two different ones for a column end *)
(* the analysis                                                            *)
Conjoin(parts) ==
    LET all == UNION {p.map : p \in parts} IN
    IF \E a, b \in all : a[1] = b[1] /\ a[2] # b[2] THEN Unknown ELSE Bound(all)

(* OR: only a complete binding common to every branch survives             *)
Disjoin(ch, width) ==
    LET common == {b \in UNION {p.map : p \in Range(ch)} : \A i \in DOMAIN ch : b \in ch[i].map} IN
    Bound(IF Cardinality(common) = width THEN common ELSE {})

(* scopeBindings: the key columns a tree fixes, with their values          *)
NodeBindings(n, ch, k, target) ==
    IF ~Generated(n) THEN Unknown
    ELSE IF n.kind \notin Branches THEN LeafBindings(n, k, target)
    ELSE IF \E i \in DOMAIN ch : ch[i].unknown THEN Unknown
    ELSE CASE n.kind = "not" -> Bound({})
           [] n.kind = "or" -> Disjoin(ch, Len(k.cols))
           [] OTHER -> Conjoin(Range(ch))
scopeBindings(n, k, target) == Walk(LAMBDA m, ch : NodeBindings(m, ch, k, target), n)

(* AnalyzeWriteScope, from the condition on: unknown when any key is       *)
(* unknown, at_most_one when some key is bound completely                  *)
KeyScope(tree, keys, target) ==
    LET found == {scopeBindings(tree, k, target) : k \in keys} IN
    IF keys = {} \/ \E k \in keys : ~validWriteKey(k) THEN "unknown"
    ELSE IF tree = NoTree THEN "broad"
    ELSE IF \E f \in found : f.unknown THEN "unknown"
    ELSE IF \E k \in keys : Cardinality(scopeBindings(tree, k, target).map) = Len(k.cols)
         THEN "at_most_one" ELSE "broad"

-----------------------------------------------------------------------------
(* Targets of a statement: [table, name the statement calls it by, columns *)
(* of the asserted schema, policy]                                         *)

tenantColumn(t, name) == name \in DOMAIN t.cols

(* tenantResolve: the one target a column reference can mean, or 0         *)
tenantResolve(ref, ts) ==
    LET fits == {i \in DOMAIN ts : ref[1] \in {"", ts[i].name} /\ tenantColumn(ts[i], ref[2])} IN
    IF scopeColumn(ref) /\ Cardinality(fits) = 1 THEN CHOOSE i \in fits : TRUE ELSE 0

KnownOperators == {"=", ">", "IN", "NOT IN", "BETWEEN", "IS NULL", "IS NOT NULL"}

(* tenantTreeKnown: no part of the condition is beyond the analysis        *)
NodeKnown(n, ch, ts) ==
    /\ Generated(n)
    /\ \/ n.kind \in Branches /\ ch # <<>> /\ \A i \in DOMAIN ch : ch[i]
       \/ /\ n.kind \in {"comparison", "in", "between", "null", "column"}
          /\ tenantResolve(n.col, ts) # 0
          /\ n.kind = "column" => tenantResolve(n.vcol, ts) # 0
          /\ n.op \in KnownOperators
tenantTreeKnown(n, ts) == n = NoTree \/ Walk(LAMBDA m, ch : NodeKnown(m, ch, ts), n)

(* A node whose every branch is bound; NOT never counts                    *)
NodeBound(n, ch, binds) ==
    CASE n.kind = "group" -> Len(ch) = 1 /\ ch[1]
      [] n.kind = "and" -> \E i \in DOMAIN ch : ch[i]
      [] n.kind = "or" -> ch # <<>> /\ \A i \in DOMAIN ch : ch[i]
      [] n.kind = "comparison" -> binds
      [] OTHER -> FALSE

(* tenantBound: every branch of the condition carries tenant = want for    *)
(* this target                                                             *)
BindsTenant(n, ts, target, want) ==
    /\ tenantResolve(n.col, ts) = target
    /\ n.col[2] = ts[target].policy.tenant
    /\ n.op = "=" /\ Len(n.vals) = 1
    /\ scopeInteger(n.vals[1], ts[target].cols[n.col[2]].bits)
    /\ n.vals[1][2] = want
tenantBound(n, ts, target, want) ==
    Walk(LAMBDA m, ch : NodeBound(m, ch, BindsTenant(m, ts, target, want)), n)

(* requiredTenantFilter: the same walk for a column any value may be       *)
(* required of                                                             *)
Filters(n, ts, target, col) ==
    /\ tenantResolve(n.col, ts) = target /\ n.col[2] = col
    /\ n.op = "=" /\ Len(n.vals) = 1 /\ n.vals[1] # Nil
requiredTenantFilter(n, ts, target, col) ==
    Walk(LAMBDA m, ch : NodeBound(m, ch, Filters(m, ts, target, col)), n)

-----------------------------------------------------------------------------
(* The database: a row is a function from columns to integers, NULL is -1  *)

NULL == -1

Truth(b) == IF b THEN "t" ELSE "f"
Not(v) == CASE v = "t" -> "f" [] v = "f" -> "t" [] OTHER -> "u"
All(vs) == IF "f" \in vs THEN "f" ELSE IF "u" \in vs THEN "u" ELSE "t"
Some(vs) == IF "t" \in vs THEN "t" ELSE IF "u" \in vs THEN "u" ELSE "f"

(* A comparison with NULL on either side is unknown                        *)
Compares(a, op, b) ==
    IF a = NULL \/ b = NULL THEN "u"
    ELSE IF op = "=" THEN Truth(a = b) ELSE Truth(a > b)
SqlValue(v) == IF v = Nil THEN NULL ELSE v[2]

(* The truth of a tree for one row of every target.  An expression the     *)
(* analysis cannot read may be true of any row                             *)
NodeHolds(n, ch, ts, rows) ==
    LET at(ref) == rows[tenantResolve(ref, ts)][ref[2]]
        vs == {Compares(at(n.col), "=", SqlValue(n.vals[i])) : i \in DOMAIN n.vals} IN
    CASE n.kind \in {"none", "opaque"} -> "t"
      [] n.kind \in {"and", "group"} -> All(ch)
      [] n.kind = "or" -> Some(ch)
      [] n.kind = "not" -> Not(All(ch))
      [] n.kind = "null" -> IF n.op = "IS NULL" THEN Truth(at(n.col) = NULL) ELSE Truth(at(n.col) # NULL)
      [] n.kind = "column" -> Compares(at(n.col), n.op, at(n.vcol))
      [] n.kind = "in" -> IF n.op = "IN" THEN Some(vs) ELSE Not(Some(vs))
      [] n.kind = "between" -> All({Not(Compares(SqlValue(n.vals[1]), ">", at(n.col))),
                                    Not(Compares(at(n.col), ">", SqlValue(n.vals[2])))})
      [] OTHER -> Compares(at(n.col), n.op, SqlValue(n.vals[1]))
Holds(n, ts, rows) == Walk(LAMBDA m, ch : NodeHolds(m, Range(ch), ts, rows), n)

(* The database refuses a statement with a column it cannot place          *)
Resolves(tree, ts) ==
    \A n \in LeavesOf(tree) :
       n.kind \in {"none", "opaque"} \/ (/\ tenantResolve(n.col, ts) # 0
                                         /\ n.kind = "column" => tenantResolve(n.vcol, ts) # 0)
=============================================================================
