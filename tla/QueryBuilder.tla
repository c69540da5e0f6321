---------------------------- MODULE QueryBuilder ----------------------------
(***************************************************************************)
(* The query builder (orm/internal/querybuilder) behind the query facade   *)
(* (orm/query/query.go): fluent calls collect conditions, groups, joins    *)
(* and subqueries; Build compiles the conditions into a predicate tree and *)
(* renders SQL text, bound arguments and the inspection positions of those *)
(* arguments in one traversal.                                             *)
(*                                                                         *)
(* SQL text is a sequence of tokens.  A condition is one token: which call *)
(* asked for it, and its body (the placeholders it emits, or the text of   *)
(* the query nested in it).  A placeholder token carries its number and    *)
(* the value its caller meant for it, so that text and argument list,      *)
(* which the code builds separately, can be compared.  Names, quoting and  *)
(* the wording of clauses are left out.                                    *)
(***************************************************************************)
EXTENDS Naturals, Sequences, FiniteSets, SequencesExt

CONSTANTS
    Settings,      \* the pairs of dialect and policy ("plain", "soft" or
                   \* "strict") explored
    MaxDepth,      \* predicate.MaxDepth
    MaxCost,       \* bound on the calls of one behaviour: a plain condition or
                   \* group costs 1, any other call 2, the first after a build
                   \* 1 more
    MaxSub         \* bound on the calls on the second builder

VARIABLES
    dialect,       \* the dialect of the strategy
    mode,          \* the policy of the table, fixed when it is registered
    b,             \* the two builders: the query and a query it may use
    out,           \* what the latest Build returned
    cost, subs     \* the bounds

vars == <<dialect, mode, b, out, cost, subs>>

Builders == {"main", "sub"}

-----------------------------------------------------------------------------
(* Conditions, groups and queries *)

\* A condition: the call that added it, its logical operator, and what it
\* binds.  "raw" lists the named parameters in the order the text uses them.
Cond(kind, op, id, vals) ==
    [kind |-> kind, op |-> op, id |-> id, vals |-> vals,
     names |-> <<>>, nested |-> <<>>, sub |-> <<>>]

\* An explicit group is stored as one condition holding the group's clauses.
Nested(groups) == [Cond("nested", "AND", 0, <<>>) EXCEPT !.nested = groups]

\* A group of conditions; a dummy group has no brackets of its own.
Group(conds, op, neg, dummy) ==
    [conds |-> conds, op |-> op, neg |-> neg, dummy |-> dummy]

Dummy(conds) == Group(conds, "AND", FALSE, TRUE)

\* The clause storage a WhereBuilder points at.  ref is what the calls said,
\* kept apart from how the builder stores it.
Frame(op, neg) ==
    [conds |-> <<>>, groups |-> <<>>, perr |-> FALSE, err |-> FALSE,
     op |-> op, neg |-> neg, ref |-> <<>>]

NoGroupBy == [set |-> FALSE, having |-> <<>>]

NewBuilder ==
    [cols |-> <<>>, joins |-> <<>>, laterals |-> <<>>, clauses |-> <<>>,
     stack |-> <<Frame("AND", FALSE)>>, group |-> NoGroupBy, limit |-> FALSE,
     union |-> FALSE, seen |-> {},
     last |-> [groups |-> <<>>, perr |-> FALSE, limit |-> FALSE]]

\* Pending conditions become a dummy group.
Flush(f) ==
    IF f.conds = <<>> THEN f
    ELSE [f EXCEPT !.groups = Append(@, Dummy(f.conds)), !.conds = <<>>]

-----------------------------------------------------------------------------
(* The predicate tree *)

Node(kind, kids, leaf) == [kind |-> kind, kids |-> kids, leaf |-> leaf]

NoTree == Node("none", <<>>, <<>>)

\* AND binds tighter than OR: cut the list before every OR but the first.
Combine(nodes, ops) ==
    LET starts == SelectSeq([i \in 1..Len(nodes) |-> i],
                            LAMBDA i : i = 1 \/ ops[i] = "OR")
        upto(k) == IF k = Len(starts) THEN Len(nodes) ELSE starts[k + 1] - 1
        And(ns) == IF Len(ns) = 1 THEN ns[1] ELSE Node("and", ns, <<>>)
        parts == [k \in 1..Len(starts) |->
                     And(SubSeq(nodes, starts[k], upto(k)))]
    IN  CASE nodes = <<>> -> NoTree
          [] nodes # <<>> /\ Len(parts) = 1 -> parts[1]
          [] OTHER -> Node("or", parts, <<>>)

RECURSIVE PredicateTree(_)
PredicateTree(groups) ==
    LET Child(c) == IF c.kind = "nested" THEN PredicateTree(c.nested)
                    ELSE Node("leaf", <<>>, c)
        Kept(g) == SelectSeq([i \in 1..Len(g.conds) |->
                                 [n |-> Child(g.conds[i]), op |-> g.conds[i].op]],
                             LAMBDA x : x.n # NoTree)
        Bracket(g, n) == IF g.neg
                         THEN Node("not", <<Node("group", <<n>>, <<>>)>>, <<>>)
                         ELSE Node("group", <<n>>, <<>>)
        Nodes(xs) == [i \in 1..Len(xs) |-> xs[i].n]
        Ops(xs) == [i \in 1..Len(xs) |-> xs[i].op]
        Items(g) ==
            LET kept == Kept(g)
            IN  IF kept = <<>> \/ g.dummy THEN kept
                ELSE <<[n |-> Bracket(g, Combine(Nodes(kept), Ops(kept))),
                        op |-> g.op]>>
        all == FlattenSeq([i \in 1..Len(groups) |-> Items(groups[i])])
    IN  Combine(Nodes(all), Ops(all))

-----------------------------------------------------------------------------
(* Queries *)

\* A query attached to another keeps its conditions as they were, and shares
\* its column list and its joins with the builder it came from; LIMIT and
\* GROUP BY are not taken along.
Attached(a) ==
    [cols |-> b["sub"].cols, joins |-> b["sub"].joins,
     laterals |-> b["sub"].laterals, clauses |-> b["sub"].clauses,
     groups |-> a.groups, perr |-> a.perr, group |-> NoGroupBy,
     limit |-> FALSE, union |-> FALSE]

\* The query a builder last assembled, with the lists it still shares.
LastQuery(x) ==
    [cols |-> b[x].cols, joins |-> b[x].joins,
     laterals |-> b[x].laterals, clauses |-> b[x].clauses,
     groups |-> b[x].last.groups, perr |-> b[x].last.perr,
     group |-> b[x].group, limit |-> b[x].last.limit, union |-> b[x].union]

\* buildQuery: pending conditions are flushed, then everything is assembled.
Assembled(x) ==
    LET f == Flush(b[x].stack[1])
    IN  [LastQuery(x) EXCEPT !.groups = f.groups, !.perr = f.perr,
                             !.limit = b[x].limit]

-----------------------------------------------------------------------------
(* Depth validation, before anything is copied or rendered *)

RECURSIVE ValidGroups(_, _), ValidQuery(_, _)

ValidGroups(groups, depth) ==
    \A i \in 1..Len(groups) :
        LET g == groups[i]
            d == IF g.dummy THEN depth ELSE depth + 1
        IN  /\ d <= MaxDepth
            /\ \A j \in 1..Len(g.conds) :
                   LET c == g.conds[j]
                   IN  /\ ValidGroups(c.nested, IF g.dummy THEN d + 1 ELSE d)
                       /\ c.sub # <<>> => ValidQuery(Attached(c.sub[1]), d + 1)

ValidQuery(q, depth) ==
    /\ depth <= MaxDepth
    /\ q.union => ValidQuery(LastQuery("sub"), depth + 1)
    /\ ~q.perr
    /\ ValidGroups(q.groups, depth)
    /\ \A j \in Range(q.joins \o q.laterals) :
           j.sub # <<>> => ValidQuery(Attached(j.sub[1]), depth + 1)

-----------------------------------------------------------------------------
(* Rendering.  A piece of a statement: its text, the arguments it returns,  *)
(* the placeholder counter after it, the positions it reports for its       *)
(* conditions, and whether it failed.                                       *)

Piece(toks, vals, n) ==
    [toks |-> toks, vals |-> vals, n |-> n, pos |-> {}, err |-> FALSE]

Failed(n) == [Piece(<<>>, <<>>, n) EXCEPT !.err = TRUE]

Word(w) == [t |-> w, id |-> 0, body |-> <<>>, num |-> 0, want |-> <<>>]

\* One placeholder for each value, numbered from the shared counter.
Holes(vals, n) ==
    [k \in 1..Len(vals) |->
        [t |-> "?", id |-> 0, body |-> <<>>, num |-> n + k, want |-> vals[k]]]

Args(vals, n) == Piece(Holes(vals, n), vals, n + Len(vals))

\* p followed by q: the caller appends q's arguments to its own.
Then(p, q) ==
    [toks |-> p.toks \o q.toks, vals |-> p.vals \o q.vals, n |-> q.n,
     pos |-> p.pos \cup q.pos, err |-> p.err \/ q.err]

\* Named parameters expand by occurrence; a name without a value is an error.
RawCond(c, n) ==
    IF \A k \in 1..Len(c.names) : c.names[k] \in 1..Len(c.vals)
    THEN Args([k \in 1..Len(c.names) |-> c.vals[c.names[k]]], n)
    ELSE Failed(n)

\* Mutant: the language is bound once for two placeholders.
FullTextOnce(c, n, base) ==
    LET lang == <<c.id, 0>>
    IN  IF base THEN Failed(n)
        ELSE Piece(Holes(<<lang, lang, c.vals[1]>>, n), <<lang, c.vals[1]>>, n + 3)

\* PostgreSQL binds the language once per column and once with the term.
FullText(c, n, base) ==
    LET lang == <<c.id, 0>>
    IN  CASE base -> Failed(n)
          [] ~base /\ dialect = "postgres" -> Args(<<lang, lang, c.vals[1]>>, n)
          [] OTHER -> Args(c.vals, n)

\* The tables a star list names: every joined one, and the query's own when
\* a join other than a clause brings it in.
StarTables(q) ==
    {j.table : j \in Range(q.clauses \o q.laterals \o q.joins)}
        \cup {"t" : j \in Range(q.laterals \o q.joins)}

\* Select: the requested columns, or a star for every joined table.  The
\* strategy remembers in seen the tables it has listed and skips them.  A raw
\* column binds its values when it has as many marks.
Select(q, seen, n) ==
    LET Column(p, c) ==
            IF Len(c.vals) \in {0, c.marks} THEN Then(p, Args(c.vals, p.n))
            ELSE Failed(n)
        stars == Cardinality(StarTables(q) \ seen)
    IN  CASE q.cols # <<>> ->
                 FoldLeft(Column, Piece(<<Word("COLS")>>, <<>>, n), q.cols)
          [] q.cols = <<>> /\ StarTables(q) = {} -> Piece(<<Word("*")>>, <<>>, n)
          [] OTHER -> Piece([i \in 1..stars |-> Word("table.*")], <<>>, n)

RECURSIVE Build(_, _, _), Join(_, _), RenderPredicates(_, _, _, _), Walk(_, _, _, _)

\* JOIN: the clauses first, then lateral joins, then plain ones.  An error
\* of a joined query's own Build is discarded.
Join(q, n) ==
    LET On(p, c) == Then(Then(p, Piece(<<Word("ON")>>, <<>>, p.n)),
                         Args(c.vals, p.n))
        Sub(p, j) == IF j.sub = <<>> THEN Then(p, Piece(<<Word("JOIN")>>, <<>>, p.n))
                     ELSE LET s == Build(Attached(j.sub[1]), {}, p.n)
                          IN  Then(p, [s EXCEPT !.err = FALSE, !.pos = {},
                                  !.toks = <<[Word("JOIN") EXCEPT !.body = s.toks]>>])
    IN  FoldLeft(Sub,
                 FoldLeft(On, Piece(<<>>, <<>>, n), q.clauses),
                 q.laterals \o q.joins)

\* What one condition emits.
LeafBody(c, n, base) ==
    CASE c.kind = "raw" -> RawCond(c, n)
      [] c.kind = "fulltext" -> FullText(c, n, base)
      [] c.kind \in {"sub", "exists"} -> Build(Attached(c.sub[1]), {}, n)
      [] OTHER -> Args(c.vals, n)

\* The condition's token, and the position of each of its arguments: offset
\* is the number of arguments the statement has before it.
Leaf(id, p, offset) ==
    [p EXCEPT !.toks = <<[Word("leaf") EXCEPT !.id = id, !.body = p.toks]>>,
              !.pos = {<<id, k, offset + k>> : k \in 1..Len(p.vals)}]

Bracketed(node, p) ==
    CASE node.kind = "group" -> [p EXCEPT !.toks = <<Word("(")>> \o @ \o <<Word(")")>>]
      [] node.kind = "not" -> [p EXCEPT !.toks = <<Word("NOT")>> \o @]
      [] OTHER -> p

\* One traversal emits text, arguments and argument positions.
Walk(node, n, offset, base) ==
    LET glue == IF node.kind \in {"and", "or"}
                THEN <<Word(IF node.kind = "and" THEN "AND" ELSE "OR")>> ELSE <<>>
        Kid(p, kid) ==
            Then([p EXCEPT !.toks = IF @ = <<>> THEN @ ELSE @ \o glue],
                 Walk(kid, p.n, offset + Len(p.vals), base))
    IN  IF node.kind = "leaf"
        THEN Leaf(node.leaf.id, LeafBody(node.leaf, n, base), offset)
        ELSE Bracketed(node, FoldLeft(Kid, Piece(<<>>, <<>>, n), node.kids))

Rendered(tree, n, offset, base) ==
    IF tree = NoTree THEN Piece(<<>>, <<>>, n) ELSE Walk(tree, n, offset, base)

RenderPredicates(groups, n, offset, base) ==
    Rendered(PredicateTree(groups), n, offset, base)

\* A clause's tokens are kept together, so that a reader of the text can
\* find the WHERE clause of the statement.
Clause(w, p) ==
    IF p.toks = <<>> /\ ~p.err THEN p
    ELSE [p EXCEPT !.toks = <<[Word(w) EXCEPT !.body = p.toks]>>]

\* The clauses of a statement behind what it has so far, p.
WithWhere(p, groups, base) ==
    Then(p, Clause("WHERE", RenderPredicates(groups, p.n, Len(p.vals), base)))

WithHaving(p, g) ==
    IF ~g.set THEN p
    ELSE Then(p, [Clause("HAVING", RenderPredicates(<<Dummy(g.having)>>, p.n,
                                                    Len(p.vals), TRUE))
                  EXCEPT !.err = FALSE])

WithJoin(p, q) == Then(p, Join(q, p.n))

WithLimit(p, q) == IF q.limit THEN Then(p, Piece(<<Word("LIMIT")>>, <<>>, p.n)) ELSE p

\* SELECT, JOIN, WHERE, GROUP BY / HAVING, LIMIT, in the order of the values.
Build(q, seen, n) ==
    IF ~ValidQuery(q, 0) THEN Failed(n)
    ELSE WithLimit(WithHaving(WithWhere(WithJoin(Select(q, seen, n), q),
                                        q.groups, FALSE), q.group), q)

-----------------------------------------------------------------------------
(* Mandatory predicates and statements *)

TenantLeaf == 2 * MaxCost + 3
AliveLeaf  == 2 * MaxCost + 4
LostLeaf   == 2 * MaxCost + 7
UnlistedLeaf == 2 * MaxCost + 10

Tenant == Cond("comparison", "AND", TenantLeaf, <<<<TenantLeaf, 1>>>>)
Alive  == Cond("null", "AND", AliveLeaf, <<>>)

\* Mutant: the caller's conditions are not bracketed first.
PolicyGroupsBare(groups) ==
    IF mode = "strict" THEN Append(groups, Dummy(<<Tenant, Alive>>)) ELSE groups

\* policyBuilder: on a copy, so that the caller's conditions stay as they
\* are.  Strict settings bracket what the caller asked for (GroupWhere) before
\* the mandatory conditions; the soft-delete filter alone is appended bare.
PolicyGroups(groups) ==
    CASE mode = "plain"  -> groups
      [] mode = "soft"   -> Append(groups, Dummy(<<Alive>>))
      [] mode = "strict" ->
             (IF groups = <<>> THEN <<>>
              ELSE <<Group(<<Nested(groups)>>, "AND", FALSE, FALSE)>>)
             \o <<Dummy(<<Tenant, Alive>>)>>

Governed(q) == [q EXCEPT !.groups = PolicyGroups(@)]

\* Mutant: the positions count from the branch's own first argument.
ShiftNone(pos, k) == pos

\* The positions of a branch move by the arguments of the branches before it.
Shift(pos, k) == {<<p[1], p[2], p[3] + k>> : p \in pos}

ListedBy(q) == IF q.cols = <<>> THEN StarTables(q) ELSE {}

\* SELECT: the UNION branches in order, the query itself last, all through
\* one strategy.
UnionWith(first, own) ==
    [Then(Then(first, Piece(<<Word("UNION")>>, <<>>, first.n)), own)
        EXCEPT !.pos = Shift(own.pos, Len(first.vals))]

AfterUnion(first, q, seen) == UnionWith(first, Build(q, seen, first.n))

SelectStatement(q, seen) ==
    LET u == LastQuery("sub")
    IN  CASE ~ValidQuery(q, 0) -> Failed(0)
          [] ~q.union -> Build(q, seen, 0)
          [] OTHER -> AfterUnion(Build(u, seen, 0), q, seen \cup ListedBy(u))

SetValues == <<<<2 * MaxCost + 5, 1>>, <<2 * MaxCost + 5, 2>>>>
Increment == <<<<2 * MaxCost + 6, 1>>>>

\* UPDATE: joins, assigned values, assigned expressions (numbered from the
\* arguments so far, and as many placeholders skipped), then WHERE with the
\* dialect-independent renderer.
WithSet(p) == Then(p, Args(SetValues, p.n))

WithIncrement(p) ==
    Then(p, Piece(Holes(Increment, Len(p.vals)), Increment, p.n + Len(Increment)))

UpdateStatement(q) ==
    IF ~ValidQuery(q, 0) THEN Failed(0)
    ELSE WithWhere(WithIncrement(WithSet(Join(q, 0))), q.groups, TRUE)

\* DELETE: what the joins return is not kept.
DeleteStatement(q) ==
    IF ~ValidQuery(q, 0) THEN Failed(0)
    ELSE WithWhere([Join(q, 0) EXCEPT !.vals = <<>>], q.groups, TRUE)

\* INSERT ... SELECT renders the other query whole, on a strategy of its own.
InsertUsing(q) == Build([q EXCEPT !.union = FALSE], {}, 0)

-----------------------------------------------------------------------------
(* The calls *)

NotBuilt == [stmt |-> "none", piece |-> Piece(<<>>, <<>>, 0), ref |-> <<>>,
             unbound |-> FALSE]

Init ==
    /\ \E s \in Settings : dialect = s[1] /\ mode = s[2]
    /\ b = [x \in Builders |-> NewBuilder]
    /\ out = NotBuilt
    /\ cost = 0 /\ subs = 0

Tick(x, k) ==
    /\ cost' = cost + k + (IF out = NotBuilt THEN 0 ELSE 1)
    /\ cost' <= MaxCost
    /\ x = "sub" => subs < MaxSub
    /\ subs' = IF x = "sub" THEN subs + 1 ELSE subs
    /\ out' = NotBuilt
    /\ UNCHANGED <<dialect, mode>>

Top(x) == b[x].stack[Len(b[x].stack)]

SetTop(x, f) == b' = [b EXCEPT ![x].stack[Len(b[x].stack)] = f]

Fresh == 2 * cost + 1

\* A reference item: one condition, or a bracketed list of items.
Said(op, neg, id, kids) == [op |-> op, neg |-> neg, id |-> id, kids |-> kids]

\* Each family of calls stores a condition of its own shape.
Values(id, k) == [i \in 1..k |-> <<id, i>>]

Comparison(op, id, k) == Cond("comparison", op, id, Values(id, k))
RawText(op, id, k, names) == [Cond("raw", op, id, Values(id, k)) EXCEPT !.names = names]
InList(op, id, k) == Cond("comparison", op, id, Values(id, k))
IsNull(op, id) == Cond("comparison", op, id, <<>>)
Columns(op, id) == Cond("comparison", op, id, <<>>)
Between(op, id) == Cond("between", op, id, Values(id, 2))
BetweenColumns(op, id) == Cond("between", op, id, <<>>)
Search(op, id) == Cond("fulltext", op, id, Values(id, 1))
DatePart(op, id) == Cond("function", op, id, Values(id, 1))
InQuery(op, id, a) == [Cond("sub", op, id, <<>>) EXCEPT !.sub = <<a>>]
ExistsQuery(op, id, a) == [Cond("exists", op, id, <<>>) EXCEPT !.sub = <<a>>]

AddCond(f, c) ==
    [f EXCEPT !.conds = Append(@, c),
              !.ref = Append(@, Said(c.op, FALSE, c.id, <<>>))]

\* A call that leaves no condition behind: its place in the reference is
\* taken by a condition that no text contains.
Lose(f) == [f EXCEPT !.ref = Append(@, Said("AND", FALSE, LostLeaf, <<>>))]

\* addWhereIn knows a list by its Go type: []any, the basic slices it names.
\* A value of any other type leaves no condition behind, and no error.
Unlisted(f) == [f EXCEPT !.ref = Append(@, Said("AND", FALSE, UnlistedLeaf, <<>>))]

\* The facade remembers the first refused call; most calls after it do
\* nothing, the others (Add) still reach the builder.
Add(x, c) == SetTop(x, AddCond(Top(x), c))
AddUnlessRefused(x, c) == SetTop(x, IF Top(x).err THEN Top(x) ELSE AddCond(Top(x), c))

\* One value, or a slice that becomes a list of placeholders.
Where(x) ==
    /\ Tick(x, 1)
    /\ AddUnlessRefused(x, Comparison("AND", Fresh, 1))

WhereSlice(x) ==
    /\ Tick(x, 2)
    /\ AddUnlessRefused(x, Comparison("AND", Fresh, 2))

OrWhere(x) ==
    /\ Tick(x, 1)
    /\ AddUnlessRefused(x, Comparison("OR", Fresh, 1))

\* A raw text may use a name several times and in any order; it may also use
\* a name that has no value.
WhereRaw(x, names) ==
    /\ Tick(x, 2)
    /\ AddUnlessRefused(x, RawText("AND", Fresh, 2, names))

OrWhereRaw(x) ==
    /\ Tick(x, 2)
    /\ AddUnlessRefused(x, RawText("OR", Fresh, 2, <<2, 1, 2>>))

\* JSON predicates are raw texts on PostgreSQL and refused elsewhere.
WhereJSON(x) ==
    /\ Tick(x, 2)
    /\ IF dialect = "postgres"
       THEN AddUnlessRefused(x, RawText("AND", Fresh, 2, <<1, 2>>))
       ELSE SetTop(x, IF Top(x).err THEN Top(x) ELSE Lose([Top(x) EXCEPT !.err = TRUE]))

\* One name per column, each bound to the same pattern.
WhereTextSearch(x, op) ==
    /\ Tick(x, 2)
    /\ AddUnlessRefused(x, RawText(op, Fresh, 2, <<1, 2>>))

\* What an IN is given: a slice of a listed type, a basic slice that is not
\* listed ([]int16), or anything else (a slice of a named type, a *Query).
InValues == {"listed", "unlisted", "opaque"}

\* strictInValue: only strict settings look at the value, and only for a
\* slice that can be copied; the type is left to addWhereIn.
WhereIn(x, value, k) ==
    /\ Tick(x, 2)
    /\ CASE value = "listed" -> Add(x, InList("AND", Fresh, k))
         [] value = "opaque" /\ mode = "strict" ->
                SetTop(x, Lose([Top(x) EXCEPT !.err = TRUE]))
         [] OTHER -> SetTop(x, Unlisted(Top(x)))

WhereColumn(x) ==
    /\ Tick(x, 2)
    /\ Add(x, Columns("AND", Fresh))

\* Several comparisons, each appended as a condition of its own: only
\* WhereAll and WhereAny bracket theirs.
WhereColumns(x, op) ==
    /\ Tick(x, 2)
    /\ SetTop(x, IF Top(x).err THEN Top(x)
                 ELSE AddCond(AddCond(Top(x), Columns(op, Fresh)),
                              Columns(op, Fresh + 1)))

WhereNull(x) ==
    /\ Tick(x, 2)
    /\ Add(x, IsNull("OR", Fresh))

WhereBetween(x) ==
    /\ Tick(x, 2)
    /\ Add(x, Between("AND", Fresh))

WhereBetweenColumns(x) ==
    /\ Tick(x, 2)
    /\ Add(x, BetweenColumns("AND", Fresh))

WhereFullText(x) ==
    /\ Tick(x, 2)
    /\ Add(x, Search("AND", Fresh))

WhereDatePart(x) ==
    /\ Tick(x, 2)
    /\ AddUnlessRefused(x, DatePart("AND", Fresh))

\* An operator, direction or raw text that does not validate is remembered,
\* and every Build of this query fails.
Refuse(x) ==
    /\ Tick(x, 2)
    /\ SetTop(x, Lose([Top(x) EXCEPT !.err = TRUE]))

\* WhereAll / WhereAny: several comparisons, bracketed.
BracketedPair(f, op, c, d) ==
    [Flush(f) EXCEPT !.groups = Append(@, Group(<<c, d>>, "AND", FALSE, FALSE)),
                     !.ref = Append(@, Said("AND", FALSE, 0,
                         <<Said(op, FALSE, c.id, <<>>), Said(op, FALSE, d.id, <<>>)>>))]

WhereConditions(x, op) ==
    /\ Tick(x, 2)
    /\ SetTop(x, IF Top(x).err THEN Top(x)
                 ELSE BracketedPair(Top(x), op, Comparison(op, Fresh, 1),
                                    Comparison(op, Fresh + 1, 1)))

\* WhereGroup, OrWhereGroup, WhereNot, OrWhereNot: the callback works on
\* clause storage of its own.  Beyond the depth limit it is not called.
BeginGroup(x, op, neg) ==
    /\ Tick(x, 1)
    /\ \/ /\ Top(x).err
          /\ UNCHANGED b
       \/ /\ ~Top(x).err /\ Len(b[x].stack) > MaxDepth
          /\ SetTop(x, Lose([Top(x) EXCEPT !.perr = TRUE]))
       \/ /\ ~Top(x).err /\ Len(b[x].stack) <= MaxDepth
          /\ b' = [b EXCEPT ![x].stack = Append(@, Frame(op, neg))]

\* The callback returned: its clauses become one bracketed condition of the
\* parent, behind what the parent had pending.
EndGroup(x) ==
    LET k == Len(b[x].stack)
        child == Flush(b[x].stack[k])
        up == b[x].stack[k - 1]
        flushed == [Flush(up) EXCEPT !.perr = @ \/ child.perr,
                                     !.err = @ \/ child.err]
        merged == IF child.groups = <<>> THEN flushed
                  ELSE [flushed EXCEPT
                          !.groups = Append(@, Group(<<Nested(child.groups)>>,
                                                     child.op, child.neg, FALSE))]
    IN  /\ k > 1
        /\ b' = [b EXCEPT ![x].stack = Append(SubSeq(@, 1, k - 2),
                 [merged EXCEPT !.ref = IF child.ref = <<>> THEN @ ELSE
                     Append(@, Said(child.op, child.neg, 0, child.ref))])]
        /\ out' = NotBuilt
        /\ UNCHANGED <<dialect, mode, cost, subs>>

\* The callback panicked and the application recovered further out: the
\* deferred restore has put the parent's storage back.
PanicGroup(x) ==
    /\ Tick(x, 2)
    /\ \E k \in 1..(Len(b[x].stack) - 1) :
           b' = [b EXCEPT ![x].stack = SubSeq(@, 1, k)]

\* The other query as it is handed over: its pending conditions become a
\* group of its own storage as well.
HandOver ==
    LET f == b["sub"].stack[1]
    IN  [f EXCEPT !.groups = Append(@, Dummy(f.conds)), !.conds = <<>>]

\* A query used in a condition: its conditions and its predicate error are
\* taken along, an error its own facade remembers is not.
Handed == [groups |-> HandOver.groups, perr |-> HandOver.perr]

Attach(c) ==
    /\ Tick("main", 2)
    /\ Len(b["sub"].stack) = 1
    /\ b' = [b EXCEPT !["sub"].stack[1] = HandOver,
                      !["main"].stack[Len(b["main"].stack)] = AddCond(Top("main"), c)]

WhereInSubQuery == Attach(InQuery("AND", Fresh, Handed))
WhereExists == Attach(ExistsQuery("OR", Fresh, Handed))

\* A joined query: its predicate error is not taken along.
JoinQuery(list) ==
    LET j == [table |-> "s", vals |-> <<>>,
              sub |-> <<[groups |-> HandOver.groups, perr |-> FALSE]>>]
        handed == [b EXCEPT !["sub"].stack[1] = HandOver]
    IN  /\ Tick("main", 2)
        /\ Len(b["sub"].stack) = 1
        /\ b' = IF list = "lateral"
                THEN [handed EXCEPT !["main"].laterals = Append(@, j)]
                ELSE [handed EXCEPT !["main"].joins = Append(@, j)]

\* Join, LeftJoin, RightJoin, CrossJoin of a table.
JoinTable(x) ==
    /\ Tick(x, 2)
    /\ b' = [b EXCEPT ![x].joins = Append(@, [table |-> "u", vals |-> <<>>, sub |-> <<>>])]

\* JoinQuery with a callback: ON conditions, and conditions that bind a value.
JoinClause(x) ==
    /\ Tick(x, 2)
    /\ b' = [b EXCEPT ![x].clauses =
                Append(@, [table |-> "c", vals |-> <<<<Fresh, 1>>>>, sub |-> <<>>])]

\* Select, SelectRaw and the aggregates; a raw column may bind too few values.
SelectColumn(x, marks, vals) ==
    /\ Tick(x, 2)
    /\ b' = [b EXCEPT ![x].cols = Append(@, [marks |-> marks,
                 vals |-> [k \in 1..vals |-> <<Fresh, k>>]])]

\* GroupBy starts over; Having before it is a programming error that panics.
GroupBy(x) ==
    /\ Tick(x, 2)
    /\ b' = [b EXCEPT ![x].group = [set |-> TRUE, having |-> <<>>]]

Having(x, op) ==
    /\ Tick(x, 1)
    /\ b[x].group.set
    /\ b' = [b EXCEPT ![x].group.having = Append(@, Comparison(op, Fresh, 1))]

Limit(x) ==
    /\ Tick(x, 2)
    /\ b' = [b EXCEPT ![x].limit = TRUE]

\* Union keeps a pointer to the query the other builder last assembled.
LastOf(x) ==
    LET q == Assembled(x)
    IN  [groups |-> q.groups, perr |-> q.perr, limit |-> q.limit]

Union ==
    /\ Tick("main", 2)
    /\ Len(b["sub"].stack) = 1 /\ ~b["main"].union
    /\ b' = [b EXCEPT !["main"].union = TRUE,
                      !["sub"].stack[1] = Flush(@), !["sub"].last = LastOf("sub")]

\* Mutant: the policy's conditions are added to the caller's own.
StorageAfterGoverned(f) == [Flush(f) EXCEPT !.groups = PolicyGroups(@)]

\* What a build leaves in the caller's storage: the pending conditions as a
\* group.  The policy works on a copy (CopyStateToSelect).
StorageAfter(f) == Flush(f)

\* Building assembles the caller's query, whatever becomes of the statement.
BuiltFrom(x, stmt, piece) ==
    /\ Len(b[x].stack) = 1
    /\ out.stmt \in {"none", stmt}
    /\ UNCHANGED <<dialect, mode, cost, subs>>
    /\ out' = [stmt |-> stmt,
               piece |-> IF b["main"].stack[1].err THEN Failed(0) ELSE piece,
               ref |-> b[x].stack[1].ref,
               unbound |-> stmt = "delete" /\ Join(Assembled("main"), 0).vals # <<>>]
    /\ b' = [b EXCEPT ![x].stack[1] = StorageAfter(@), ![x].last = LastOf(x),
                      ![x].seen = IF stmt = "select" /\ mode = "plain"
                                  THEN @ \cup ListedBy(LastQuery(x))
                                         \cup (IF b[x].union THEN ListedBy(LastQuery("sub"))
                                               ELSE {})
                                  ELSE @]

BuildSelect ==
    BuiltFrom("main", "select",
        SelectStatement(Governed(Assembled("main")),
                        IF mode = "plain" THEN b["main"].seen ELSE {}))

BuildUpdate == BuiltFrom("main", "update", UpdateStatement(Governed(Assembled("main"))))

BuildDelete == BuiltFrom("main", "delete", DeleteStatement(Governed(Assembled("main"))))

\* Strict settings refuse INSERT ... SELECT.
BuildInsertUsing ==
    BuiltFrom("sub", "insert",
        IF mode = "strict" THEN Failed(0) ELSE InsertUsing(Assembled("sub")))

\* INSERT, INSERT ... ON CONFLICT: one placeholder for every row and column
\* of the union of the rows' columns, in column order, a row without the
\* column binding NULL; then the values of the conflict's assignments,
\* numbered from the arguments so far.
Rows == {<<{1, 2}>>, <<{1}, {2}>>, <<{2}, {1, 2}>>}

RowValue(row, c) == IF c \in row THEN <<2 * MaxCost + 8, c>> ELSE <<0, 0>>

RowArgs(rows) ==
    LET cols == SelectSeq(<<1, 2>>, LAMBDA c : \E r \in Range(rows) : c \in r)
    IN  FlattenSeq([i \in 1..Len(rows) |->
            [j \in 1..Len(cols) |-> RowValue(rows[i], cols[j])]])

WithConflict(p, k) ==
    LET extra == Values(2 * MaxCost + 9, k)
    IN  Then(p, Piece(Holes(extra, Len(p.vals)), extra, p.n))

InsertRows(rows, k) == WithConflict(Args(RowArgs(rows), 0), k)

\* A builder of its own: the query's conditions play no part, its remembered
\* error does.
BuildInsertRows(rows, k) ==
    /\ out = NotBuilt /\ cost + 2 <= MaxCost
    /\ out' = [NotBuilt EXCEPT !.stmt = "rows",
                   !.piece = IF b["main"].stack[1].err THEN Failed(0) ELSE InsertRows(rows, k)]
    /\ UNCHANGED <<dialect, mode, b, cost, subs>>

Connectors == {"AND", "OR"}

Next ==
    \/ \E x \in Builders : Where(x)
    \/ WhereSlice("main")
    \/ \E x \in Builders : OrWhere(x)
    \/ \E names \in {<<2, 1, 2>>, <<1, 3>>} : WhereRaw("main", names)
    \/ OrWhereRaw("sub")
    \/ WhereJSON("main")
    \/ \E op \in Connectors : WhereTextSearch("main", op)
    \/ \E k \in {0, 2} : WhereIn("main", "listed", k)
    \/ \E value \in InValues \ {"listed"} : WhereIn("main", value, 1)
    \/ WhereColumn("main")
    \/ \E op \in Connectors : WhereColumns("main", op)
    \/ WhereNull("main")
    \/ WhereBetween("main")
    \/ WhereBetweenColumns("main")
    \/ WhereFullText("main")
    \/ WhereDatePart("main")
    \/ \E op \in Connectors : WhereConditions("main", op)
    \/ \E x \in Builders : Refuse(x)
    \/ \E op \in Connectors, neg \in BOOLEAN : BeginGroup("main", op, neg)
    \/ BeginGroup("sub", "OR", TRUE)
    \/ \E x \in Builders : EndGroup(x)
    \/ \E x \in Builders : PanicGroup(x)
    \/ \E x \in Builders : JoinTable(x)
    \/ \E x \in Builders : JoinClause(x)
    \/ \E x \in Builders, mv \in {<<0, 0>>, <<1, 1>>, <<2, 1>>} :
           SelectColumn(x, mv[1], mv[2])
    \/ \E x \in Builders : GroupBy(x)
    \/ \E x \in Builders, op \in Connectors : Having(x, op)
    \/ \E x \in Builders : Limit(x)
    \/ WhereInSubQuery
    \/ WhereExists
    \/ \E list \in {"lateral", "join"} : JoinQuery(list)
    \/ Union
    \/ BuildSelect
    \/ BuildUpdate
    \/ BuildDelete
    \/ BuildInsertUsing
    \/ \E rows \in Rows, k \in 0..1 : BuildInsertRows(rows, k)

Spec == Init /\ [][Next]_vars

-----------------------------------------------------------------------------
(* Reading a statement back *)

Returned(stmts) == out.stmt \in stmts /\ ~out.piece.err

\* Every placeholder of a text, in the order of the text.
RECURSIVE Placeholders(_)
Placeholders(toks) ==
    FlattenSeq([i \in 1..Len(toks) |->
        IF toks[i].t = "?" THEN <<toks[i]>> ELSE Placeholders(toks[i].body)])

\* A clause of the statement itself: behind the last UNION.
ClauseText(toks, w) ==
    LET own == {i \in 1..Len(toks) : \A k \in i..Len(toks) : toks[k].t # "UNION"}
        at == {i \in own : toks[i].t = w}
    IN  IF at = {} THEN <<>> ELSE toks[CHOOSE i \in at : TRUE].body

WhereText(toks) == ClauseText(toks, "WHERE")

\* What the database makes of it when exactly the conditions in truth hold:
\* OR of ANDs outside brackets, NOT binding tightest.
RECURSIVE Meaning(_, _)
Meaning(toks, truth) ==
    LET n == Len(toks)
        Count(w, i) == Cardinality({k \in 1..(i - 1) : toks[k].t = w})
        At(w) == {i \in 1..n : toks[i].t = w /\ Count("(", i) = Count(")", i)}
        Parts(w) ==
            LET ends == At(w) \cup {n + 1}
            IN  {SubSeq(toks, 1 + (IF {k \in At(w) : k < e} = {} THEN 0
                                   ELSE CHOOSE k \in At(w) : k < e /\
                                        \A j \in At(w) : j < e => j <= k), e - 1) : e \in ends}
    IN  CASE n = 0 -> TRUE
          [] n > 0 /\ At("OR") # {} -> \E p \in Parts("OR") : Meaning(p, truth)
          [] n > 0 /\ At("OR") = {} /\ At("AND") # {} ->
                 \A p \in Parts("AND") : Meaning(p, truth)
          [] OTHER ->
                 CASE toks[1].t = "NOT" -> ~Meaning(SubSeq(toks, 2, n), truth)
                   [] toks[1].t = "(" -> Meaning(SubSeq(toks, 2, n - 1), truth)
                   [] OTHER -> toks[1].id \in truth

\* What the calls said, under the same reading of AND and OR.
RECURSIVE Intended(_, _)
Intended(items, truth) ==
    LET n == Len(items)
        Holds(i) == LET v == IF items[i].kids = <<>> THEN items[i].id \in truth
                             ELSE Intended(items[i].kids, truth)
                    IN  IF items[i].neg THEN ~v ELSE v
    IN  \/ n = 0
        \/ \E i \in 1..n :
              /\ i = 1 \/ items[i].op = "OR"
              /\ \A k \in i..n : (\A m \in (i + 1)..k : items[m].op = "AND") => Holds(k)

RECURSIVE Mentioned(_)
Mentioned(items) ==
    UNION {IF items[i].kids = <<>> THEN {items[i].id} ELSE Mentioned(items[i].kids)
             : i \in 1..Len(items)}

\* The calls that were given what the builder takes, and the groups that
\* still hold one.
RECURSIVE Listed(_)
Listed(items) ==
    LET Kids(i) == Listed(items[i].kids)
        kept == SelectSeq([i \in 1..Len(items) |-> i],
                          LAMBDA i : /\ items[i].id # UnlistedLeaf
                                     /\ items[i].kids # <<>> => Kids(i) # <<>>)
    IN  [j \in 1..Len(kept) |-> [items[kept[j]] EXCEPT !.kids = Kids(kept[j])]]

Mandatory == IF mode = "strict" THEN {TenantLeaf, AliveLeaf} ELSE {}

-----------------------------------------------------------------------------
(* Properties *)

\* Text and arguments agree: read from left to right through every nested
\* query, the placeholders are numbered 1, 2, ... and the k-th argument is
\* the value the caller gave for the k-th placeholder.  A DELETE whose joins
\* bind values is left out: BuildDelete drops them (delete_base.go).
ArgsMatch ==
    Returned({"select", "update", "delete", "insert", "rows"}) /\ ~out.unbound =>
        LET holes == Placeholders(out.piece.toks)
        IN  /\ Len(holes) = Len(out.piece.vals)
            /\ \A k \in 1..Len(holes) : /\ holes[k].num = k
                                         /\ holes[k].want = out.piece.vals[k]

\* The statement's WHERE clause holds exactly when what ref says does, and
\* the mandatory conditions with it.
MeansWhat(ref) ==
    \A truth \in SUBSET (Mentioned(ref) \cup Mandatory) :
        Meaning(WhereText(out.piece.toks), truth)
            <=> Intended(ref, truth) /\ Mandatory \subseteq truth

\* The WHERE clause a statement carries is true exactly when the condition
\* described by the calls is, an IN given a value of a type addWhereIn does
\* not list (wherebuilder.go:277) excepted, which the code drops without an
\* error (under strict settings, if the value is a slice that can be copied):
\* no other call, no group boundary, negation or OR is lost or moved between
\* the WhereBuilder's storage, the predicate tree and the text, and a refused
\* or over-deep call never leaves a weaker statement behind.  The unlisted IN takes nothing else with it: a
\* group that holds only such calls goes, every other one stays where it was.
\* Under strict settings the tenant and soft-delete conditions hold as well,
\* whatever ORs the caller used.
MeaningPreserved ==
    Returned({"select", "update", "delete"}) /\ mode # "soft" =>
        MeansWhat(Listed(out.ref))

\* The argument positions the inspection reports for a condition are the
\* places where the arguments of that condition ended up in the statement,
\* with joins, assignments and UNION branches before them.
PositionsAreArguments ==
    Returned({"select", "update", "delete"}) =>
        \A p \in out.piece.pos :
            /\ p[3] \in 1..Len(out.piece.vals)
            /\ \E tok \in Range(ClauseText(out.piece.toks, "WHERE")
                                \o ClauseText(out.piece.toks, "HAVING")) :
                   /\ tok.id = p[1]
                   /\ Placeholders(tok.body)[p[2]].want = out.piece.vals[p[3]]

\* Building is repeatable: building the same statement again with no call in
\* between returns the same WHERE text, the same arguments and the same
\* positions; the mandatory conditions are not added to the caller's own.
BuildIsRepeatable ==
    [][out # NotBuilt /\ out'.stmt = out.stmt =>
           /\ WhereText(out'.piece.toks) = WhereText(out.piece.toks)
           /\ out'.piece.vals = out.piece.vals
           /\ out'.piece.pos = out.piece.pos
           /\ out'.piece.err = out.piece.err]_vars

\* The soft-delete filter of a governed table holds for every row a statement
\* touches.
SoftDeleteExcluded ==
    Returned({"select", "update", "delete"}) /\ mode = "soft" =>
        \A truth \in SUBSET (Mentioned(out.ref) \cup {AliveLeaf}) :
            Meaning(WhereText(out.piece.toks), truth) => AliveLeaf \in truth

(* Both: each placeholder of the text meets the value written for it,      *)
(* wherever subqueries, unions and policy filters were put in between.     *)
ArgumentsFit == ArgsMatch /\ PositionsAreArguments
=============================================================================
