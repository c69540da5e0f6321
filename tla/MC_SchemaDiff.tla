--------------------------- MODULE MC_SchemaDiff ----------------------------
(***************************************************************************)
(* Schemas of one or two tables, and the declarations of them.  A          *)
(* declaration says nothing that is not so, except where it is invalid or  *)
(* contradicts itself: what it declares complete it declares completely.   *)
(***************************************************************************)
EXTENDS SchemaDiff

NoItems == [n \in {} |-> ""]
Table(columns, indexes, fks, checks) ==
  [column |-> columns, index |-> indexes, foreign_key |-> fks, check |-> checks]
Postgres == <<"postgres", "n1">>
Schema(ns, tables) == [namespace |-> ns, tables |-> tables]

All == {"t1", "t2"}

\* A complete context, and contexts with one defect each.
Context(ns) ==
  [wellFormed |-> TRUE, dialect |-> ns[1], namespace |-> ns[2], scope |-> All,
   inventory |-> TRUE, covers |-> Collections]
Contexts(ns) ==
  LET c == Context(ns)
  IN {c, [c EXCEPT !.wellFormed = FALSE], [c EXCEPT !.inventory = FALSE],
      [c EXCEPT !.covers = @ \ {"identity"}], [c EXCEPT !.covers = @ \ {"column"}],
      [c EXCEPT !.scope = {"t1"}], None}

Bare(t, ns) ==
  [name |-> t, namespace |-> ns, wellFormed |-> TRUE, covers |-> Collections,
   columns |-> <<>>, indexes |-> <<>>, foreign_keys |-> <<>>, checks |-> <<>>]

(***************************************************************************)
(* Tables.                                                                 *)
(***************************************************************************)
EmptyTables(S) == [t \in S |-> Table(NoItems, NoItems, NoItems, NoItems)]
TableSchemas ==
  {Schema(Postgres, EmptyTables(S)) : S \in SUBSET All}
    \cup {Schema(ns, EmptyTables({"t1"})) : ns \in {<<"postgres", "n2">>, <<"mysql", "n1">>}}

\* Declared tables: all, some, or one of them twice.
Listings(S, ns) ==
  LET one == {<<Bare(t, ns)>> : t \in S}
      two == IF S = All THEN {<<Bare("t1", ns), Bare("t2", ns)>>} ELSE {}
      twice == {<<Bare(t, ns), Bare(t, ns)>> : t \in S}
  IN {<<>>} \cup one \cup two \cup twice

Promised(c) == c # None /\ c.wellFormed /\ "identity" \in c.covers /\ c.inventory
Lists(s, S) == S \subseteq Names(s)

\* An identity may be missing, malformed or another's.
DeclareLoosely(r) ==
  UNION {{[context |-> c, tables |-> s] :
            s \in {l \in Listings(DOMAIN r.tables, r.namespace[2])
                     \cup Listings(DOMAIN r.tables, None) \cup Listings(DOMAIN r.tables, "n3")
                     \cup {<<[Bare(t, r.namespace[2]) EXCEPT !.wellFormed = FALSE]>> :
                             t \in DOMAIN r.tables} :
                   Promised(c) => Lists(l, DOMAIN r.tables \cap c.scope)}} :
           c \in Contexts(r.namespace)}

(***************************************************************************)
(* Columns of a table t1.                                                  *)
(***************************************************************************)
One(r) == r.tables["t1"]
T1(columns, indexes, fks, checks) ==
  Schema(Postgres, [t \in {"t1"} |-> Table(columns, indexes, fks, checks)])

Column == [type : {"text", "int"}, nullable : BOOLEAN, expr : {"", "now()"}]
PlainColumn == [type |-> "text", nullable |-> TRUE, expr |-> ""]
ColumnSchemas ==
  {T1([n \in {"c1"} |-> c], NoItems, NoItems, NoItems) : c \in Column}
    \cup {T1([n \in {"c1", "c2"} |-> IF n = "c1" THEN c ELSE PlainColumn], NoItems, NoItems, NoItems) :
            c \in {d \in Column : d.nullable}}
    \cup {T1(NoItems, NoItems, NoItems, NoItems)}

\* The ways to declare a default, and ways to leave it open.
Defaults(expr) ==
  IF expr = "" THEN {<<"none", FALSE, "">>, <<"", FALSE, "">>, <<"none", TRUE, "">>}
  ELSE {<<"expression", TRUE, expr>>, <<"", TRUE, expr>>, <<"", FALSE, "">>, <<"none", FALSE, expr>>}
Declared(n, c, d) ==
  [name |-> n, type |-> c.type, nullable |-> c.nullable, state |-> d[1], has |-> d[2], expr |-> d[3]]
Listed(r, S, d) ==
  LET column(n) ==
        Declared(n, One(r).column[n], IF n = "c1" THEN d ELSE <<"none", FALSE, "">>)
      first == IF "c1" \in S THEN <<column("c1")>> ELSE <<>>
  IN first \o (IF "c2" \in S THEN <<column("c2")>> ELSE <<>>)
Columnwise(r) ==
  LET S == DOMAIN One(r).column
      defaults == IF "c1" \in S THEN Defaults(One(r).column["c1"].expr) ELSE {<<"none", FALSE, "">>}
      whole == {Listed(r, S, d) : d \in defaults}
  IN [whole |-> whole \cup {l \o <<Declared("c1", [PlainColumn EXCEPT !.type = "int"], <<"none", FALSE, "">>)>> :
                              l \in {m \in whole : "c1" \in S}},
      part |-> {Listed(r, P, d) : P \in SUBSET S, d \in defaults}]

OneTable(c, t) == [context |-> c, tables |-> <<t>>]
Thorough(c, covers, kind) == c # None /\ kind \in c.covers \cap covers

DeclareColumns(r) ==
  UNION {{OneTable(c, [Bare("t1", ns) EXCEPT !.columns = l, !.covers = covers]) :
            l \in IF Thorough(c, covers, "column") THEN Columnwise(r).whole ELSE Columnwise(r).part} :
           c \in {Context(Postgres), [Context(Postgres) EXCEPT !.covers = @ \ {"column"}], None},
           covers \in {Collections, Collections \ {"column"}},
           ns \in {"n1"}}
  \cup {OneTable(None, [Bare("t1", None) EXCEPT !.columns = l, !.covers = {}]) : l \in Columnwise(r).part}

(***************************************************************************)
(* Indexes and constraints of t1, which has a column c1.                   *)
(***************************************************************************)
C1 == [n \in {"c1"} |-> PlainColumn]
\* text: what the catalog says of an index beyond what is represented of it.
Index == {i \in [def : {"d1", "d2"}, on : {{"c1"}}, extended : {"e1", "e2"}, text : {"r1", "r2"}] :
            i.text = "r2" => i.def = "d1" /\ i.extended = "e1"}
Constraint == [def : {"d1", "d2"}, on : {{"c1"}}, validation : {"validated", "not_validated"}]
PlainCheck == [def |-> "d1", on |-> {}, validation |-> "validated"]
MaybeOne(names, D) == {NoItems} \cup UNION {{[n \in {m} |-> d] : d \in D} : m \in names}

IndexSchemas == {T1(C1, i, NoItems, NoItems) : i \in MaybeOne({"i1"}, Index)}
ConstraintSchemas ==
  {T1(C1, NoItems, f, k) : f \in MaybeOne({"k1"}, Constraint),
                           k \in MaybeOne({"k1", "k2"}, {PlainCheck}) \ MaybeOne({"k1"}, {PlainCheck})}
    \cup {T1(C1, NoItems, NoItems, k) : k \in MaybeOne({"k1"}, {PlainCheck})}
MemberSchemas == IndexSchemas \cup ConstraintSchemas

AsIndex(n, x) ==
  [name |-> n, def |-> x.def, on |-> x.on, extended |-> x.extended, valid |-> TRUE, raw |-> x.text]
AsConstraint(n, x) ==
  [name |-> n, def |-> x.def, on |-> x.on, validation |-> x.validation, definition |-> TRUE, valid |-> TRUE]
Wrong(x) == [x EXCEPT !.valid = FALSE, !.def = "other"]

\* At most one real item is declared: rightly, as invalid, twice, or as `more` allows.
Declarations(items, as(_, _), more(_)) ==
  IF DOMAIN items = {} THEN {<<>>}
  ELSE LET n == CHOOSE m \in DOMAIN items : TRUE
           x == as(n, items[n])
       IN {<<x>>, <<Wrong(x)>>, <<x, [x EXCEPT !.def = "other"]>>} \cup {<<y>> : y \in more(x)}

AndLegacy(x) == {[x EXCEPT !.extended = None, !.raw = ""]}
Unvalidated(x) == {[x EXCEPT !.validation = "unknown"], [x EXCEPT !.definition = FALSE]}
Exactly(x) == {}

PlainC1 == <<Declared("c1", PlainColumn, <<"none", FALSE, "">>)>>

DeclareItems(r, indexes) ==
  UNION {{OneTable(c, [Bare("t1", "n1") EXCEPT !.columns = columns, !.covers = covers,
                         !.indexes = i, !.foreign_keys = f, !.checks = k]) :
            i \in indexes \cup (IF Thorough(c, covers, "index") THEN {} ELSE {<<>>}),
            f \in Declarations(One(r).foreign_key, AsConstraint, Unvalidated)
                    \cup (IF Thorough(c, covers, "foreign_key") THEN {} ELSE {<<>>}),
            k \in Declarations(One(r).check, AsConstraint, Exactly)
                    \cup (IF Thorough(c, covers, "check") THEN {} ELSE {<<>>}),
            columns \in {PlainC1} \cup (IF Thorough(c, covers, "column") THEN {} ELSE {<<>>})} :
           c \in {Context(Postgres), [Context(Postgres) EXCEPT !.covers = @ \ {"check"}]},
           covers \in {Collections, Collections \ {"column", "index", "foreign_key"}}}

DeclareMembers(r) == DeclareItems(r, Declarations(One(r).index, AsIndex, AndLegacy))

(***************************************************************************)
(* The families: tables and their identities, columns, members.            *)
(***************************************************************************)
Family(f, S) == [old : S, new : S, family : {f}]
TableCases == Family("tables", TableSchemas)
MCCases == TableCases \cup Family("columns", ColumnSchemas) \cup Family("members", MemberSchemas)

MCDeclares(f, r) ==
  CASE f = "tables"  -> DeclareLoosely(r)
    [] f = "columns" -> DeclareColumns(r)
    [] f = "members" -> DeclareMembers(r)
=============================================================================
