----------------------------- MODULE SchemaDiff -----------------------------
(***************************************************************************)
(* orm/migration/schema*.go: DiffSchemas and the completeness of a schema. *)
(* Two schemas are compared as they are declared, and a declaration is     *)
(* partial: tables, columns, indexes or constraints may be missing from    *)
(* it, declared twice, or declared without what a comparison needs.  A     *)
(* step of the plan is a change, or a marker (ComparisonUnknown) that      *)
(* something could not be compared.                                        *)
(*                                                                         *)
(* The module keeps, beside the declarations, the schemas they are about:  *)
(* the properties compare the plan with the changes that are there.        *)
(*                                                                         *)
(* A name is one of the supported subset (simpleSchemaName); the code      *)
(* treats another like one that is declared twice.  A declared item is     *)
(* `valid` when its definition is one that can be compared, and `def` is   *)
(* what is compared of it.  Columns are declared with their type.          *)
(***************************************************************************)
EXTENDS Naturals, Sequences, FiniteSets

CONSTANTS
  Cases,         \* pairs of schemas, [old, new, family]
  Declares(_, _),\* Declares(f, r): declarations of r considered in family f
  None

VARIABLES
  real,          \* real.old, real.new: what exists and what is wanted
  decl,          \* decl.old, decl.new: how they are declared
  result         \* the steps of DiffSchemas, or None

vars == <<real, decl, result>>

Items(s) == {s[i] : i \in DOMAIN s}
Names(s) == {d.name : d \in Items(s)}
Count(s, n) == Cardinality({i \in DOMAIN s : s[i].name = n})
The(s, n) == CHOOSE d \in Items(s) : d.name = n
If(cond, steps) == IF cond THEN steps ELSE {}

(***************************************************************************)
(* Steps.                                                                  *)
(***************************************************************************)
Change(op, kind, table, name) ==
  [op |-> op, kind |-> kind, table |-> table, name |-> name, unknown |-> FALSE]
comparisonUnknown(kind, table, name) ==
  [op |-> "unsupported", kind |-> kind, table |-> table, name |-> name, unknown |-> TRUE]
tableUnknown(t) == {comparisonUnknown("table", t.name, None)}

(***************************************************************************)
(* Contexts and coverage: covers is the set of collections declared        *)
(* complete; inventory stands for complete tables of declared visibility.  *)
(* A table's namespace is None when it declares no identity, and wellFormed*)
(* is FALSE when the identity it declares is not a known one; an identity  *)
(* under another name than the table's is one of another namespace here.   *)
(* A scope is a set of tables, of all of them where it is the namespace.   *)
(***************************************************************************)
Collections == {"column", "index", "foreign_key", "check", "identity"}

coverageKnown(covers) == covers = Collections
contextKnown(c) == c # None /\ c.wellFormed /\ "identity" \in c.covers
inventoryComplete(c) == contextKnown(c) /\ c.inventory
contextCoverageKnown(c) == c # None /\ coverageKnown(c.covers)
sameScope(a, b) ==
  contextKnown(a) /\ contextKnown(b)
    /\ a.dialect = b.dialect /\ a.namespace = b.namespace /\ a.scope = b.scope

identityKnown(t) == t.namespace # None /\ t.wellFormed
objectTableKey(t) == <<IF identityKnown(t) THEN t.namespace ELSE None, t.name>>
inScope(t, c) ==
  contextKnown(c) /\ identityKnown(t) /\ t.namespace = c.namespace /\ t.name \in c.scope
effectiveCoverage(t, c) == IF c = None THEN {} ELSE t.covers \cap c.covers

(***************************************************************************)
(* Columns.                                                                *)
(***************************************************************************)
columnDefault(c) ==
  CASE c.state \in {"", "expression"} /\ c.has /\ c.expr # "" -> "expression"
    [] c.state = "none" /\ ~c.has /\ c.expr = ""              -> "none"
    [] OTHER                                                  -> "unknown"

unknownDefault(t, c) ==
  If(columnDefault(c) = "unknown", {comparisonUnknown("column", t.name, c.name)})

diffDefault(t, a, b) ==
  IF "unknown" \in {columnDefault(a), columnDefault(b)}
    THEN {comparisonUnknown("column", t.name, b.name)}
    ELSE If(columnDefault(a) # columnDefault(b) \/ a.expr # b.expr,
            {Change("alter_default", "column", t.name, b.name)})

diffColumn(t, a, b) ==
  diffDefault(t, a, b)
    \cup If(a.type # b.type, {Change("alter_type", "column", t.name, b.name)})
    \cup If(a.nullable # b.nullable, {Change("alter_nullability", "column", t.name, b.name)})

ambiguousColumns(t) == {n \in Names(t.columns) : Count(t.columns, n) > 1}

\* n is declared by t only; the step is about b.
oneSidedColumn(op, t, b, n) ==
  unknownDefault(b, The(t.columns, n)) \cup {Change(op, "column", b.name, n)}

diffColumns(a, b) ==
  LET bad == ambiguousColumns(a) \cup ambiguousColumns(b)
      old == Names(a.columns) \ bad
      new == Names(b.columns) \ bad
  IN If(bad # {}, tableUnknown(b))
     \cup (UNION {diffColumn(b, The(a.columns, n), The(b.columns, n)) : n \in old \cap new})
     \cup (UNION {oneSidedColumn("add", b, b, n) : n \in new \ old})
     \cup UNION {oneSidedColumn("drop", a, b, n) : n \in old \ new}

(***************************************************************************)
(* Indexes.  on: the columns an index is on; extended: the attributes      *)
(* beyond columns and uniqueness, or None where they are not declared; raw:*)
(* catalog text kept beside the definition.                                *)
(***************************************************************************)
knownColumns(on, t) == \A c \in on : Count(t.columns, c) = 1
validIndex(i, t) == i.valid /\ Count(t.indexes, i.name) = 1 /\ knownColumns(i.on, t)
equalIndex(a, b) == a.def = b.def /\ a.on = b.on /\ a.extended = b.extended

\* Mutant: the definition is compared, whatever else the catalog says.
diffIndexTrusting(t, a, b) ==
  If(~equalIndex(a, b), {Change("alter", "index", t.name, b.name)})

diffIndex(t, a, b) ==
  IF ~equalIndex(a, b) THEN {Change("alter", "index", t.name, b.name)}
  ELSE If("" \notin {a.raw, b.raw} /\ a.raw # b.raw, {comparisonUnknown("index", t.name, b.name)})

\* n is declared by t only, and by t once or not at all.
oneSidedIndex(op, t, name, n) ==
  If(~validIndex(The(t.indexes, n), t), {comparisonUnknown("index", name, n)})
    \cup If(Count(t.indexes, n) = 1, {Change(op, "index", name, n)})

\* indexMap keeps the last declaration; where there are several none is valid.
matchedIndex(a, b, n) ==
  IF validIndex(The(a.indexes, n), a) /\ validIndex(The(b.indexes, n), b)
    THEN diffIndex(b, The(a.indexes, n), The(b.indexes, n))
    ELSE {comparisonUnknown("index", b.name, n)}

diffIndexes(a, b) ==
  LET old == Names(a.indexes)
      new == Names(b.indexes)
  IN (UNION {matchedIndex(a, b, n) : n \in old \cap new})
     \cup (UNION {oneSidedIndex("add", b, b.name, n) : n \in new \ old})
     \cup UNION {oneSidedIndex("drop", a, b.name, n) : n \in old \ new}

(***************************************************************************)
(* Foreign keys and checks.  definition: the definition is declared        *)
(* complete; validation: "unknown" is compared with nothing.  The names of *)
(* a table's foreign keys and checks are one name space.                   *)
(***************************************************************************)
Constraints(t) == t.foreign_keys \o t.checks
ofKind(t, kind) == IF kind = "check" THEN t.checks ELSE t.foreign_keys
ambiguousConstraints(t) == \E n \in Names(Constraints(t)) : Count(Constraints(t), n) > 1
validConstraint(c, t) == c.valid /\ knownColumns(c.on, t)
unsettled(c) == ~c.definition \/ c.validation = "unknown"

equalConstraintValue(a, b) ==
  /\ a.def = b.def /\ a.on = b.on
  /\ a.validation = b.validation \/ "unknown" \in {a.validation, b.validation}

\* Known to be there on one side only: the other side's collection is complete.
oneSidedConstraint(op, kind, t, n, name, complete) ==
  IF ~complete THEN {comparisonUnknown(kind, name, n)}
  ELSE If(~validConstraint(The(ofKind(t, kind), n), t), {comparisonUnknown(kind, name, n)})
         \cup {Change(op, kind, name, n)}

singleName(a, b, n) == Count(Constraints(a), n) <= 1 /\ Count(Constraints(b), n) <= 1

matchedConstraint(kind, a, b, n) ==
  LET x == The(ofKind(a, kind), n)
      y == The(ofKind(b, kind), n)
  IN IF ~singleName(a, b, n) \/ ~validConstraint(x, a) \/ ~validConstraint(y, b)
       THEN {comparisonUnknown(kind, b.name, n)}
       ELSE If(~equalConstraintValue(x, y), {Change("alter", kind, b.name, n)})

diffKind(kind, a, b, scope, ac, bc) ==
  LET old == Names(ofKind(a, kind))
      new == Names(ofKind(b, kind))
  IN (UNION {matchedConstraint(kind, a, b, n) : n \in old \cap new})
     \cup (UNION {oneSidedConstraint("add", kind, b, n, b.name, singleName(a, b, n) /\ scope /\ kind \in ac) :
                   n \in new \ old})
     \cup UNION {oneSidedConstraint("drop", kind, a, n, b.name, singleName(a, b, n) /\ scope /\ kind \in bc) :
                   n \in old \ new}

diffConstraints(a, b, scope, ac, bc) ==
  If(\E c \in Items(Constraints(a)) \cup Items(Constraints(b)) : unsettled(c), tableUnknown(b))
    \cup diffKind("foreign_key", a, b, scope, ac, bc)
    \cup diffKind("check", a, b, scope, ac, bc)

(***************************************************************************)
(* compareExtendedSchemas.                                                 *)
(***************************************************************************)
\* Mutant: what a declaration lacks is taken to be absent.
DemoteNever(s, scope, ac, bc) == s

\* A missing column or index is no change where the side that lacks it does not
\* declare the collection complete.
Demote(s, scope, ac, bc) ==
  IF \/ s.op = "add" /\ (~scope \/ s.kind \notin ac)
     \/ s.op = "drop" /\ (~scope \/ s.kind \notin bc)
    THEN comparisonUnknown(s.kind, s.table, s.name) ELSE s

compareTable(prev, next, a, b) ==
  LET scope == sameScope(a, b)
      knownID == inScope(prev, a) /\ inScope(next, b)
      legacy == prev.namespace = None /\ next.namespace = None
      ac == effectiveCoverage(prev, a)
      bc == effectiveCoverage(next, b)
  IN IF ~knownID /\ ~legacy THEN tableUnknown(next)
     ELSE If(\/ ~knownID \/ ~scope \/ ~coverageKnown(prev.covers) \/ ~coverageKnown(next.covers)
             \/ \E i \in Items(prev.indexes) \cup Items(next.indexes) : i.extended = None
             \/ ambiguousConstraints(prev) \/ ambiguousConstraints(next),
             tableUnknown(next))
          \cup {Demote(s, scope, ac, bc) : s \in diffColumns(prev, next) \cup diffIndexes(prev, next)}
          \cup diffConstraints(prev, next, scope, ac, bc)

extendedTableDiagnostics(t) ==
  If(\/ ambiguousColumns(t) # {} \/ ambiguousConstraints(t)
     \/ \E i \in Items(t.indexes) : i.extended = None
     \/ ~identityKnown(t) \/ ~coverageKnown(t.covers)
     \/ \E c \in Items(Constraints(t)) : ~validConstraint(c, t) \/ unsettled(c),
     tableUnknown(t))
  \cup (UNION {unknownDefault(t, c) : c \in Items(t.columns)})
  \cup {comparisonUnknown("index", t.name, i.name) :
          i \in {j \in Items(t.indexes) : ~validIndex(j, t)}}

\* The tables of a key: where they are declared, and the first of them.
keys(s) == {objectTableKey(t) : t \in Items(s.tables)}
places(s, k) == {i \in DOMAIN s.tables : objectTableKey(s.tables[i]) = k}
firstOf(s, k) == s.tables[CHOOSE i \in places(s, k) : \A j \in places(s, k) : i <= j]

\* A table that one side lacks is known to be absent there.
tableAbsent(t, own, other, declared) ==
  /\ Cardinality(declared) = 1
  /\ sameScope(own, other) /\ inventoryComplete(own) /\ inventoryComplete(other)
  /\ inScope(t, own)

oneSidedTable(op, own, other, k) ==
  LET t == firstOf(own, k)
  IN {IF tableAbsent(t, own.context, other.context, places(own, k))
        THEN Change(op, "table", t.name, None) ELSE comparisonUnknown("table", t.name, None)}
     \cup extendedTableDiagnostics(t)

desiredTable(a, b, k) ==
  IF Cardinality(places(a, k)) > 1 \/ Cardinality(places(b, k)) # 1 THEN tableUnknown(firstOf(b, k))
  ELSE IF k \in keys(a) THEN compareTable(firstOf(a, k), firstOf(b, k), a.context, b.context)
  ELSE oneSidedTable("add", b, a, k)

compareContexts(a, b) ==
  If(\/ ~sameScope(a, b)
     \/ ~inventoryComplete(a) \/ ~inventoryComplete(b)
     \/ ~contextCoverageKnown(a) \/ ~contextCoverageKnown(b),
     {comparisonUnknown("schema", None, None)})
  \cup If(/\ contextKnown(a) /\ contextKnown(b)
          /\ a.namespace # b.namespace \/ a.dialect # b.dialect,
          {Change("identity_difference", "schema", None, None)})

DiffSchemas(a, b) ==
  compareContexts(a.context, b.context)
    \cup (UNION {desiredTable(a, b, k) : k \in keys(b)})
    \cup UNION {oneSidedTable("drop", a, b, k) : k \in keys(a) \ keys(b)}

\* Mutant: the constraints of a table are not considered.
tableCompleteColumns(t, c) ==
  /\ inScope(t, c) /\ coverageKnown(t.covers)
  /\ ambiguousColumns(t) = {}
  /\ \A col \in Items(t.columns) : columnDefault(col) # "unknown"
  /\ \A i \in Items(t.indexes) : i.extended # None /\ validIndex(i, t)

tableComplete(t, c) ==
  /\ inScope(t, c) /\ coverageKnown(t.covers)
  /\ ambiguousColumns(t) = {} /\ ~ambiguousConstraints(t)
  /\ \A col \in Items(t.columns) : columnDefault(col) # "unknown"
  /\ \A i \in Items(t.indexes) : i.extended # None /\ validIndex(i, t)
  /\ \A k \in Items(Constraints(t)) : validConstraint(k, t) /\ ~unsettled(k)

\* What the public summary of one schema reports as known.
schemaDefinitionComplete(s) ==
  /\ inventoryComplete(s.context) /\ contextCoverageKnown(s.context)
  /\ \A i, j \in DOMAIN s.tables : objectTableKey(s.tables[i]) = objectTableKey(s.tables[j]) => i = j
  /\ \A t \in Items(s.tables) : tableComplete(t, s.context)

Incomplete(steps) == \E s \in steps : s.unknown

(***************************************************************************)
(* A schema that exists has a namespace and a function from its tables to  *)
(* their members by kind, each a function from names to definitions.  What *)
(* is declared of it is so, unless it is invalid or contradicts itself; and*)
(* what is declared complete is complete.                                  *)
(***************************************************************************)
Kinds == {"column", "index", "foreign_key", "check"}
ofAnyKind(t, kind) ==
  CASE kind = "column" -> t.columns [] kind = "index" -> t.indexes [] OTHER -> ofKind(t, kind)

TrueColumn(c, x) ==
  /\ c.type = x.type /\ c.nullable = x.nullable
  /\ columnDefault(c) # "unknown" => c.expr = x.expr

\* Who declares the extended attributes declares the catalog's text, as the
\* readers of catalogs do.
TrueIndex(i, x) ==
  /\ x = [def |-> x.def, on |-> x.on, extended |-> x.extended, text |-> x.text]
  /\ i.def = x.def /\ i.on = x.on
  /\ i.extended # None => i.extended = x.extended /\ i.raw = x.text /\ i.raw # ""

TrueConstraint(c, x) ==
  /\ x = [def |-> x.def, on |-> x.on, validation |-> x.validation]
  /\ c.def = x.def /\ c.on = x.on /\ c.validation \in {"unknown", x.validation}

TrueTable(t, x, complete) ==
  /\ \A kind \in Kinds :
       /\ Names(ofAnyKind(t, kind)) \subseteq DOMAIN x[kind]
       /\ kind \in complete => Names(ofAnyKind(t, kind)) = DOMAIN x[kind]
  /\ \A c \in Items(t.columns) : Count(t.columns, c.name) = 1 => TrueColumn(c, x["column"][c.name])
  /\ \A i \in Items(t.indexes) : validIndex(i, t) => TrueIndex(i, x["index"][i.name])
  /\ \A kind \in {"foreign_key", "check"} : \A c \in Items(ofKind(t, kind)) :
       validConstraint(c, t) /\ Count(Constraints(t), c.name) = 1 => TrueConstraint(c, x[kind][c.name])

\* t is declared once, as a table of the context's schema or of none.
Believed(t, s) ==
  /\ Cardinality(places(s, objectTableKey(t))) = 1
  /\ t.namespace = None \/ inScope(t, s.context)

Truthful(d, r) ==
  /\ d.tables \in Seq(Items(d.tables))
  /\ \A t \in Items(d.tables) : \A kind \in Kinds :
       ofAnyKind(t, kind) \in Seq(Items(ofAnyKind(t, kind)))
  /\ contextKnown(d.context) => <<d.context.dialect, d.context.namespace>> = r.namespace
  /\ inventoryComplete(d.context) => DOMAIN r.tables \cap d.context.scope \subseteq Names(d.tables)
  /\ \A t \in Items(d.tables) : Believed(t, d) =>
       /\ t.name \in DOMAIN r.tables
       /\ TrueTable(t, r.tables[t.name], effectiveCoverage(t, d.context))

ASSUME DeclaresAssumption ==
  \A f \in {c.family : c \in Cases} :
    \A r \in UNION {{c.old, c.new} : c \in {d \in Cases : d.family = f}} :
      \A d \in Declares(f, r) : Truthful(d, r)

Init ==
  /\ real \in Cases
  /\ \E o \in Declares(real.family, real.old), n \in Declares(real.family, real.new) :
       decl = [old |-> o, new |-> n]
  /\ result = None

Compare ==
  /\ result = None
  /\ result' = DiffSchemas(decl.old, decl.new)
  /\ UNCHANGED <<real, decl>>

Next == Compare

Spec == Init /\ [][Next]_vars

(***************************************************************************)
(* The changes that are there.                                             *)
(***************************************************************************)
AlteredColumn(t, n, x, y) ==
  If(x.type # y.type, {Change("alter_type", "column", t, n)})
    \cup If(x.nullable # y.nullable, {Change("alter_nullability", "column", t, n)})
    \cup If(x.expr # y.expr, {Change("alter_default", "column", t, n)})

Altered(kind, t, n, x, y) ==
  IF kind = "column" THEN AlteredColumn(t, n, x, y)
  ELSE If(x # y, {Change("alter", kind, t, n)})

ChangedMembers(kind, t, x, y) ==
  {Change("add", kind, t, n) : n \in DOMAIN y \ DOMAIN x}
    \cup {Change("drop", kind, t, n) : n \in DOMAIN x \ DOMAIN y}
    \cup UNION {Altered(kind, t, n, x[n], y[n]) : n \in DOMAIN x \cap DOMAIN y}

Changes(a, b, scope) ==
  LET old == DOMAIN a.tables \cap scope
      new == DOMAIN b.tables \cap scope
  IN If(a.namespace # b.namespace, {Change("identity_difference", "schema", None, None)})
     \cup {Change("add", "table", t, None) : t \in new \ old}
     \cup {Change("drop", "table", t, None) : t \in old \ new}
     \cup UNION {ChangedMembers(kind, t, a.tables[t][kind], b.tables[t][kind]) :
                  kind \in Kinds, t \in old \cap new}

\* Both sides declare with the same means: a table they both declare is
\* identified by both or by neither, and an index they both declare has its
\* extended attributes on both sides or on neither.  (See DeclaredIsNotAbsent
\* for what happens otherwise to a table; such an index is altered.)
SameStyle ==
  \A t \in Items(decl.old.tables), u \in Items(decl.new.tables) :
    t.name = u.name =>
      /\ objectTableKey(t) = objectTableKey(u)
      /\ \A i \in Items(t.indexes), j \in Items(u.indexes) :
           i.name = j.name => (i.extended = None <=> j.extended = None)

\* Nothing is reported as a change that is none, however little is declared, as
\* long as both sides declare with the same means: a table, column, index or
\* constraint that one side merely does not declare is not added or dropped, an
\* undeclared default is not a changed one, and of two contradictory
\* declarations neither is believed.
NoFalseChange ==
  result # None /\ SameStyle =>
    {s \in result : ~s.unknown}
      \subseteq Changes(real.old, real.new, DOMAIN real.old.tables \cup DOMAIN real.new.tables)

\* A comparison that reports no gap has found every change in its scope, and
\* only those: the caller may read "no steps" as "the same".
CompleteIsExact ==
  result # None /\ ~Incomplete(result) => result = Changes(real.old, real.new, decl.old.context.scope)

\* The public summary of a schema says that it is fully declared exactly when a
\* comparison of the schema with itself has no gap: the two walks over the
\* declarations look for the same defects.
SummaryAgrees ==
  result = None =>
    (schemaDefinitionComplete(decl.old) <=> ~Incomplete(DiffSchemas(decl.old, decl.old)))

\* docs/schema-capabilities.md: "neither marker nor incomplete scope invents
\* absence".  A table that both sides declare, one of them without its
\* identity, is not reported as added or dropped.
DeclaredIsNotAbsent ==
  result # None =>
    \A t \in Names(decl.old.tables) \cap Names(decl.new.tables) :
      \A op \in {"add", "drop"} : Change(op, "table", t, None) \notin result

\* Together: a comparison invents nothing and, without a gap, misses nothing; and
\* the public summary says where it has gaps.
ComparisonIsRight == NoFalseChange /\ CompleteIsExact /\ SummaryAgrees
=============================================================================
