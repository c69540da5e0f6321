---------------------------- MODULE WriteMapping ----------------------------
(***************************************************************************)
(* How Insert, InsertMany, Update, Upsert and UpsertMany turn a struct or  *)
(* a map and the write options into one statement (write.go,               *)
(* write_mapping.go, write_plan.go, internal/writeinput), and what the     *)
(* database does with it.  Columns and arguments travel as two parallel    *)
(* slices until newWriteInput cuts them into rows.                         *)
(*                                                                         *)
(* A row is [typ, vals]: typ is the struct's fields in declaration order,  *)
(* <<>> for a map.  A field is [col, pk, ro, oe], the tags of the struct.  *)
(***************************************************************************)
EXTENDS Naturals, Sequences, FiniteSets, SequencesExt

CONSTANTS
    ColOrder,    \* every column name, in the order of sort.Strings
    Unique,      \* columns with a unique key, the primary key first
    Default,     \* what the database stores in a column nobody wrote
    RowSets,     \* sets of rows that may share a call
    Options,     \* the options of a call
    Dialects,
    Before,      \* the table's rows before the call
    MaxBatch     \* rows of one call

VARIABLE
    write        \* the call made, with its request and the table after it

Cols == Range(ColOrder)

(* The loops that filter: the members of S, in the order of s              *)
Keep(s, S) ==
    LET kept[i \in 0..Len(s)] ==
            IF i = 0 THEN <<>> ELSE IF s[i] \in S THEN Append(kept[i - 1], s[i]) ELSE kept[i - 1] IN
    kept[Len(s)]
Sorted(S) == Keep(ColOrder, S)
isMap(row) == row.typ = <<>>

(* getTypeMeta: the tags of a column; a map's column has none              *)
Plain == [pk |-> FALSE, ro |-> FALSE, oe |-> FALSE, col |-> ""]
Field(row, c) ==
    LET fs == {f \in Range(row.typ) : f.col = c} IN IF fs = {} THEN Plain ELSE CHOOSE f \in fs : TRUE
structColumnNames(typ) == [i \in DOMAIN typ |-> typ[i].col]
Columns(row) == IF isMap(row) THEN Sorted(DOMAIN row.vals) ELSE structColumnNames(row.typ)
PKCols(typ) == Keep(structColumnNames(typ), {f.col : f \in {g \in Range(typ) : g.pk}})

(* The table has columns of different names, the first key is its primary  *)
(* key, which no two rows share; a value has a column for each exported    *)
(* field, and no two fields of a struct name the same one                  *)
NameAssumption ==
    /\ ColOrder \in Seq(Range(ColOrder)) /\ IsInjective(ColOrder)
    /\ Unique \in Seq(Cols) /\ Unique # <<>> /\ MaxBatch \in Nat
KeyAssumption == \A x, y \in Before : x[Unique[1]] = y[Unique[1]] => x = y
RowAssumption ==
    \A rs \in RowSets : \A row \in rs :
       /\ row.typ \in Seq(Range(row.typ)) /\ IsInjective(structColumnNames(row.typ))
       /\ Range(Columns(row)) = DOMAIN row.vals /\ DOMAIN row.vals \subseteq Cols

ASSUME WriteAssumption == NameAssumption /\ KeyAssumption /\ RowAssumption

-----------------------------------------------------------------------------
(* Options                                                                 *)

isPK(row, o, c) == IF isMap(row) THEN c \in o.pk ELSE Field(row, c).pk
hasConflictTarget(o) == o.conflict # <<>> \/ o.target # ""
isConflictColumn(o, c) == c \in Range(o.conflict)
Targets(o) == {a.col : a \in Range(o.assign)}

(* Columns and Omit, and the tags readonly and omitempty                   *)
Included(row, o, c) ==
    /\ ~Field(row, c).ro
    /\ o.cols # {} => c \in o.cols
    /\ c \notin o.omit
    /\ ~(Field(row, c).oe /\ row.vals[c] = 0)

TableRefused(row, o) ==
    \/ isMap(row) /\ o.table = ""
    \/ o.schema /\ o.table = "s.t"

NoRequest == {}
ArgsOf(row, cols) == [i \in DOMAIN cols |-> row.vals[cols[i]]]

-----------------------------------------------------------------------------
(* newWriteInput                                                           *)

ValidAssignments(o) == \A i, j \in DOMAIN o.assign : i # j => o.assign[i].col # o.assign[j].col

conflictTargetColumns(o, pk) == IF o.conflict # <<>> THEN o.conflict ELSE pk

(* UpdateColumns, or every inserted column that is not of the target       *)
upsertUpdateColumns(cols, target, o) ==
    IF o.updates.has THEN o.updates.cols \ Targets(o)
    ELSE (Range(cols) \ Range(target)) \ Targets(o)

Conflict(cols, pk, o) ==
    LET target == conflictTargetColumns(o, pk)
        updates == upsertUpdateColumns(cols, target, o) IN
    [columns |-> target, updates |-> updates, where |-> o.where, target |-> o.target,
     explicit |-> o.conflict # <<>>]

NoConflict == [columns |-> <<>>, updates |-> {}, where |-> FALSE, target |-> "", explicit |-> FALSE]

(* The rows are cut out of one slice of arguments                          *)
RowsOf(cols, args, count) ==
    [i \in 1..count |-> [c \in Range(cols) |->
        args[(i - 1) * Len(cols) + CHOOSE j \in DOMAIN cols : cols[j] = c]]]

newWriteInput(op, cols, args, count, pk, o) ==
    IF \/ ~ValidAssignments(o)
       \/ Len(args) # count * Len(cols)
       \/ op = "upsert" /\ ~(Conflict(cols, pk, o).updates \subseteq Range(cols))
    THEN NoRequest
    ELSE {[op |-> op, rows |-> RowsOf(cols, args, count), assign |-> o.assign, where |-> <<>>,
           conflict |-> IF op = "upsert" THEN Conflict(cols, pk, o) ELSE NoConflict]}

-----------------------------------------------------------------------------
(* Insert and InsertMany                                                   *)

(* insertStructColumnsAndArgs, and the same choice over a map's keys       *)
insertColumns(row, o) == Keep(Columns(row), {c \in Range(Columns(row)) : Included(row, o, c)})

buildInsertInput(row, o) ==
    LET cols == insertColumns(row, o) IN
    IF o.assign # <<>> \/ TableRefused(row, o) \/ cols = <<>> THEN NoRequest
    ELSE newWriteInput("insert", cols, ArgsOf(row, cols), 1, <<>>, o)

validInsertManyOptions(o) ==
    o.assign = <<>> /\ o.conflict = <<>> /\ ~o.where /\ o.target = "" /\ ~o.updates.has /\ ~o.nothing

(* Mutant: only the number of columns is compared.                         *)
sameColumnsCount(a, b) == Len(a) = Len(b)
sameColumns(a, b) == a = b

(* Every row has the first one's type and the first one's columns          *)
Uniform(rows, columns) ==
    \A i \in DOMAIN rows : rows[i].typ = rows[1].typ /\ sameColumns(columns[1], columns[i])

mapInsertManyColumnSet(row, o) ==
    Sorted((IF o.cols # {} THEN o.cols ELSE DOMAIN row.vals) \ o.omit)

(* mapInsertManyRowArgs: a row without one of the columns is refused       *)
Complete(rows, cols) == \A i \in DOMAIN rows : Range(cols) \subseteq DOMAIN rows[i].vals

(* Mutant: the arguments are collected column by column.                   *)
ArgsByColumn(rows, columns) ==
    FlattenSeq([j \in DOMAIN columns[1] |-> [i \in DOMAIN rows |-> rows[i].vals[columns[1][j]]]])
ArgsOfAll(rows, columns) == FlattenSeq([i \in DOMAIN rows |-> ArgsOf(rows[i], columns[i])])

buildInsertManyInput(rows, o) ==
    IF rows = <<>> \/ ~validInsertManyOptions(o) \/ TableRefused(rows[1], o) THEN NoRequest
    ELSE LET map == isMap(rows[1])
             columns == [i \in DOMAIN rows |->
                 IF map THEN mapInsertManyColumnSet(rows[i], o) ELSE insertColumns(rows[i], o)] IN
         IF columns[1] = <<>> \/ ~Uniform(rows, columns) \/ (map /\ ~Complete(rows, columns[1]))
         THEN NoRequest
         ELSE newWriteInput("insert", columns[1], ArgsOfAll(rows, columns), Len(rows), <<>>, o)

-----------------------------------------------------------------------------
(* Update                                                                  *)

(* Mutant: the arguments stay where the map's iteration put them.          *)
sortColumnsOnly(cols, args) == [cols |-> Sorted(Range(cols)), args |-> args]
(* Columns and arguments move together                                     *)
sortWriteFields(cols, args) ==
    LET sorted == Sorted(Range(cols)) IN
    [cols |-> sorted, args |-> [i \in DOMAIN sorted |-> args[CHOOSE j \in DOMAIN cols : cols[j] = sorted[i]]]]

(* ord is the order in which Go iterates over the map or FieldsByName      *)
buildUpdateInput(row, o, ord) ==
    LET has == Range(Columns(row))
        keys == {c \in has : isPK(row, o, c)}
        whereCols == Keep(ord, keys)
        setCols == Keep(ord, {c \in has \ keys : c \notin Targets(o) /\ Included(row, o, c)})
        set == sortWriteFields(setCols, ArgsOf(row, setCols))
        where == sortWriteFields(whereCols, ArgsOf(row, whereCols)) IN
    IF \/ ~o.wherePK \/ TableRefused(row, o) \/ whereCols = <<>>
       \/ isMap(row) /\ ~(o.pk \subseteq DOMAIN row.vals)
       \/ setCols = <<>> /\ o.assign = <<>>
    THEN NoRequest
    ELSE {[r EXCEPT !.where = [i \in DOMAIN where.cols |-> <<where.cols[i], where.args[i]>>]] :
             r \in newWriteInput("update", set.cols, set.args, 1, <<>>, o)}

-----------------------------------------------------------------------------
(* Upsert and UpsertMany                                                   *)

UpsertRefused(row, o) ==
    \/ ~o.wherePK /\ ~hasConflictTarget(o)
    \/ o.nothing /\ (o.assign # <<>> \/ o.updates.cols # {})
    \/ TableRefused(row, o)
    \/ isMap(row) /\ o.wherePK /\ o.pk = {}

(* Key columns are always inserted, whatever the options and tags say      *)
upsertColumns(row, o, ord) ==
    Keep(ord, {c \in Range(Columns(row)) :
                 isPK(row, o, c) \/ isConflictColumn(o, c) \/ Included(row, o, c)})

buildUpsertInput(row, o, ord) ==
    LET cols == upsertColumns(row, o, ord)
        pk == Keep(cols, {c \in Range(cols) : isPK(row, o, c)}) IN
    IF \/ UpsertRefused(row, o)
       \/ isMap(row) /\ o.wherePK /\ ~(o.pk \subseteq DOMAIN row.vals)
       \/ o.wherePK /\ pk = <<>>
       \/ cols = <<>>
    THEN NoRequest
    ELSE newWriteInput("upsert", cols, ArgsOf(row, cols), 1, pk, o)

buildUpsertManyInput(rows, o) ==
    IF rows = <<>> \/ UpsertRefused(rows[1], o) THEN NoRequest
    ELSE LET columns == [i \in DOMAIN rows |-> upsertColumns(rows[i], o, Columns(rows[i]))]
             pk == IF isMap(rows[1]) THEN Sorted(o.pk) ELSE PKCols(rows[1].typ) IN
         IF ~Uniform(rows, columns) \/ (o.wherePK /\ pk = <<>>) \/ columns[1] = <<>> THEN NoRequest
         ELSE newWriteInput("upsert", columns[1], ArgsOfAll(rows, columns), Len(rows), pk, o)

-----------------------------------------------------------------------------
(* Planning: planInsertRows, AppendConflict and conflictTarget             *)

(* RenderAssignment: a raw fragment, placeholders that match, one delta    *)
Rendered(r) == \A a \in Range(r.assign) : a.ok

conflictTarget(c, d) ==
    IF d = "mysql" THEN ~c.where /\ c.target = ""
    ELSE IF c.target # "" THEN ~c.explicit /\ ~c.where
    ELSE c.columns # <<>>

(* ConflictColumns has to name columns of the first row                    *)
ConflictPresent(r) == r.conflict.explicit => Range(r.conflict.columns) \subseteq DOMAIN r.rows[1]

Planned(r, d) ==
    /\ Rendered(r)
    /\ r.op = "upsert" =>
          /\ ConflictPresent(r)
          /\ conflictTarget(r.conflict, d)

-----------------------------------------------------------------------------
(* The database                                                            *)

Fresh(t) ==
    LET used == {x[Unique[1]] : x \in t} \cup {10} IN 1 + CHOOSE n \in used : \A i \in used : i <= n
Stored(t, row) ==
    [c \in Cols |-> IF c \in DOMAIN row THEN row[c] ELSE IF c = Unique[1] THEN Fresh(t) ELSE Default]

Assigned(x, a) == IF a.kind = "increment" THEN x[a.col] + 1 ELSE x[a.src]
Changed(x, new, cols, assign) ==
    [c \in Cols |-> IF c \in cols THEN new[c]
                    ELSE LET as == {a \in Range(assign) : a.col = c} IN
                         IF as = {} THEN x[c] ELSE Assigned(x, CHOOSE a \in as : TRUE)]

(* RenderAssignment names a column without its table.  In ON CONFLICT DO   *)
(* UPDATE PostgreSQL cannot tell the row's own column from EXCLUDED's.     *)
Ambiguous(r, d) == d = "postgres" /\ r.op = "upsert" /\ r.assign # <<>>

Keyed(t) == \A x, y \in t : x # y => \A i \in DOMAIN Unique : x[Unique[i]] # y[Unique[i]]

(* The keys on which a conflict is answered instead of reported            *)
Arbiters(r, d) ==
    IF d = "mysql" THEN Unique
    ELSE IF r.conflict.target # "" THEN <<Unique[2]>>
    ELSE Keep(Unique, {k \in Cols : <<k>> = r.conflict.columns})

(* The table while a statement runs, and the rows it has touched           *)
Table(rows, touched) == [ok |-> TRUE, rows |-> rows, touched |-> touched]
Failed(st) == [ok |-> FALSE, rows |-> st.rows, touched |-> st.touched]

AddRow(st, new) ==
    IF \E x \in st.rows : ~Keyed({x, new}) \/ x = new THEN Failed(st)
    ELSE Table(st.rows \cup {new}, st.touched \cup {new})

(* PostgreSQL does not change a row twice in one statement                 *)
ChangeRow(st, x, y, d) ==
    IF (d = "postgres" /\ x \in st.touched) \/ ~Keyed((st.rows \ {x}) \cup {y}) THEN Failed(st)
    ELSE Table((st.rows \ {x}) \cup {y}, (st.touched \ {x}) \cup {y})

(* The keys of a row that other rows have                                  *)
Taken(rows, new, arbiters) == Keep(arbiters, {k \in Cols : \E x \in rows : x[k] = new[k]})
Holder(rows, new, k) == CHOOSE x \in rows : x[k] = new[k]

(* One row of INSERT                                                       *)
InsertRow(st, row, r, d) ==
    LET new == Stored(st.rows, row)
        keys == Taken(st.rows, new, Arbiters(r, d))
        x == Holder(st.rows, new, keys[1]) IN
    IF ~st.ok THEN st
    ELSE IF r.op = "upsert" /\ Arbiters(r, d) = <<>> THEN Failed(st)
    ELSE IF r.op = "insert" \/ keys = <<>> THEN AddRow(st, new)
    ELSE IF r.conflict.updates = {} /\ r.assign = <<>> THEN st
    ELSE ChangeRow(st, x, Changed(x, new, r.conflict.updates, r.assign), d)

InsertRows(st, r, d) ==
    LET after[i \in 0..Len(r.rows)] ==
            IF i = 0 THEN st ELSE InsertRow(after[i - 1], r.rows[i], r, d) IN
    after[Len(r.rows)]

UpdateRows(st, r) ==
    LET hit == {x \in st.rows : \A i \in DOMAIN r.where : x[r.where[i][1]] = r.where[i][2]}
        rows == (st.rows \ hit) \cup {Changed(x, r.rows[1], DOMAIN r.rows[1], r.assign) : x \in hit} IN
    IF Keyed(rows) THEN Table(rows, st.touched) ELSE Failed(st)

(* A refused or failed statement leaves the table as it was                *)
Executed(req, d, t) ==
    LET start == Table(t, {}) IN
    IF req = NoRequest THEN Failed(start)
    ELSE LET r == CHOOSE r \in req : TRUE
             end == IF ~Planned(r, d) \/ Ambiguous(r, d) THEN Failed(start)
                    ELSE IF r.op = "update" THEN UpdateRows(start, r)
                    ELSE InsertRows(start, r, d) IN
         IF end.ok THEN end ELSE Failed(start)

-----------------------------------------------------------------------------
(* The calls                                                               *)

Perform(op, rows, o, d, req) ==
    LET end == Executed(req, d, Before) IN
    write' = {[op |-> op, rows |-> rows, o |-> o, d |-> d, ok |-> end.ok, after |-> end.rows]}

(* Go goes through a map in any order                                      *)
IterationOrders == {ord \in [DOMAIN ColOrder -> Cols] : IsInjective(ord)}

Insert(row, o, d) == Perform("insert", <<row>>, o, d, buildInsertInput(row, o))
InsertMany(rows, o, d) == Perform("insertMany", rows, o, d, buildInsertManyInput(rows, o))
Update(row, o, d) ==
    \E ord \in IterationOrders : Perform("update", <<row>>, o, d, buildUpdateInput(row, o, ord))
Upsert(row, o, d) ==
    \E ord \in IterationOrders : Perform("upsert", <<row>>, o, d, buildUpsertInput(row, o, ord))
UpsertMany(rows, o, d) == Perform("upsertMany", rows, o, d, buildUpsertManyInput(rows, o))

MappingInit == write = {}
MappingNext ==
    /\ write = {}
    /\ \E rs \in RowSets, o \in Options, d \in Dialects :
          \/ \E row \in rs : Insert(row, o, d) \/ Update(row, o, d) \/ Upsert(row, o, d)
          \/ \E n \in 0..MaxBatch : \E rows \in [1..n -> rs] : InsertMany(rows, o, d) \/ UpsertMany(rows, o, d)

MappingSpec == MappingInit /\ [][MappingNext]_write

-----------------------------------------------------------------------------
(* Properties                                                              *)

SingleRequest(w, row) ==
    IF w.op = "insertMany" THEN buildInsertInput(row, w.o) ELSE buildUpsertInput(row, w.o, ColOrder)
AndThen(w, st, row) ==
    LET e == Executed(SingleRequest(w, row), w.d, st.rows) IN IF st.ok THEN e ELSE Failed(e)
OneByOne(w) ==
    LET after[i \in 0..Len(w.rows)] ==
            IF i = 0 THEN Table(Before, {}) ELSE AndThen(w, after[i - 1], w.rows[i]) IN
    after[Len(w.rows)]

(* An InsertMany or UpsertMany that succeeds leaves the table exactly as   *)
(* the Inserts or Upserts of its rows would, one after another with the    *)
(* same options: no value lands in another column or another row, and the  *)
(* conflict update is the same (each row's single form being accepted).    *)
BatchMatchesSingle ==
    \A x \in write :
       (/\ x.ok /\ x.op \in {"insertMany", "upsertMany"}
        /\ \A i \in DOMAIN x.rows : SingleRequest(x, x.rows[i]) # NoRequest) =>
          OneByOne(x).ok /\ OneByOne(x).rows = x.after

Chosen(w, c) ==
    /\ Included(w.rows[1], w.o, c) /\ ~isPK(w.rows[1], w.o, c)
    /\ w.op = "upsert" /\ w.o.updates.has => c \in w.o.updates.cols

(* The value's key columns are the table's primary key, and no assignment  *)
(* gives the row another one                                               *)
ByPrimary(w) ==
    /\ {c \in Range(Columns(w.rows[1])) : isPK(w.rows[1], w.o, c)} = {Unique[1]}
    /\ Unique[1] \notin Targets(w.o)

(* Update, and on PostgreSQL Upsert with WherePK, touch the row with the   *)
(* value's primary key and no other; in that row a column that changed is  *)
(* either an assignment's or one the options and tags let through, and it  *)
(* then holds the value's own value, whatever order Go iterated in.        *)
WriteIsTargeted ==
    \A x \in write :
       (/\ x.ok /\ x.o.wherePK /\ ByPrimary(x)
        /\ x.op = "update" \/ (x.op = "upsert" /\ x.d = "postgres" /\ ~hasConflictTarget(x.o))) =>
          LET id == x.rows[1].vals[Unique[1]] IN
          /\ {r \in Before : r[Unique[1]] # id} = {r \in x.after : r[Unique[1]] # id}
          /\ \A r \in Before, s \in x.after : (r[Unique[1]] = id /\ s[Unique[1]] = id) =>
                \A c \in Cols : \/ s[c] = r[c] \/ c \in Targets(x.o)
                                \/ Chosen(x, c) /\ s[c] = x.rows[1].vals[c]
=============================================================================
