------------------------------ MODULE MC_Writes ------------------------------
(* The recipes and, as independent calls, the mapping of one write.          *)
EXTENDS Recipes, WriteMapping, TLC
CONSTANTS c1, c2

Base == [kind |-> "hooks", tx |-> TRUE, parent |-> TRUE, scoped |-> FALSE,
         strict |-> FALSE, valid |-> TRUE, deadline |-> FALSE]
Nested == [Base EXCEPT !.kind = "nested"]
MCCalls ==
    {Base, [Base EXCEPT !.deadline = TRUE], [Base EXCEPT !.kind = "command"],
     [Base EXCEPT !.kind = "command", !.deadline = TRUE],
     [Base EXCEPT !.kind = "once", !.tx = FALSE],
     Nested, [Nested EXCEPT !.scoped = TRUE, !.deadline = TRUE],
     [Nested EXCEPT !.tx = FALSE, !.parent = FALSE],
     [Base EXCEPT !.strict = TRUE], [Base EXCEPT !.valid = FALSE]}
MCOld == {Row("child", 7, 0, "old")}

-----------------------------------------------------------------------------
MCColOrder == <<"a", "b", "id">>
MCUnique == <<"id", "b">>
Tag(c, pk, ro, oe) == [col |-> c, pk |-> pk, ro |-> ro, oe |-> oe]
MCTypes == {<<Tag("id", TRUE, FALSE, FALSE), Tag("b", FALSE, t[1], t[2]), Tag("a", FALSE, t[3], t[4])>> :
               t \in {<<FALSE, FALSE, FALSE, FALSE>>, <<FALSE, TRUE, FALSE, TRUE>>,
                      <<FALSE, FALSE, TRUE, FALSE>>, <<TRUE, FALSE, FALSE, TRUE>>}}
\* A row's two keys: of a row found, free ones, and one of each.
KeyPairs == {<<1, 0>>, <<1, 2>>, <<3, 0>>, <<3, 2>>, <<3, 4>>, <<4, 0>>, <<4, 6>>}
StructRows(typ) == {[typ |-> typ, vals |-> [id |-> k[1], b |-> k[2], a |-> a]] : k \in KeyPairs, a \in {0, 1}}
MapRows == {[typ |-> <<>>, vals |-> v] :
    v \in {[id |-> 1, b |-> 2, a |-> 1], [id |-> 3, a |-> 1], [id |-> 1, b |-> 4],
           [b |-> 2, a |-> 0], [a |-> 0], [id |-> 3, b |-> 4, a |-> 0],
           [id |-> 4, b |-> 6, a |-> 1]}}
Inc(c) == [col |-> c, kind |-> "increment", src |-> c, ok |-> TRUE]
NoOptions == [cols |-> {}, omit |-> {}, wherePK |-> FALSE, pk |-> {"id"}, conflict |-> <<>>, target |-> "",
              where |-> FALSE, updates |-> [has |-> FALSE, cols |-> {}], nothing |-> FALSE,
              assign |-> <<>>, table |-> "t", schema |-> FALSE]
ByPK == [NoOptions EXCEPT !.wherePK = TRUE]
Chose(cs) == [has |-> TRUE, cols |-> cs]
MCOptions ==
    {NoOptions, [NoOptions EXCEPT !.cols = {"a", "id"}], [NoOptions EXCEPT !.omit = {"a"}],
     [NoOptions EXCEPT !.table = ""], [NoOptions EXCEPT !.table = "s.t", !.schema = TRUE],
     ByPK, [ByPK EXCEPT !.cols = {"a"}], [ByPK EXCEPT !.omit = {"a"}], [ByPK EXCEPT !.pk = {}],
     [ByPK EXCEPT !.assign = <<Inc("a")>>], [ByPK EXCEPT !.assign = <<Inc("a"), Inc("a")>>],
     [ByPK EXCEPT !.assign = <<[Inc("a") EXCEPT !.kind = "column", !.src = "id"]>>],
     [ByPK EXCEPT !.assign = <<[Inc("a") EXCEPT !.ok = FALSE]>>],
     [NoOptions EXCEPT !.conflict = <<"b">>], [NoOptions EXCEPT !.conflict = <<"a">>],
     [NoOptions EXCEPT !.conflict = <<"b">>, !.where = TRUE],
     [NoOptions EXCEPT !.target = "constraint"], [NoOptions EXCEPT !.target = "constraint", !.conflict = <<"b">>],
     [ByPK EXCEPT !.updates = Chose({"a"})], [ByPK EXCEPT !.updates = Chose({"b", "a"})],
     [ByPK EXCEPT !.updates = Chose({}), !.nothing = TRUE],
     [ByPK EXCEPT !.updates = Chose({"a"}), !.nothing = TRUE]}
MCBefore == {[a |-> 5, b |-> 2, id |-> 1], [a |-> 5, b |-> 9, id |-> 2]}
MCRowSets == {StructRows(t) : t \in MCTypes} \cup {MapRows}

-----------------------------------------------------------------------------
vars == <<recipeVars, write>>
Init == RecipesInit /\ MappingInit
Next ==
    \/ write = {} /\ RecipesNext /\ UNCHANGED write
    \/ (\A c \in Callers : pc[c] = "idle") /\ table = {} /\ MappingNext /\ UNCHANGED recipeVars
Spec == Init /\ [][Next]_vars /\ RecipesFairness
==============================================================================
