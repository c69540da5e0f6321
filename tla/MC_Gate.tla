------------------------------- MODULE MC_Gate -------------------------------
(* Gate over two tables, two tenants and every kind of settings.           *)
EXTENDS Gate, TLC

NoRules == <<>>
Rule(severity, supp) == [enabled |-> TRUE, severity |-> severity, supp |-> supp]
Lenient == ("UPDATE_WITHOUT_WHERE" :> Rule("high", "yes")) @@ ("WEAK_PREDICATE" :> Rule("", "no"))

Settings(strict, auto, dialect, keys, risk) ==
    [strict |-> strict, auto |-> auto, dialect |-> dialect, tenant |-> Number(1), schema |-> TRUE,
     risk |-> risk, err |-> FALSE, policies |-> {}, dbkeys |-> keys, alias |-> ""]

MCSettings ==
    {Settings(FALSE, FALSE, "postgres", {<<"id">>}, NoRules),
     Settings(FALSE, FALSE, "mysql", {<<"tenant", "id">>}, Lenient),
     Settings(TRUE, TRUE, "postgres", {<<"tenant", "id">>}, NoRules),
     Settings(TRUE, FALSE, "mysql", {<<"id">>}, Lenient),
     [Settings(TRUE, TRUE, "postgres", {<<"id">>}, NoRules) EXCEPT !.alias = "o"]}

Policy(table) == [NoPolicy EXCEPT !.table = table, !.tenant = "tenant"]
MCPolicies ==
    {[Policy("orders") EXCEPT !.tmode = "block", !.pii = {"del"}, !.required = {"x"}],
     [Policy("orders") EXCEPT !.soft = "del", !.immutable = {"id"}],
     Policy("users")}

TenantIs(t) == Equal(<<"orders", "tenant">>, Number(t))
MCConditions ==
    {Equal(<<"", "id">>, Number(1)), TenantIs(1), TenantIs(2), Equal(<<"", "x">>, Number(1)),
     Leaf("in", <<"", "id">>, "IN", <<Number(1), Number(2)>>),
     Branch("not", <<Branch("group", <<TenantIs(2)>>)>>),
     [Opaque EXCEPT !.opaque = "weak"]}

MCJoins ==
    {[type |-> t, on |-> on] : t \in {"left", "right"},
       on \in {SameColumn(<<"orders", "x">>, <<"users", "uid">>),
               Branch("and", <<SameColumn(<<"orders", "x">>, <<"users", "uid">>),
                               Equal(<<"users", "tenant">>, Number(1))>>)}}
MCProjections == {{<<"", "id">>}, {<<"", "id">>, <<"", "del">>}}
MCSuppressions == {"UPDATE_WITHOUT_WHERE", "WEAK_PREDICATE"}

Row(t) == ("id" :> Number(2)) @@ ("x" :> Number(2)) @@ (IF t = 0 THEN <<>> ELSE ("tenant" :> Number(t)))
Conflict(cols) == <<[cols |-> cols, updates |-> {"x"}]>>
Batch(t) == <<Row(1), [Row(t) EXCEPT !.id = Number(3)]>>
MCInserts ==
    {[rows |-> rows, conflict |-> c] : rows \in {<<Row(0)>>, <<Row(1)>>, <<Row(2)>>, Batch(1), Batch(2)},
       c \in {<<>>, Conflict(<<"id">>), Conflict(<<"tenant", "id">>)}}

MCDatabases ==
    {{Order(1, 1, 1, NULL), Order(2, 2, 1, NULL)},
     {Order(1, 1, 1, NULL), Order(1, 2, 1, NULL), Order(2, 1, 1, 1)}}
MCOtherRows == {Order(3, 2, 1, NULL)}
MCUsers == {[uid |-> 1, tenant |-> t] : t \in {1, 2}}
==============================================================================
