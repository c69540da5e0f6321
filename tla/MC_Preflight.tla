---------------------------- MODULE MC_Preflight ----------------------------
(* Small instances of Preflight: plans over two tables, in six settings. *)
EXTENDS Preflight

CONSTANTS c1, c2, t1, t2

\* A NOT NULL that can be measured.
Good ==
  [type |-> "nullability", phase |-> "contract", compatible |-> TRUE, deps |-> <<>>,
   sql |-> FALSE, drifted |-> FALSE, unknown |-> FALSE, defined |-> TRUE, demands |-> TRUE,
   measurable |-> TRUE, target |-> t1, reference |-> t2,
   scoped |-> TRUE, refScoped |-> TRUE, queryable |-> TRUE]

Plan(n, steps) ==
  [id |-> n, dialect |-> Dialect, schema |-> [i \in Scopes |-> 1], incomplete |-> FALSE,
   opaque |-> FALSE, supportedVersion |-> TRUE, steps |-> steps]

NotNull == Plan(1, <<Good>>)
ForeignKey == Plan(2, <<[Good EXCEPT !.type = "foreign_key"]>>)
Unqueryable == Plan(4, <<[Good EXCEPT !.type = "index", !.queryable = FALSE]>>)
Foreign == [NotNull EXCEPT !.dialect = "mysql"]

\* Every step the derivation tells apart, with at most two flags that are not
\* as in Good: alone, and after a step that expands.
Flags ==
  {b \in [1..7 -> BOOLEAN] : Cardinality({f \in 1..7 : b[f]}) <= 2}
MCSteps ==
  {[Good EXCEPT !.type = y, !.phase = h, !.compatible = ~b[1], !.sql = b[2], !.drifted = b[3],
                !.unknown = b[4], !.defined = ~b[5], !.demands = ~b[6], !.measurable = ~b[7],
                !.deps = d] :
     y \in StepTypes, h \in Phases, b \in Flags, d \in {<<>>, <<0>>}}
MCFirst == [Good EXCEPT !.type = "index", !.phase = "expand", !.demands = FALSE]
AllPlans ==
  {Plan(1, <<s>>) : s \in MCSteps} \cup {Plan(2, <<MCFirst, s>>) : s \in MCSteps}
    \cup {[NotNull EXCEPT !.incomplete = TRUE], [NotNull EXCEPT !.opaque = TRUE],
          Unqueryable, Foreign}

\* One collection of a plan in a database at rest.
Quiet(plans) ==
  [plans |-> plans, collectors |-> {c1}, definitions |-> {1}, shapes |-> {"integer"},
   ages |-> {1}, maxTime |-> 1, maxSkew |-> 0, maxAttempts |-> 1, maxDocs |-> 0,
   maxDDL |-> 0, maxDML |-> 0, maxBad |-> 0]

MCSettings ==
  << Quiet(AllPlans),
     \* Copies and edits of the artifacts of two collectors.
     [Quiet({NotNull, Unqueryable}) EXCEPT !.collectors = {c1, c2}, !.maxAttempts = 2, !.maxDocs = 3],
     \* A long collection, and a clock that is adjusted.
     [Quiet({NotNull}) EXCEPT !.maxTime = 4, !.maxSkew = 1, !.ages = {0, 1, 2}],
     \* The last generation.
     [Quiet({NotNull}) EXCEPT !.maxAttempts = 3],
     \* Other sessions at work.
     [Quiet({ForeignKey}) EXCEPT !.definitions = {1, 2}, !.shapes = {"integer", "hidden"},
                                 !.maxDDL = 2, !.maxDML = 1, !.maxBad = 1],
     \* Every shape, changing once.
     [Quiet({NotNull, ForeignKey}) EXCEPT !.shapes = Shapes, !.maxDDL = 1] >>
=============================================================================
