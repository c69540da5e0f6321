------------------------------ MODULE MC_Review ------------------------------
(* What is reviewed and what then runs, in parts that do not touch each       *)
(* other and are explored one at a time: the evidence of a review, validated *)
(* plans, the migration planner and the migration status.                    *)
EXTENDS ReviewSession, PlanBinding, Migration, MigrationStatus, TLC

Known(m, v) == [m |-> m, v |-> v, known |-> TRUE]
MCChains == <<[calls |-> <<Known("select", 1), Known("where", 1)>>, name |-> "Get", partial |-> FALSE],
              [calls |-> <<Known("select", 1), [Known("where", 1) EXCEPT !.known = FALSE]>>,
               name |-> "Get", partial |-> FALSE]>>
Like == [calls |-> <<[m |-> "select", v |-> 1], [m |-> "where", v |-> 1]>>,
         config |-> "c", known |-> TRUE, env |-> "e", opaque |-> FALSE]
MCForms == {Like, [Like EXCEPT !.calls = <<[m |-> "select", v |-> 1]>>],
            [Like EXCEPT !.calls[2].v = 2], [Like EXCEPT !.config = "d"],
            [Like EXCEPT !.known = FALSE], [Like EXCEPT !.env = "f"], [Like EXCEPT !.opaque = TRUE]}

-----------------------------------------------------------------------------
(* One low-risk, one high-risk, one blocked and one owned high-risk material. *)
CONSTANTS a1, a2, h1, h2, low, high, bad, owned

MCAttempts == {a1, a2}
MCHandles == {h1, h2}
MCMaterials == {low, high, bad, owned}
MCBlocked == {bad}
MCRisky == {high, owned}
MCOwned == {owned}
Symmetry == Permutations(MCAttempts) \cup Permutations(MCHandles)

-----------------------------------------------------------------------------
Clause(verb, notNull, default) == [verb |-> verb, notNull |-> notNull, default |-> default]
Alter(clauses) == [form |-> "alter", clauses |-> clauses]
MCClauses ==
    {Clause(v, FALSE, FALSE) : v \in {"addConstraint", "drop", "dropConstraint", "rename", "change", "type", "modify", "other"}}
      \cup {Clause("add", n, d) : n, d \in BOOLEAN}
      \cup {Clause("setNotNull", TRUE, FALSE), Clause("dropNotNull", TRUE, FALSE)}
MCStatements ==
    {[form |-> f, clauses |-> <<>>] :
       f \in {"createTable", "dropTable", "createIndex", "createIndexConcurrently", "dropIndex", "other"}}
      \cup {Alter(<<c>>) : c \in MCClauses}
      \cup {Alter(<<Clause("add", n, FALSE), c>>) : n \in BOOLEAN, c \in {Clause("drop", FALSE, FALSE), Clause("add", FALSE, TRUE)}}
MCScripts == UNION {[1..n -> MCStatements] : n \in 0..2}
MCEdited == {<<Alter(<<Clause("drop", FALSE, FALSE)>>)>>}

Structural == {"AlterIndex", "AlterColumnDefault", "AddForeignKey", "AddCheck", "SchemaIdentityDifference"}
MCSteps ==
    {Plain(y) : y \in Structural \cup {"AddTable", "DropColumn", "RenameColumn", "AddIndex"}}
      \cup {[Plain("AddColumn") EXCEPT !.unknown = TRUE]}
      \cup {[Plain("AlterColumnType") EXCEPT !.from = a, !.to = b] : a, b \in DOMAIN TypeOf}
MCDesired == {<<>>, <<0, 1>>, <<2, 1, 2>>, <<1, 3>>}
MCStructured == {<<s>> : s \in MCSteps} \cup {<<s, Plain(y)>> : s \in MCSteps, y \in {"AddTable", "DropColumn", "AddCheck"}}

-----------------------------------------------------------------------------
VARIABLE lane

vars == <<lane, reviewVars, bindingVars, migrationVars, statusVars>>
Init ==
    /\ lane \in {"review", "binding", "split", "command", "plan", "status"}
    /\ ReviewInit /\ BindingInit /\ MigrationInit /\ StatusInit
    /\ lane # "command" => file = <<>>
    /\ lane # "review" => session.reason = ""
    /\ lane # "binding" => query = low /\ approval = 1

Lane(name, others) == lane = name /\ UNCHANGED <<lane, others>>
Next ==
    \/ Lane("review", <<bindingVars, migrationVars, statusVars>>) /\ ReviewNext
    \/ Lane("binding", <<reviewVars, migrationVars, statusVars>>) /\ BindingNext
    \/ Lane("split", <<reviewVars, bindingVars, statusVars>>) /\ Splitting
    \/ Lane("command", <<reviewVars, bindingVars, statusVars>>) /\ Commanding
    \/ Lane("plan", <<reviewVars, bindingVars, statusVars>>) /\ Holding
    \/ Lane("status", <<reviewVars, bindingVars, migrationVars>>) /\ StatusNext
Spec == Init /\ [][Next]_vars
==============================================================================
