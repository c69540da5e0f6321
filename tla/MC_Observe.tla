----------------------------- MODULE MC_Observe -----------------------------
(* A scope explored three ways: its budget and counters under three           *)
(* statements, its events under two with a transaction and two drains, and    *)
(* the reader of one statement's rows.  Statements are interchangeable: they   *)
(* begin in the order s1, s2, s3.                                              *)
EXTENDS Observe, ObservedRows

CONSTANTS s1, s2, s3, k1, k2

MCStatements == {s1, s2, s3}
Order == <<s1, s2, s3>>
MCLimits == {NoLimit, 0, 1, 2}
MCResults == {<<0>>, <<2>>, <<1, 0>>, <<0, 2>>, <<1, 1, 1>>}

VARIABLE lane
allVars == <<lane, vars, rowsVars>>

MCInit ==
  /\ lane \in {"budget", "events", "rows"}
  /\ Init /\ RowsInit
  /\ lane # "rows" => result = <<0>>
  /\ lane = "budget" => limit # 1
  /\ lane = "events" => limit \in {NoLimit, 1} /\ ~repeat
  /\ lane = "rows" => limit = NoLimit /\ ~repeat

Lane(name, others) == lane = name /\ UNCHANGED <<lane, others>>
InOrder(i) == \A j \in 1..(i - 1) : fate[Order[j]] # "new"
Statement(s) == Begin(s) \/ Saturate(s) \/ \E o \in Outcomes : End(s, o)

MCNext ==
  \/ /\ Lane("budget", rowsVars)
     /\ \/ \E i \in 1..3 : InOrder(i) /\ Statement(Order[i])
        \/ Finish \/ Reject
  \/ /\ Lane("events", rowsVars)
     /\ \/ \E i \in 1..2 : InOrder(i) /\ Statement(Order[i])
        \/ Finish
        \/ \E x \in Transactions, ok \in BOOLEAN : TxBegin(x, ok) \/ TxEnd(x, ok)
        \/ \E d \in Drainers : DrainStart(d) \/ DrainTake(d) \/ Deliver(d) \/ DrainEnd(d)
  \/ Lane("rows", vars) /\ RowsNext

MCSpec ==
  /\ MCInit /\ [][MCNext]_allVars
  /\ \A d \in Drainers : WF_vars(DrainTake(d) \/ Deliver(d) \/ DrainEnd(d))
=============================================================================
