------------------------------ MODULE Observe ------------------------------
(***************************************************************************)
(* internal/observe: one observation scope (State in state.go).  The       *)
(* goroutines of a request share the scope through their context.  Before  *)
(* each statement they reserve budget and get a ticket (Begin), after it   *)
(* they complete the ticket (End), and transaction boundaries and refusals *)
(* of earlier gates are counted beside them.  Finish freezes the summary   *)
(* while statements may still be running; Drain hands the queued events to *)
(* a hook without the lock held.                                           *)
(*                                                                         *)
(* Every method but Drain is one critical section of State.mu, and so one  *)
(* action.  Snapshot only reads: what it can return is what the invariants *)
(* below say of sum.                                                       *)
(***************************************************************************)
EXTENDS Integers, Sequences, FiniteSets

CONSTANTS
  Statements,    \* calls of Executor methods made under the scope
  Shapes,        \* (owner, key) pairs repeated-shape detection can group by
  Transactions,  \* transactions begun under the scope
  Drainers,      \* goroutines that call Drain
  Limits,        \* query limits Start may be given (NoLimit: a nil pointer)
  Repeats,       \* whether Start may be asked to detect repeated shapes
  MaxEvents,     \* capacity of the event queue (256)
  MaxTracking,   \* capacity of pending (1024)
  MaxShapes,     \* capacity of shapes (128)
  MaxNumber,     \* where counters saturate (2^53 - 1)
  Suspect,       \* repetitions of one shape that are reported (5)
  MaxRejects,    \* bound: refusals by earlier gates
  NoLimit,
  NoShape        \* a statement that is not grouped

ASSUME ScopeAssumption ==
  /\ MaxEvents \in Nat /\ MaxTracking \in Nat /\ MaxShapes \in Nat
  /\ MaxNumber \in Nat /\ Suspect \in Nat \ {0} /\ MaxRejects \in Nat
  /\ MaxTracking < MaxNumber /\ Suspect < MaxNumber
ASSUME LimitsAssumption ==
  \A l \in Limits : l = NoLimit \/ (l \in Nat /\ l <= MaxNumber)
ASSUME RepeatsAssumption == Repeats \subseteq BOOLEAN
ASSUME NoLimitAssumption == NoLimit \notin Nat
ASSUME NoShapeAssumption == NoShape \notin Shapes
ASSUME StatementsAssumption == IsFiniteSet(Statements)

VARIABLES
  limit, repeat, \* the options Start copied
  finished, used,
  sum,           \* the counters of Summary that count statements and events
  saturated, truncated,
  fate,          \* fate[s]: what the scope recorded of statement s
  group,         \* group[s]: the shape s is counted under
  eligible,      \* eligible[s]: s takes part in repeated-shape detection
  shapes,        \* shapes[k]: repetitions of shape k, or NoGroup
  maxRepeat,
  events,        \* the queue
  tx,            \* tx[x]: how far transaction x is
  draining,      \* the flag concurrent drains test
  dpc, batch,    \* per drainer: its place in Drain, and the events it took
  delivered      \* history: calls of the hook

summaryVars == <<sum, saturated, truncated, maxRepeat>>
scopeVars == <<limit, repeat>>
statementVars == <<fate, group, eligible, shapes>>
drainVars == <<draining, dpc, batch, delivered>>
vars == <<scopeVars, finished, used, summaryVars, statementVars, events, tx, drainVars>>

Counters == {"attempted", "dispatched", "rejected", "preflight", "completed",
             "incomplete", "inFlight", "handoffs", "limited", "successful",
             "partial", "failed", "boundaries", "txErrors", "suspected",
             "shapeUnknown", "dropped"}

\* How a tracked statement ends.  Finish, not the caller, says "incomplete".
Outcomes == {"success", "partial", "error", "handoff"}

\* "open": in pending.  "refused": over budget; "limited": dispatched but not
\* tracked; "barred" and "late": refused and dispatched after Finish.
Ticketed == Outcomes \cup {"open", "incomplete"}
Sent == Ticketed \cup {"limited", "late"}
Fates == Sent \cup {"new", "refused", "barred"}

pending == {s \in Statements : fate[s] = "open"}

NoGroup == -1
Groups == {k \in Shapes : shapes[k] # NoGroup}

Events == [outcome : Fates \cup {"rejected"},
           code : {"none", "unknown", "failure", "budget", "limited", "suspected"}]
Event(outcome, code) == [outcome |-> outcome, code |-> code]

Least(a, b) == IF a <= b THEN a ELSE b

(***************************************************************************)
(* add and enqueue.  All counters advance by one for each counted thing;   *)
(* inc says by how much in this critical section.                          *)
(***************************************************************************)
Zero == [n \in Counters |-> 0]
Ones(S) == [n \in Counters |-> IF n \in S THEN 1 ELSE 0]

\* Mutant: the bound of the queue is off by one.
RoomOneMore(n) == Least(n, MaxEvents + 1 - Len(events))

\* How many of n new events the queue takes.
Room(n) == Least(n, MaxEvents - Len(events))

\* Count inc and enqueue es.  trunc: something else than an event was cut;
\* over: a duration or row metric left its range.
Record(inc, es, trunc, over) ==
  LET kept == Room(Len(es))
      all == [inc EXCEPT !["dropped"] = Len(es) - kept]
  IN /\ events' = events \o SubSeq(es, 1, kept)
     /\ sum' = [n \in Counters |-> Least(sum[n] + all[n], MaxNumber)]
     /\ saturated' = (saturated \/ over \/ \E n \in Counters : sum[n] + all[n] > MaxNumber)
     /\ truncated' = (truncated \/ trunc \/ kept < Len(es))

Init ==
  /\ limit \in Limits /\ repeat \in Repeats
  /\ finished = FALSE /\ used = 0
  /\ sum = Zero
  /\ saturated = FALSE /\ truncated = FALSE
  /\ fate = [s \in Statements |-> "new"]
  /\ group = [s \in Statements |-> NoShape]
  /\ eligible = [s \in Statements |-> FALSE]
  /\ shapes = [k \in Shapes |-> NoGroup]
  /\ maxRepeat = 0
  /\ events = <<>>
  /\ tx = [x \in Transactions |-> "none"]
  /\ draining = FALSE
  /\ dpc = [d \in Drainers |-> "out"]
  /\ batch = [d \in Drainers |-> <<>>]
  /\ delivered = 0

(***************************************************************************)
(* Begin: the budget first, and it is used up even after Finish; then the  *)
(* bound on tracked statements; then a ticket, grouped under shape k when  *)
(* there is a group or room for one.  long: the key is too long to keep.   *)
(***************************************************************************)
Exhausted == limit # NoLimit /\ used >= limit
Reserve == used' = Least(used + 1, MaxNumber)
Becomes(s, f) == fate' = [fate EXCEPT ![s] = f]

BeginRefused(s) ==
  /\ fate[s] = "new" /\ Exhausted
  /\ IF finished
       THEN Becomes(s, "barred") /\ UNCHANGED <<summaryVars, events>>
       ELSE /\ Becomes(s, "refused")
            /\ Record(Ones({"attempted", "rejected"}), <<Event("rejected", "budget")>>, FALSE, FALSE)
            /\ UNCHANGED maxRepeat
  /\ UNCHANGED <<scopeVars, finished, used, group, eligible, shapes, tx, drainVars>>

\* Mutant: the reservation of a late statement is forgotten.
BeginLateUncounted(s) ==
  /\ fate[s] = "new" /\ finished
  /\ Becomes(s, "late")
  /\ UNCHANGED <<scopeVars, finished, used, summaryVars, group, eligible, shapes, events, tx, drainVars>>

BeginLate(s) ==
  /\ fate[s] = "new" /\ ~Exhausted /\ finished
  /\ Reserve
  /\ Becomes(s, "late")
  /\ UNCHANGED <<scopeVars, finished, summaryVars, group, eligible, shapes, events, tx, drainVars>>

BeginUntracked(s, e) ==
  /\ fate[s] = "new" /\ ~Exhausted /\ ~finished
  /\ Cardinality(pending) >= MaxTracking
  /\ Reserve
  /\ Becomes(s, "limited")
  /\ Record(Ones({"attempted", "dispatched", "limited", "incomplete"}
                  \cup IF e /\ repeat THEN {"shapeUnknown"} ELSE {}),
            <<Event("limited", "limited")>>, TRUE, FALSE)
  /\ UNCHANGED <<scopeVars, finished, maxRepeat, group, eligible, shapes, tx, drainVars>>

BeginTracked(s, e, k, long) ==
  /\ fate[s] = "new" /\ ~Exhausted /\ ~finished
  /\ Cardinality(pending) < MaxTracking
  /\ Reserve
  /\ Becomes(s, "open")
  /\ eligible' = [eligible EXCEPT ![s] = e]
  /\ LET wanted == repeat /\ e /\ k # NoShape
         found == wanted /\ k \in Groups
         new == wanted /\ ~found /\ Cardinality(Groups) < MaxShapes
     IN /\ group' = [group EXCEPT ![s] = IF found \/ new THEN k ELSE NoShape]
        /\ shapes' = IF new THEN [shapes EXCEPT ![k] = 0] ELSE shapes
        /\ Record(Ones({"attempted", "dispatched", "inFlight"}), <<>>,
                  (repeat /\ long) \/ (wanted /\ ~found /\ ~new), FALSE)
  /\ UNCHANGED <<scopeVars, finished, maxRepeat, tx, drainVars>>

Begin(s) ==
  \/ BeginRefused(s)
  \/ BeginLate(s)
  \/ \E e \in BOOLEAN : BeginUntracked(s, e)
  \/ \E e \in BOOLEAN, k \in Shapes \cup {NoShape}, long \in BOOLEAN :
       (long => k = NoShape) /\ BeginTracked(s, e, k, long)

(***************************************************************************)
(* End and Finish.                                                         *)
(***************************************************************************)

\* The counters an outcome advances.
Tally(o) ==
  CASE o = "success" -> {"completed", "successful"}
    [] o = "partial" -> {"completed", "partial"}
    [] o = "error"   -> {"completed", "failed"}
    [] o = "handoff" -> {"incomplete", "handoffs"}

Code(o) ==
  CASE o = "error"   -> "failure"
    [] o = "handoff" -> "unknown"
    [] OTHER         -> "none"

\* Mutant: every repetition beyond the limit is suspected anew.
CompleteEveryFifth(s, o, over) ==
  LET counted == repeat /\ eligible[s] /\ group[s] # NoShape /\ o \in {"success", "partial"}
      n == shapes[group[s]]
      hit == counted /\ n + 1 >= Suspect
      names == Tally(o) \cup (IF hit THEN {"suspected"} ELSE {})
  IN /\ Becomes(s, o)
     /\ shapes' = IF counted THEN [shapes EXCEPT ![group[s]] = Least(n + 1, MaxNumber)]
                             ELSE shapes
     /\ maxRepeat' = IF counted /\ n + 1 > maxRepeat THEN n + 1 ELSE maxRepeat
     /\ Record([Ones(names) EXCEPT !["inFlight"] = -1], <<Event(o, Code(o))>>, FALSE, over)

\* end, for a ticket the caller completes with outcome o.  A clean read is
\* counted under its shape; the read that makes Suspect of them is reported.
Complete(s, o, over) ==
  LET counted == repeat /\ eligible[s] /\ group[s] # NoShape /\ o \in {"success", "partial"}
      unknown == repeat /\ eligible[s] /\ ~counted
      n == shapes[group[s]]
      hit == counted /\ Least(n + 1, MaxNumber) = Suspect
      names == Tally(o) \cup (IF hit THEN {"suspected"} ELSE {})
                        \cup (IF unknown THEN {"shapeUnknown"} ELSE {})
  IN /\ Becomes(s, o)
     /\ shapes' = IF counted THEN [shapes EXCEPT ![group[s]] = Least(n + 1, MaxNumber)]
                             ELSE shapes
     /\ maxRepeat' = IF counted /\ Least(n + 1, MaxNumber) > maxRepeat
                       THEN Least(n + 1, MaxNumber) ELSE maxRepeat
     /\ Record([Ones(names) EXCEPT !["inFlight"] = -1],
               <<Event(o, IF hit THEN "suspected" ELSE Code(o))>>,
               FALSE, over \/ (counted /\ n = MaxNumber))

\* Mutant: a ticket is completed as often as End is called.
EndUnguarded(s, o) ==
  /\ fate[s] \in Ticketed
  /\ \E over \in BOOLEAN : Complete(s, o, over)
  /\ UNCHANGED <<scopeVars, finished, used, group, eligible, tx, drainVars>>

\* The holder of s's ticket completes it.  Only a pending ticket counts: the
\* second completion of a row or of a reader, and one after Finish, do nothing.
End(s, o) ==
  /\ fate[s] \in Ticketed
  /\ \/ /\ s \in pending
        /\ \E over \in BOOLEAN : Complete(s, o, over)
        /\ UNCHANGED <<scopeVars, finished, used, group, eligible, tx, drainVars>>
     \/ s \notin pending /\ UNCHANGED vars

\* Dispatch, Update, Affected and Saturate write metrics of a pending ticket.
\* The model keeps what they do to the summary: a row counter at its end.
Saturate(s) ==
  /\ s \in pending
  /\ saturated' = TRUE
  /\ UNCHANGED <<scopeVars, finished, used, sum, truncated, maxRepeat, statementVars,
                 events, tx, drainVars>>

\* Mutant: pending tickets are left to their holders.
FinishKeepsPending ==
  /\ ~finished /\ finished' = TRUE
  /\ shapes' = [k \in Shapes |-> NoGroup]
  /\ UNCHANGED <<scopeVars, used, summaryVars, fate, group, eligible, events, tx, drainVars>>

\* Finish ends every pending ticket as incomplete and forgets the shapes; a
\* second Finish only reads.
Finish ==
  \/ /\ ~finished
     /\ finished' = TRUE
     /\ fate' = [s \in Statements |-> IF s \in pending THEN "incomplete" ELSE fate[s]]
     /\ shapes' = [k \in Shapes |-> NoGroup]
     /\ LET n == Cardinality(pending)
            u == IF repeat THEN Cardinality({s \in pending : eligible[s]}) ELSE 0
        IN \E over \in BOOLEAN :
             Record([Zero EXCEPT !["incomplete"] = n, !["inFlight"] = -n, !["shapeUnknown"] = u],
                    [i \in 1..n |-> Event("incomplete", "unknown")], FALSE, over)
     /\ UNCHANGED <<scopeVars, used, maxRepeat, group, eligible, tx, drainVars>>
  \/ finished /\ UNCHANGED vars

(***************************************************************************)
(* Reject and Tx: what is counted beside the statements.                   *)
(***************************************************************************)
Reject ==
  /\ sum["preflight"] < MaxRejects
  /\ \/ /\ ~finished
        /\ Record(Ones({"preflight"}), <<Event("rejected", "unknown")>>, FALSE, FALSE)
        /\ UNCHANGED <<scopeVars, finished, used, maxRepeat, statementVars, tx, drainVars>>
     \/ finished /\ UNCHANGED vars

Boundary(ok) ==
  IF finished
    THEN UNCHANGED <<summaryVars, events>>
    ELSE /\ Record(Ones({"boundaries"} \cup IF ok THEN {} ELSE {"txErrors"}),
                   <<IF ok THEN Event("success", "none") ELSE Event("error", "failure")>>,
                   FALSE, FALSE)
         /\ UNCHANGED maxRepeat

\* BeginTx; a transaction that failed to begin has no other boundary.
TxBegin(x, ok) ==
  /\ tx[x] = "none"
  /\ tx' = [tx EXCEPT ![x] = IF ok THEN "open" ELSE "failed"]
  /\ Boundary(ok)
  /\ UNCHANGED <<scopeVars, finished, used, statementVars, drainVars>>

\* Mutant: each Commit and Rollback counts as a boundary.
TxEndEveryCall(x, ok) ==
  /\ tx[x] \in {"open", "ended"}
  /\ tx' = [tx EXCEPT ![x] = "ended"]
  /\ Boundary(ok)
  /\ UNCHANGED <<scopeVars, finished, used, statementVars, drainVars>>

\* Commit or Rollback of orm.Tx.  The first one is the boundary; the Rollback
\* a caller defers behind its Commit finds ended set.
TxEnd(x, ok) ==
  \/ /\ tx[x] = "open"
     /\ tx' = [tx EXCEPT ![x] = "ended"]
     /\ Boundary(ok)
     /\ UNCHANGED <<scopeVars, finished, used, statementVars, drainVars>>
  \/ tx[x] = "ended" /\ UNCHANGED vars

(***************************************************************************)
(* Drain: take the queue under the lock, call the hook without it.  The    *)
(* hook may panic, which is recovered, and may itself use the scope: any   *)
(* action may happen between two deliveries.                               *)
(***************************************************************************)
DrainStart(d) ==
  /\ dpc[d] = "out"
  /\ \/ /\ ~draining
        /\ draining' = TRUE
        /\ dpc' = [dpc EXCEPT ![d] = "take"]
        /\ UNCHANGED <<scopeVars, finished, used, summaryVars, statementVars, events, tx, batch, delivered>>
     \/ draining /\ UNCHANGED vars         \* ErrBusy

\* Mutant: the events taken stay in the queue.
DrainTakeKeepsQueue(d) ==
  /\ dpc[d] = "take"
  /\ batch' = [batch EXCEPT ![d] = events]
  /\ dpc' = [dpc EXCEPT ![d] = "deliver"]
  /\ UNCHANGED <<scopeVars, finished, used, summaryVars, statementVars, events, tx, draining, delivered>>

DrainTake(d) ==
  /\ dpc[d] = "take"
  /\ batch' = [batch EXCEPT ![d] = events]
  /\ events' = <<>>
  /\ dpc' = [dpc EXCEPT ![d] = "deliver"]
  /\ UNCHANGED <<scopeVars, finished, used, summaryVars, statementVars, tx, draining, delivered>>

Deliver(d) ==
  /\ dpc[d] = "deliver" /\ batch[d] # <<>>
  /\ batch' = [batch EXCEPT ![d] = Tail(@)]
  /\ delivered' = delivered + 1
  /\ UNCHANGED <<scopeVars, finished, used, summaryVars, statementVars, events, tx, draining, dpc>>

\* Mutant: the flag of the drain is not reset.
DrainEndStaysBusy(d) ==
  /\ dpc[d] = "deliver" /\ batch[d] = <<>>
  /\ dpc' = [dpc EXCEPT ![d] = "out"]
  /\ UNCHANGED <<scopeVars, finished, used, summaryVars, statementVars, events, tx, draining, batch, delivered>>

DrainEnd(d) ==
  /\ dpc[d] = "deliver" /\ batch[d] = <<>>
  /\ draining' = FALSE
  /\ dpc' = [dpc EXCEPT ![d] = "out"]
  /\ UNCHANGED <<scopeVars, finished, used, summaryVars, statementVars, events, tx, batch, delivered>>

Next ==
  \/ \E s \in Statements : Begin(s) \/ Saturate(s) \/ \E o \in Outcomes : End(s, o)
  \/ Finish
  \/ Reject
  \/ \E x \in Transactions, ok \in BOOLEAN : TxBegin(x, ok) \/ TxEnd(x, ok)
  \/ \E d \in Drainers : DrainStart(d) \/ DrainTake(d) \/ Deliver(d) \/ DrainEnd(d)

Spec == Init /\ [][Next]_vars

\* A Drain that started goes on: its goroutine is scheduled, State.mu is held
\* only for bounded work, and the application's hook returns or panics.
FairSpec ==
  Spec /\ \A d \in Drainers : WF_vars(DrainTake(d) \/ Deliver(d) \/ DrainEnd(d))

(***************************************************************************)
(* Properties.                                                             *)
(***************************************************************************)

\* The type of every variable.  The ranges carry the bounds of the code: no
\* counter leaves 0..MaxNumber (negative or above, it could not be published),
\* and the queue holds at most MaxEvents events.
TypeOK ==
  /\ limit \in Limits /\ repeat \in Repeats
  /\ finished \in BOOLEAN /\ used \in 0..MaxNumber
  /\ sum \in [Counters -> 0..MaxNumber]
  /\ saturated \in BOOLEAN /\ truncated \in BOOLEAN
  /\ fate \in [Statements -> Fates]
  /\ group \in [Statements -> Shapes \cup {NoShape}]
  /\ eligible \in [Statements -> BOOLEAN]
  /\ shapes \in [Shapes -> {NoGroup} \cup 0..MaxNumber]
  /\ maxRepeat \in 0..MaxNumber
  /\ events \in Seq(Events) /\ Len(events) <= MaxEvents
  /\ tx \in [Transactions -> {"none", "open", "failed", "ended"}]
  /\ draining \in BOOLEAN
  /\ dpc \in [Drainers -> {"out", "take", "deliver"}]
  /\ batch \in [Drainers -> Seq(Events)]
  /\ delivered \in Nat

\* The number of statements with a fate in F.
Count(F) == Cardinality({s \in Statements : fate[s] \in F})

\* The budget is exact and outlives the interval: whatever the interleaving of
\* concurrent Begins, and before, across and after Finish, no more statements
\* are dispatched than the limit, and none is refused while budget is left.
BudgetIsExact ==
  /\ used = Least(Count(Sent), MaxNumber)
  /\ limit # NoLimit =>
       /\ Count(Sent) <= limit
       /\ Count({"refused", "barred"}) > 0 => Count(Sent) = limit

\* Before saturation every counter of the summary equals the number of
\* statements with the fate it names: nothing is counted twice when a ticket is
\* completed twice or late, nothing is missed when Finish overtakes it.
CountersMatchFates ==
  /\ sum["inFlight"] = Count({"open"})
  /\ ~saturated =>
       /\ sum["attempted"] = Count(Ticketed \cup {"refused", "limited"})
       /\ sum["dispatched"] = Count(Ticketed \cup {"limited"})
       /\ sum["rejected"] = Count({"refused"})
       /\ sum["completed"] = Count({"success", "partial", "error"})
       /\ sum["incomplete"] = Count({"incomplete", "handoff", "limited"})
       /\ sum["handoffs"] = Count({"handoff"})
       /\ sum["limited"] = Count({"limited"})
       /\ sum["successful"] = Count({"success"})
       /\ sum["partial"] = Count({"partial"})
       /\ sum["failed"] = Count({"error"})

\* Everything that is to be reported as an event: refusals, completions and
\* boundaries.
Reported == sum["rejected"] + sum["preflight"] + sum["completed"] + sum["incomplete"]
            + sum["boundaries"]

\* No event is lost or delivered twice: each reported thing is in the queue, in
\* the hands of the drain that runs, delivered, or counted as dropped -- and a
\* dropped one leaves the truncated mark.  Events recorded while a drain calls
\* its hook go to the next batch.
EventsAccounted ==
  /\ ~saturated =>
       /\ \A d \in Drainers : dpc[d] = "deliver" =>
            Reported = Len(events) + Len(batch[d]) + delivered + sum["dropped"]
       /\ (\A d \in Drainers : dpc[d] # "deliver") =>
            Reported = Len(events) + delivered + sum["dropped"]
  /\ sum["dropped"] > 0 => truncated

\* One report per repeated shape: while the scope is open the suspected groups
\* are those with Suspect repetitions or more, however many more follow.
SuspectedOnce ==
  ~saturated /\ ~finished =>
    /\ sum["suspected"] = Cardinality({k \in Groups : shapes[k] >= Suspect})
    /\ \A k \in Groups : shapes[k] <= maxRepeat
    /\ \A k \in Groups : shapes[k] =
         Cardinality({s \in Statements : group[s] = k /\ fate[s] \in {"success", "partial"}})

\* A transaction has at most two boundaries, its begin and the first end.
BoundariesOnce ==
  ~saturated /\ ~finished =>
    sum["boundaries"] = Cardinality({x \in Transactions : tx[x] # "none"})
                        + Cardinality({x \in Transactions : tx[x] = "ended"})

\* The summary a scope publishes is true of its statements, at every moment, and
\* every number in it can be published.
SummaryIsTrue == TypeOK /\ BudgetIsExact /\ CountersMatchFates /\ SuspectedOnce /\ BoundariesOnce

\* Finish freezes the interval: afterwards no completion, refusal, boundary or
\* new statement changes the summary, and nothing more is queued.
Frozen ==
  [][finished => UNCHANGED <<finished, summaryVars>> /\ Len(events') <= Len(events)]_vars

\* A drain that started ends, and with it the busy state other drains meet.
DrainEnds == draining ~> ~draining
=============================================================================
