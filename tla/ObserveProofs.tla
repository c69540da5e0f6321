--------------------------- MODULE ObserveProofs ---------------------------
(***************************************************************************)
(* Proofs about Observe and ObservedRows: for any statements, limits and   *)
(* capacities, and any interleaving of the goroutines of a request, the    *)
(* summary is true of the statements, the budget is exact, every event is  *)
(* accounted for, nothing moves after Finish - and a read is reported as   *)
(* the reader saw it.                                                      *)
(***************************************************************************)
EXTENDS Observe, ObservedRows, FiniteSetTheorems, SequenceTheorems, TLAPS

(***************************************************************************)
(* The invariant                                                           *)
(***************************************************************************)

(* pending is bounded, and empty once the interval is over                 *)
Tracking ==
    /\ Cardinality(pending) <= MaxTracking
    /\ finished => pending = {}

(* A statement is counted under a group that exists, if at all             *)
Grouping ==
    /\ IsFiniteSet(Groups)
    /\ \A s \in Statements : group[s] # NoShape => /\ repeat /\ eligible[s]
                                                   /\ ~finished => group[s] \in Groups

Begun == {x \in Transactions : tx[x] # "none"}
Ended == {x \in Transactions : tx[x] = "ended"}

(* One drain at a time                                                     *)
OneDrain ==
    /\ \A d, e \in Drainers : dpc[d] # "out" /\ dpc[e] # "out" => d = e
    /\ ~draining => \A d \in Drainers : dpc[d] = "out"

ScopeInv ==
    /\ SummaryIsTrue /\ EventsAccounted
    /\ Tracking /\ Grouping /\ IsFiniteSet(Begun) /\ OneDrain

(***************************************************************************)
(* Counting statements                                                     *)
(***************************************************************************)

LEMMA CountNat == \A F : Count(F) \in Nat /\ IsFiniteSet({s \in Statements : fate[s] \in F})
<1> SUFFICES ASSUME NEW F PROVE Count(F) \in Nat /\ IsFiniteSet({s \in Statements : fate[s] \in F})
  OBVIOUS
<1>1. {s \in Statements : fate[s] \in F} \in SUBSET Statements
  OBVIOUS
<1>2. IsFiniteSet({s \in Statements : fate[s] \in F})
  BY <1>1, StatementsAssumption, FS_Subset
<1>3. QED
  BY <1>2, FS_CardinalityType DEF Count

(* One statement's fate changes the counts it belongs to by one            *)
LEMMA CountMoves ==
    ASSUME fate \in [Statements -> Fates], NEW s \in Statements, NEW f, Becomes(s, f), NEW g, g = fate[s]
    PROVE  \A F : Count(F)' = Count(F) + (IF f \in F THEN 1 ELSE 0) - (IF g \in F THEN 1 ELSE 0)
<1> SUFFICES ASSUME NEW F
             PROVE  Count(F)' = Count(F) + (IF f \in F THEN 1 ELSE 0) - (IF g \in F THEN 1 ELSE 0)
  OBVIOUS
<1>1. PICK S : S = {t \in Statements : fate[t] \in F}
  OBVIOUS
<1>2. PICK T : T = {t \in Statements : fate'[t] \in F}
  OBVIOUS
<1>3. \A t \in Statements : fate'[t] = IF t = s THEN f ELSE fate[t]
  BY DEF Becomes
<1>4. S \ {s} = T \ {s} /\ (s \in S <=> g \in F) /\ (s \in T <=> f \in F)
  BY <1>1, <1>2, <1>3
<1>5. IsFiniteSet(S) /\ IsFiniteSet(T)
  BY <1>1, <1>2, StatementsAssumption, FS_Subset
<1>6. /\ Cardinality(S \ {s}) = IF s \in S THEN Cardinality(S) - 1 ELSE Cardinality(S)
      /\ Cardinality(T \ {s}) = IF s \in T THEN Cardinality(T) - 1 ELSE Cardinality(T)
  BY <1>5, FS_RemoveElement
<1>7. Cardinality(S) \in Nat /\ Cardinality(T) \in Nat
  BY <1>5, FS_CardinalityType
<1>8. Count(F) = Cardinality(S) /\ Count(F)' = Cardinality(T)
  BY <1>1, <1>2 DEF Count
<1>9. QED
  BY <1>4, <1>6, <1>7, <1>8

LEMMA CountSame ==
    ASSUME fate' = fate
    PROVE  \A F : Count(F)' = Count(F)
BY DEF Count

LEMMA PendingCount == Cardinality(pending) = Count({"open"})
BY DEF pending, Count

(***************************************************************************)
(* What Record does                                                        *)
(***************************************************************************)

(* inc is counted, but for drops, and n events are offered to the queue    *)
Recorded(inc, n) ==
    /\ sum' \in [Counters -> 0..MaxNumber]
    /\ saturated' \in BOOLEAN /\ truncated' \in BOOLEAN
    /\ events' \in Seq(Events) /\ Len(events') <= MaxEvents
    /\ \A m \in Counters \ {"dropped"} : sum'[m] = Least(sum[m] + inc[m], MaxNumber)
    /\ ~saturated' => /\ ~saturated
                      /\ \A m \in Counters \ {"dropped"} : sum'[m] = sum[m] + inc[m]
                      /\ Len(events') + sum'["dropped"] = Len(events) + sum["dropped"] + n
    /\ sum'["dropped"] > 0 => truncated'

LEMMA Queued ==
    ASSUME events \in Seq(Events), Len(events) <= MaxEvents, NEW es \in Seq(Events), NEW kept, kept = Room(Len(es)),
           events' = events \o SubSeq(es, 1, kept)
    PROVE  /\ kept \in 0..Len(es) /\ events' \in Seq(Events) /\ Len(events') <= MaxEvents
           /\ Len(events') = Len(events) + kept
<1>1. Len(es) \in Nat /\ Len(events) \in Nat /\ MaxEvents \in Nat
  BY ScopeAssumption
<1>2. kept \in 0..Len(es) /\ Len(events) + kept <= MaxEvents
  BY <1>1 DEF Room, Least
<1>3. SubSeq(es, 1, kept) \in Seq(Events) /\ Len(SubSeq(es, 1, kept)) = kept
  BY <1>1, <1>2, SubSeqProperties
<1>4. events' \in Seq(Events) /\ Len(events') = Len(events) + Len(SubSeq(es, 1, kept))
  BY <1>3, ConcatProperties
<1>5. QED
  BY <1>2, <1>3, <1>4

LEMMA RecordFacts ==
    ASSUME TypeOK, EventsAccounted, NEW inc \in [Counters -> Int], NEW es \in Seq(Events), NEW trunc \in BOOLEAN,
           NEW over \in BOOLEAN, Record(inc, es, trunc, over), inc["dropped"] = 0,
           \A m \in Counters : 0 <= sum[m] + inc[m], NEW n, n = Len(es)
    PROVE  Recorded(inc, n)
<1>1. PICK kept : kept = Room(Len(es))
  OBVIOUS
<1>2. PICK all : all = [inc EXCEPT !["dropped"] = Len(es) - kept]
  OBVIOUS
<1>3. /\ events' = events \o SubSeq(es, 1, kept)
      /\ sum' = [m \in Counters |-> Least(sum[m] + all[m], MaxNumber)]
      /\ saturated' = (saturated \/ over \/ \E m \in Counters : sum[m] + all[m] > MaxNumber)
      /\ truncated' = (truncated \/ trunc \/ kept < Len(es))
  BY <1>1, <1>2 DEF Record
<1>0. events \in Seq(Events) /\ Len(events) <= MaxEvents /\ sum \in [Counters -> 0..MaxNumber]
  BY Zenon DEF TypeOK
<1>4. /\ kept \in 0..Len(es) /\ events' \in Seq(Events) /\ Len(events') <= MaxEvents
      /\ Len(events') = Len(events) + kept
  BY <1>0, <1>1, <1>3, Queued
<1>5. "dropped" \in Counters /\ MaxNumber \in Nat /\ Len(es) \in Nat /\ Len(events) \in Nat
  <2>1. "dropped" \in Counters
    BY DEF Counters
  <2>2. MaxNumber \in Nat
    BY ScopeAssumption
  <2>3. Len(es) \in Nat /\ Len(events) \in Nat
    BY <1>0, LenProperties
  <2>4. QED
    BY <2>1, <2>2, <2>3
<1>6. /\ all \in [Counters -> Int] /\ all["dropped"] = Len(es) - kept
      /\ \A m \in Counters \ {"dropped"} : all[m] = inc[m]
  BY <1>2, <1>4, <1>5
<1>7. \A m \in Counters : sum[m] \in 0..MaxNumber /\ 0 <= sum[m] + all[m] /\ sum[m] + all[m] \in Int
  <2>1. \A m \in Counters : sum[m] \in 0..MaxNumber
    BY <1>0
  <2>2. all["dropped"] \in Nat
    BY <1>4, <1>5, <1>6
  <2>3. \A m \in Counters : all[m] \in Int /\ 0 <= sum[m] + all[m]
    BY <1>5, <1>6, <2>1, <2>2, SMTT(30)
  <2>4. QED
    BY <1>5, <2>1, <2>3
<1>8. sum' \in [Counters -> 0..MaxNumber]
  BY <1>3, <1>5, <1>7 DEF Least
<1>9. \A m \in Counters : sum'[m] = Least(sum[m] + all[m], MaxNumber)
  BY <1>3
<1>10. saturated' \in BOOLEAN /\ truncated' \in BOOLEAN
  BY <1>3
<1>11. ASSUME ~saturated'
       PROVE  ~saturated /\ \A m \in Counters : sum'[m] = sum[m] + all[m]
  <2>1. \A m \in Counters : ~(sum[m] + all[m] > MaxNumber)
    BY <1>3, <1>11
  <2>2. \A m \in Counters : sum'[m] = sum[m] + all[m]
    BY <1>5, <1>7, <1>9, <2>1 DEF Least
  <2>3. QED
    BY <1>3, <1>11, <2>2
<1>12. ASSUME ~saturated' PROVE Len(events') + sum'["dropped"] = Len(events) + sum["dropped"] + n
  <2>1. PICK a, b : a = sum["dropped"] /\ b = sum'["dropped"]
    OBVIOUS
  <2>2. b = a + (Len(es) - kept)
    BY <1>5, <1>6, <1>11, <1>12, <2>1
  <2>3. a \in Nat /\ kept \in Nat
    BY <1>4, <1>5, <1>7, <2>1
  <2>4. Len(events') + b = Len(events) + a + n
    BY <1>4, <1>5, <2>2, <2>3
  <2>5. QED
    BY <2>1, <2>4
<1>13. ASSUME sum'["dropped"] > 0 PROVE truncated'
  <2>1. sum["dropped"] + all["dropped"] > 0
    BY <1>5, <1>7, <1>9, <1>13 DEF Least
  <2>2. sum["dropped"] > 0 \/ kept < Len(es)
    BY <1>4, <1>5, <1>6, <1>7, <2>1
  <2>3. QED
    BY <1>3, <2>2 DEF EventsAccounted
<1>14. QED
  BY <1>4, <1>6, <1>8, <1>9, <1>10, <1>11, <1>12, <1>13 DEF Recorded

(***************************************************************************)
(* The counters and the fates                                              *)
(***************************************************************************)

Names == {"attempted", "dispatched", "rejected", "completed", "incomplete", "inFlight", "handoffs", "limited",
          "successful", "partial", "failed"}

(* The fates a counter of statements stands for                            *)
Named(m) ==
    CASE m = "attempted"  -> Ticketed \cup {"refused", "limited"}
      [] m = "dispatched" -> Ticketed \cup {"limited"}
      [] m = "rejected"   -> {"refused"}
      [] m = "completed"  -> {"success", "partial", "error"}
      [] m = "incomplete" -> {"incomplete", "handoff", "limited"}
      [] m = "inFlight"   -> {"open"}
      [] m = "handoffs"   -> {"handoff"}
      [] m = "limited"    -> {"limited"}
      [] m = "successful" -> {"success"}
      [] m = "partial"    -> {"partial"}
      [] m = "failed"     -> {"error"}

LEMMA EachName ==
    \A m \in Names : \/ m = "attempted"  /\ Named(m) = Ticketed \cup {"refused", "limited"}
                     \/ m = "dispatched" /\ Named(m) = Ticketed \cup {"limited"}
                     \/ m = "rejected"   /\ Named(m) = {"refused"}
                     \/ m = "completed"  /\ Named(m) = {"success", "partial", "error"}
                     \/ m = "incomplete" /\ Named(m) = {"incomplete", "handoff", "limited"}
                     \/ m = "inFlight"   /\ Named(m) = {"open"}
                     \/ m = "handoffs"   /\ Named(m) = {"handoff"}
                     \/ m = "limited"    /\ Named(m) = {"limited"}
                     \/ m = "successful" /\ Named(m) = {"success"}
                     \/ m = "partial"    /\ Named(m) = {"partial"}
                     \/ m = "failed"     /\ Named(m) = {"error"}
BY SMTT(60) DEF Names, Named

LEMMA Standing ==
    CountersMatchFates <=> /\ sum["inFlight"] = Count(Named("inFlight"))
                           /\ ~saturated => \A m \in Names : sum[m] = Count(Named(m))
BY EachName, SMTT(30) DEF CountersMatchFates, Names

LEMMA StandingNext ==
    CountersMatchFates' <=> /\ sum'["inFlight"] = Count(Named("inFlight"))'
                            /\ ~saturated' => \A m \in Names : sum'[m] = Count(Named(m))'
BY EachName, SMTT(120) DEF CountersMatchFates, Names

(* A step that moves the counters of statements as it moves their fates    *)
LEMMA CountersMove ==
    ASSUME TypeOK, CountersMatchFates, Tracking, NEW inc \in [Counters -> Int], NEW n, Recorded(inc, n),
           \A m \in Names : Count(Named(m))' = Count(Named(m)) + inc[m],
           Cardinality(pending') <= MaxTracking
    PROVE  CountersMatchFates'
<1>1. /\ sum["inFlight"] = Count(Named("inFlight"))
      /\ ~saturated => \A m \in Names : sum[m] = Count(Named(m))
  BY Standing
<1>2. Names \subseteq Counters \ {"dropped"} /\ "inFlight" \in Names
  BY DEF Names, Counters
<1>3. /\ sum' \in [Counters -> 0..MaxNumber]
      /\ \A m \in Counters \ {"dropped"} : sum'[m] = Least(sum[m] + inc[m], MaxNumber)
      /\ ~saturated' => ~saturated /\ \A m \in Counters \ {"dropped"} : sum'[m] = sum[m] + inc[m]
  BY DEF Recorded
<1>4. ASSUME ~saturated' PROVE \A m \in Names : sum'[m] = Count(Named(m))'
  BY <1>1, <1>2, <1>3, <1>4
<1>5. sum'["inFlight"] = Count(Named("inFlight"))'
  <2>1. Count(Named("inFlight"))' = sum["inFlight"] + inc["inFlight"]
    BY <1>1, <1>2
  <2>2. Named("inFlight") = {"open"}
    BY DEF Named
  <2>3. Count({"open"})' = Cardinality(pending')
    BY DEF Count, pending
  <2>4. Count({"open"})' \in Nat
    <3>1. {s \in Statements : fate'[s] \in {"open"}} \in SUBSET Statements
      OBVIOUS
    <3>2. QED
      BY <3>1, StatementsAssumption, FS_Subset, FS_CardinalityType DEF Count
  <2>5. PICK c : c = Count({"open"})'
    OBVIOUS
  <2>6. c \in Nat /\ c <= MaxTracking
    BY <2>3, <2>4, <2>5
  <2>7. c <= MaxNumber /\ MaxNumber \in Nat
    BY <2>6, ScopeAssumption
  <2>8. sum'["inFlight"] = Least(c, MaxNumber)
    BY <1>2, <1>3, <2>1, <2>2, <2>5
  <2>9. QED
    BY <2>2, <2>5, <2>6, <2>7, <2>8 DEF Least
<1>6. QED
  BY <1>4, <1>5, StandingNext

(* A step that reports n things and offers n events                        *)
LEMMA EventsMove ==
    ASSUME TypeOK, EventsAccounted, NEW inc \in [Counters -> Int], NEW n, Recorded(inc, n), UNCHANGED drainVars,
           inc["rejected"] + inc["preflight"] + inc["completed"] + inc["incomplete"] + inc["boundaries"] = n
    PROVE  EventsAccounted'
<1>1. /\ sum' \in [Counters -> 0..MaxNumber]
      /\ ~saturated' => /\ ~saturated
                        /\ \A m \in Counters \ {"dropped"} : sum'[m] = sum[m] + inc[m]
                        /\ Len(events') + sum'["dropped"] = Len(events) + sum["dropped"] + n
      /\ sum'["dropped"] > 0 => truncated'
      /\ events' \in Seq(Events)
  BY DEF Recorded
<1>2. dpc' = dpc /\ batch' = batch /\ delivered' = delivered
  BY DEF drainVars
<1>3. /\ sum \in [Counters -> 0..MaxNumber] /\ events \in Seq(Events) /\ delivered \in Nat
      /\ batch \in [Drainers -> Seq(Events)]
  BY Zenon DEF TypeOK
<1>4. Len(events) \in Nat /\ Len(events') \in Nat /\ \A d \in Drainers : Len(batch[d]) \in Nat
  BY <1>1, <1>3, LenProperties
<1>5. {"rejected", "preflight", "completed", "incomplete", "boundaries", "dropped"} \subseteq Counters
  BY DEF Counters
<1>6. ASSUME ~saturated'
      PROVE  Reported' = Reported + n /\ n \in Int
  <2>1. \A m \in {"rejected", "preflight", "completed", "incomplete", "boundaries"} :
            sum'[m] = sum[m] + inc[m] /\ sum[m] \in Int /\ inc[m] \in Int
    <3>1. ASSUME NEW m \in {"rejected", "preflight", "completed", "incomplete", "boundaries"}
          PROVE  m \in Counters \ {"dropped"}
      BY DEF Counters
    <3>2. \A m \in Counters \ {"dropped"} : sum'[m] = sum[m] + inc[m]
      BY <1>1, <1>6
    <3>3. \A m \in Counters : sum[m] \in Int
      BY <1>3, ScopeAssumption
    <3>4. QED
      BY <3>1, <3>2, <3>3
  <2>2. PICK a, b, c, d, e : /\ a = sum["rejected"] /\ b = sum["preflight"] /\ c = sum["completed"]
                             /\ d = sum["incomplete"] /\ e = sum["boundaries"]
    OBVIOUS
  <2>3. PICK ia, ib, ic, id, ie : /\ ia = inc["rejected"] /\ ib = inc["preflight"] /\ ic = inc["completed"]
                                  /\ id = inc["incomplete"] /\ ie = inc["boundaries"]
    OBVIOUS
  <2>4. /\ a \in Int /\ b \in Int /\ c \in Int /\ d \in Int /\ e \in Int
        /\ ia \in Int /\ ib \in Int /\ ic \in Int /\ id \in Int /\ ie \in Int
    BY <2>1, <2>2, <2>3
  <2>5. Reported' = (a + ia) + (b + ib) + (c + ic) + (d + id) + (e + ie)
    BY <2>1, <2>2, <2>3 DEF Reported
  <2>6. Reported = a + b + c + d + e /\ n = ia + ib + ic + id + ie
    BY <2>2, <2>3 DEF Reported
  <2>7. QED
    BY <2>4, <2>5, <2>6
<1>7. ASSUME ~saturated', NEW k \in Nat, Reported = Len(events) + k + sum["dropped"]
      PROVE  Reported' = Len(events') + k + sum'["dropped"]
  <2>1. PICK a, b : a = sum["dropped"] /\ b = sum'["dropped"]
    OBVIOUS
  <2>2. a \in Int /\ b \in Int
    BY <1>1, <1>3, <1>5, <2>1
  <2>3. Len(events') + b = Len(events) + a + n
    BY <1>1, <1>7, <2>1
  <2>4. Reported' = Len(events) + k + a + n /\ n \in Int
    BY <1>6, <1>7, <2>1
  <2>5. PICK l, r : l = Len(events) /\ r = Len(events')
    OBVIOUS
  <2>6. l \in Nat /\ r \in Nat
    BY <1>4, <2>5
  <2>7. r + b = l + a + n
    BY <2>3, <2>5
  <2>8. PICK t : t = Reported'
    OBVIOUS
  <2>9. t = l + k + a + n
    BY <2>4, <2>5, <2>8
  <2>10. t = r + k + b
    BY <2>2, <2>4, <2>6, <2>7, <2>9
  <2>11. QED
    BY <2>1, <2>5, <2>8, <2>10
<1>8. ASSUME ~saturated', NEW d \in Drainers, dpc'[d] = "deliver"
      PROVE  Reported' = Len(events') + Len(batch'[d]) + delivered' + sum'["dropped"]
  <2>1. Reported = Len(events) + Len(batch[d]) + delivered + sum["dropped"]
    BY <1>1, <1>2, <1>8 DEF EventsAccounted
  <2>2. PICK k : k = Len(batch[d]) + delivered
    OBVIOUS
  <2>3. k \in Nat
    <3>1. Len(batch[d]) \in Nat
      BY <1>4
    <3>2. delivered \in Nat
      BY <1>3
    <3>3. QED
      BY <2>2, <3>1, <3>2
  <2>4. PICK a : a = sum["dropped"]
    OBVIOUS
  <2>5. a \in Int
    BY <1>3, <1>5, <2>4
  <2>6. Reported = Len(events) + k + a
    BY <1>3, <1>4, <2>1, <2>2, <2>4, <2>5
  <2>7. Reported' = Len(events') + k + sum'["dropped"]
    BY <1>7, <1>8, <2>3, <2>4, <2>6
  <2>8. PICK b : b = sum'["dropped"]
    OBVIOUS
  <2>9. b \in Int
    BY <1>1, <1>5, <2>8
  <2>10. QED
    BY <1>2, <1>3, <1>4, <2>2, <2>7, <2>8, <2>9
<1>9. ASSUME ~saturated', \A d \in Drainers : dpc'[d] # "deliver"
      PROVE  Reported' = Len(events') + delivered' + sum'["dropped"]
  BY <1>1, <1>2, <1>3, <1>7, <1>9 DEF EventsAccounted
<1>10. QED
  BY <1>1, <1>8, <1>9 DEF EventsAccounted

(* What a step leaves alone                                                *)
LEMMA SuspicionKept ==
    ASSUME SuspectedOnce, UNCHANGED <<group, shapes, maxRepeat>>,
           ~saturated' => ~saturated /\ sum'["suspected"] = sum["suspected"], ~finished' => ~finished,
           \A s \in Statements : fate'[s] \in {"success", "partial"} <=> fate[s] \in {"success", "partial"}
    PROVE  SuspectedOnce'
<1> SUFFICES ASSUME ~saturated', ~finished'
             PROVE  /\ sum'["suspected"] = Cardinality({k \in Groups' : shapes'[k] >= Suspect})
                    /\ \A k \in Groups' : shapes'[k] <= maxRepeat'
                    /\ \A k \in Groups' : shapes'[k] =
                         Cardinality({s \in Statements : group'[s] = k /\ fate'[s] \in {"success", "partial"}})
  BY DEF SuspectedOnce
<1>1. Groups' = Groups
  BY DEF Groups
<1>2. {k \in Groups : shapes'[k] >= Suspect} = {k \in Groups : shapes[k] >= Suspect}
  OBVIOUS
<1>3. \A k \in Groups : {s \in Statements : group'[s] = k /\ fate'[s] \in {"success", "partial"}}
                        = {s \in Statements : group[s] = k /\ fate[s] \in {"success", "partial"}}
  OBVIOUS
<1>4. QED
  BY <1>1, <1>2, <1>3 DEF SuspectedOnce

LEMMA BoundariesKept ==
    ASSUME BoundariesOnce, tx' = tx, ~finished' => ~finished,
           ~saturated' => ~saturated /\ sum'["boundaries"] = sum["boundaries"]
    PROVE  BoundariesOnce'
BY DEF BoundariesOnce

LEMMA GroupingKept ==
    ASSUME Grouping, UNCHANGED <<repeat, group, eligible, shapes>>, ~finished' => ~finished
    PROVE  Grouping'
BY DEF Grouping, Groups

(***************************************************************************)
(* The budget                                                              *)
(***************************************************************************)

LEMMA BudgetSpent ==
    ASSUME TypeOK, BudgetIsExact, NEW s \in Statements, fate[s] = "new", NEW f \in Sent, Becomes(s, f), ~Exhausted, Reserve,
           limit' = limit
    PROVE  BudgetIsExact'
<1>1. fate \in [Statements -> Fates] /\ limit \in Limits
  BY Zenon DEF TypeOK
<1>2. f \in Sent /\ f \notin {"refused", "barred"} /\ "new" \notin Sent /\ "new" \notin {"refused", "barred"}
  BY DEF Sent, Ticketed, Outcomes
<1>3. Count(Sent)' = Count(Sent) + 1 /\ Count({"refused", "barred"})' = Count({"refused", "barred"})
  <2>1. \A F : Count(F)' = Count(F) + (IF f \in F THEN 1 ELSE 0) - (IF "new" \in F THEN 1 ELSE 0)
    BY <1>1, CountMoves, Zenon
  <2>2. Count(Sent) \in Nat /\ Count({"refused", "barred"}) \in Nat
    BY CountNat
  <2>3. Count(Sent)' = Count(Sent) + 1 - 0
    BY <1>2, <2>1
  <2>4. Count({"refused", "barred"})' = Count({"refused", "barred"}) + 0 - 0
    BY <1>2, <2>1
  <2>5. QED
    BY <2>2, <2>3, <2>4
<1>4. PICK c, r, d, q : c = Count(Sent) /\ r = Count({"refused", "barred"})
                        /\ d = Count(Sent)' /\ q = Count({"refused", "barred"})'
  OBVIOUS
<1>5. c \in Nat /\ r \in Nat /\ d = c + 1 /\ q = r
  BY <1>3, <1>4, CountNat
<1>6. /\ used = Least(c, MaxNumber) /\ MaxNumber \in Nat
      /\ limit # NoLimit => c <= limit /\ (r > 0 => c = limit)
      /\ limit # NoLimit => limit \in Nat /\ limit <= MaxNumber
      /\ limit # NoLimit => ~(used >= limit)
  BY <1>1, <1>4, LimitsAssumption, ScopeAssumption DEF BudgetIsExact, Exhausted
<1>7. used' = Least(used + 1, MaxNumber) /\ MaxNumber \in Nat
  BY ScopeAssumption DEF Reserve
<1>8. used' = Least(d, MaxNumber)
  BY <1>5, <1>6, <1>7 DEF Least
<1>9. limit # NoLimit => d <= limit /\ ~(q > 0)
  BY <1>5, <1>6 DEF Least
<1>10. QED
  BY <1>4, <1>8, <1>9 DEF BudgetIsExact

LEMMA BudgetRefuses ==
    ASSUME TypeOK, BudgetIsExact, NEW s \in Statements, fate[s] = "new", NEW f \in {"refused", "barred"}, Becomes(s, f),
           Exhausted, UNCHANGED <<used, limit>>
    PROVE  BudgetIsExact'
<1>1. fate \in [Statements -> Fates] /\ limit \in Limits
  BY Zenon DEF TypeOK
<1>2. f \notin Sent /\ "new" \notin Sent
  BY DEF Sent, Ticketed, Outcomes
<1>3. Count(Sent)' = Count(Sent)
  <2>1. \A F : Count(F)' = Count(F) + (IF f \in F THEN 1 ELSE 0) - (IF "new" \in F THEN 1 ELSE 0)
    BY <1>1, CountMoves, Zenon
  <2>2. Count(Sent) \in Nat
    BY CountNat
  <2>3. Count(Sent)' = Count(Sent) + 0 - 0
    BY <1>2, <2>1
  <2>4. QED
    BY <2>2, <2>3
<1>4. PICK c : c = Count(Sent)
  OBVIOUS
<1>5. c \in Nat
  BY <1>4, CountNat
<1>6. /\ used = Least(c, MaxNumber) /\ c <= limit /\ limit \in Nat /\ limit <= MaxNumber
      /\ limit # NoLimit /\ used >= limit /\ MaxNumber \in Nat
  BY <1>1, <1>4, LimitsAssumption, ScopeAssumption DEF BudgetIsExact, Exhausted
<1>7. c = limit
  BY <1>5, <1>6 DEF Least
<1>8. QED
  BY <1>3, <1>4, <1>6, <1>7 DEF BudgetIsExact

LEMMA BudgetKept ==
    ASSUME BudgetIsExact, UNCHANGED <<used, limit>>, Count(Sent)' = Count(Sent),
           Count({"refused", "barred"})' = Count({"refused", "barred"})
    PROVE  BudgetIsExact'
BY DEF BudgetIsExact

(***************************************************************************)
(* Beginning a statement                                                   *)
(***************************************************************************)

(* What Record counts when it counts each of some things once              *)
LEMMA OnesFacts ==
    ASSUME TypeOK, NEW S \in SUBSET (Counters \ {"dropped"})
    PROVE  /\ Ones(S) \in [Counters -> Int] /\ Ones(S)["dropped"] = 0
           /\ \A m \in Counters : Ones(S)[m] = (IF m \in S THEN 1 ELSE 0) /\ 0 <= sum[m] + Ones(S)[m]
<1>1. \A m \in Counters : Ones(S)[m] = IF m \in S THEN 1 ELSE 0
  BY DEF Ones
<1>2. sum \in [Counters -> 0..MaxNumber] /\ MaxNumber \in Nat
  BY ScopeAssumption, Zenon DEF TypeOK
<1>3. \A m \in Counters : 0 <= sum[m] + Ones(S)[m]
  BY <1>1, <1>2
<1>4. "dropped" \in Counters
  BY DEF Counters
<1>5. QED
  BY <1>1, <1>3, <1>4 DEF Ones

LEMMA NamesMove ==
    ASSUME TypeOK, NEW s \in Statements, NEW f, Becomes(s, f), NEW inc \in [Counters -> Int],
           \A m \in Names : inc[m] = (IF f \in Named(m) THEN 1 ELSE 0) - (IF fate[s] \in Named(m) THEN 1 ELSE 0)
    PROVE  \A m \in Names : Count(Named(m))' = Count(Named(m)) + inc[m]
<1> SUFFICES ASSUME NEW m \in Names PROVE Count(Named(m))' = Count(Named(m)) + inc[m]
  OBVIOUS
<1>1. fate \in [Statements -> Fates]
  BY Zenon DEF TypeOK
<1>2. PICK F : F = Named(m)
  OBVIOUS
<1>3. Count(F)' = Count(F) + (IF f \in F THEN 1 ELSE 0) - (IF fate[s] \in F THEN 1 ELSE 0)
  <2>1. PICK g : g = fate[s]
    OBVIOUS
  <2>2. \A G : Count(G)' = Count(G) + (IF f \in G THEN 1 ELSE 0) - (IF g \in G THEN 1 ELSE 0)
    BY <1>1, <2>1, CountMoves, SMTT(60)
  <2>3. QED
    BY <2>1, <2>2, Zenon
<1>4. Count(F) \in Nat
  BY CountNat
<1>5. inc[m] = (IF f \in F THEN 1 ELSE 0) - (IF fate[s] \in F THEN 1 ELSE 0)
  BY <1>2
<1>6. Count(F)' = Count(F) + inc[m]
  BY <1>3, <1>4, <1>5
<1>7. Count(F)' = Count(Named(m))' /\ Count(F) = Count(Named(m))
  BY <1>2
<1>8. QED
  BY <1>6, <1>7

(* The counters Begin advances are those of the fate it gives              *)
LEMMA BeginCounts ==
    /\ \A m \in Names : Ones({"attempted", "rejected"})[m] =
         (IF "refused" \in Named(m) THEN 1 ELSE 0) - (IF "new" \in Named(m) THEN 1 ELSE 0)
    /\ \A m \in Names : Ones({"attempted", "dispatched", "inFlight"})[m] =
         (IF "open" \in Named(m) THEN 1 ELSE 0) - (IF "new" \in Named(m) THEN 1 ELSE 0)
    /\ \A U \in SUBSET {"shapeUnknown"}, m \in Names :
         Ones({"attempted", "dispatched", "limited", "incomplete"} \cup U)[m] =
         (IF "limited" \in Named(m) THEN 1 ELSE 0) - (IF "new" \in Named(m) THEN 1 ELSE 0)
<1>1. Names \subseteq Counters
  BY DEF Names, Counters
<1>2. \A S : \A m \in Names : Ones(S)[m] = IF m \in S THEN 1 ELSE 0
  BY <1>1 DEF Ones
<1>3. \A m \in Names : "new" \notin Named(m)
  BY EachName, SMTT(30) DEF Ticketed, Outcomes
<1>4. \A m \in Names : "refused" \in Named(m) <=> m \in {"attempted", "rejected"}
  BY EachName, SMTT(30) DEF Ticketed, Outcomes
<1>5. \A m \in Names : "open" \in Named(m) <=> m \in {"attempted", "dispatched", "inFlight"}
  BY EachName, SMTT(30) DEF Ticketed, Outcomes
<1>6. \A m \in Names : "limited" \in Named(m) <=> m \in {"attempted", "dispatched", "limited", "incomplete"}
  BY EachName, SMTT(30) DEF Ticketed, Outcomes
<1>7. \A U \in SUBSET {"shapeUnknown"}, m \in Names :
        m \in {"attempted", "dispatched", "limited", "incomplete"} \cup U
        <=> m \in {"attempted", "dispatched", "limited", "incomplete"}
  BY DEF Names
<1>8. QED
  BY <1>2, <1>3, <1>4, <1>5, <1>6, <1>7

LEMMA PendingMove ==
    ASSUME TypeOK, Tracking, NEW s \in Statements, NEW f, Becomes(s, f), finished' = finished,
           f # "open" \/ (Cardinality(pending) < MaxTracking /\ ~finished)
    PROVE  Tracking'
<1>1. fate \in [Statements -> Fates]
  BY Zenon DEF TypeOK
<1>2. \A t \in Statements : fate'[t] = IF t = s THEN f ELSE fate[t]
  BY <1>1 DEF Becomes
<1>3. PICK p : p = pending
  OBVIOUS
<1>4. PICK q : q = pending'
  OBVIOUS
<1>5. IsFiniteSet(p) /\ Cardinality(p) \in Nat
  BY <1>3, StatementsAssumption, FS_Subset, FS_CardinalityType DEF pending
<1>6. CASE f # "open"
  <2>1. q \subseteq p
    BY <1>2, <1>3, <1>4, <1>6 DEF pending
  <2>2. Cardinality(q) <= Cardinality(p) /\ Cardinality(q) \in Nat
    BY <1>5, <2>1, FS_Subset, FS_CardinalityType
  <2>3. Cardinality(p) <= MaxTracking /\ MaxTracking \in Nat
    BY <1>3, ScopeAssumption DEF Tracking
  <2>4. Cardinality(q) <= MaxTracking
    BY <1>5, <2>2, <2>3
  <2>5. finished => q = {}
    BY <1>3, <2>1 DEF Tracking
  <2>6. QED
    BY <1>4, <2>4, <2>5 DEF Tracking
<1>7. CASE Cardinality(pending) < MaxTracking /\ ~finished
  <2>1. q \subseteq p \cup {s}
    BY <1>2, <1>3, <1>4 DEF pending
  <2>2. IsFiniteSet(p \cup {s}) /\ Cardinality(p \cup {s}) <= Cardinality(p) + 1
    <3>1. /\ IsFiniteSet(p \cup {s})
          /\ Cardinality(p \cup {s}) = IF s \in p THEN Cardinality(p) ELSE Cardinality(p) + 1
      BY <1>5, FS_AddElement, Zenon
    <3>2. QED
      BY <1>5, <3>1
  <2>3. Cardinality(q) <= Cardinality(p \cup {s}) /\ Cardinality(q) \in Nat /\ Cardinality(p \cup {s}) \in Nat
    BY <2>1, <2>2, FS_Subset, FS_CardinalityType
  <2>4. Cardinality(p) < MaxTracking /\ MaxTracking \in Nat
    BY <1>3, <1>7, ScopeAssumption
  <2>5. Cardinality(q) <= MaxTracking
    BY <1>5, <2>2, <2>3, <2>4
  <2>6. QED
    BY <1>4, <1>7, <2>5 DEF Tracking
<1>8. QED
  BY <1>6, <1>7

(* What a step after Finish leaves alone                                   *)
LEMMA CountersKept ==
    ASSUME CountersMatchFates, UNCHANGED <<sum, saturated>>, \A m \in Names : Count(Named(m))' = Count(Named(m))
    PROVE  CountersMatchFates'
<1>1. "inFlight" \in Names
  BY DEF Names
<1>2. QED
  BY <1>1, Standing, StandingNext

LEMMA EventsKept ==
    ASSUME EventsAccounted, UNCHANGED <<sum, saturated, truncated, events, drainVars>>
    PROVE  EventsAccounted'
<1>1. Reported' = Reported
  BY DEF Reported
<1>2. QED
  BY <1>1 DEF EventsAccounted, drainVars

LEMMA LateStep ==
    ASSUME ScopeInv, NEW s \in Statements, NEW f \in {"barred", "late"}, finished, fate[s] = "new", Becomes(s, f),
           used' \in 0..MaxNumber, BudgetIsExact',
           UNCHANGED <<scopeVars, finished, summaryVars, group, eligible, shapes, events, tx, drainVars>>
    PROVE  ScopeInv'
<1>0. /\ TypeOK /\ CountersMatchFates /\ SuspectedOnce /\ BoundariesOnce /\ EventsAccounted /\ Tracking /\ Grouping
      /\ IsFiniteSet(Begun) /\ OneDrain
  BY DEF ScopeInv, SummaryIsTrue
<1>1. TypeOK'
  <2>1. f \in Fates
    BY DEF Fates, Sent
  <2>2. fate' \in [Statements -> Fates]
    BY <1>0, <2>1 DEF TypeOK, Becomes
  <2>3. QED
    BY <1>0, <2>2 DEF TypeOK, scopeVars, summaryVars, drainVars
<1>2. CountersMatchFates'
  <2>1. \A m \in Names : f \notin Named(m) /\ "new" \notin Named(m)
    BY EachName, SMTT(30) DEF Ticketed, Outcomes
  <2>2. PICK inc : inc = [n \in Counters |-> 0]
    OBVIOUS
  <2>3. inc \in [Counters -> Int] /\ Names \subseteq Counters
    BY <2>2 DEF Names, Counters
  <2>4. \A m \in Names : Count(Named(m))' = Count(Named(m)) + inc[m]
    <3>1. \A m \in Names : inc[m] = (IF f \in Named(m) THEN 1 ELSE 0) - (IF fate[s] \in Named(m) THEN 1 ELSE 0)
      BY <2>1, <2>2, <2>3
    <3>2. QED
      BY <1>0, <2>3, <3>1, NamesMove
  <2>5. \A m \in Names : Count(Named(m))' = Count(Named(m))
    <3>1. ASSUME NEW m \in Names PROVE Count(Named(m))' = Count(Named(m))
      <4>1. Count(Named(m)) \in Nat
        BY CountNat
      <4>2. inc[m] = 0
        BY <2>2, <2>3
      <4>3. QED
        BY <2>4, <4>1, <4>2
    <3>2. QED
      BY <3>1
  <2>6. QED
    BY <1>0, <2>5, CountersKept DEF summaryVars
<1>3. SuspectedOnce' /\ BoundariesOnce'
  BY DEF SuspectedOnce, BoundariesOnce
<1>4. EventsAccounted'
  BY <1>0, EventsKept DEF summaryVars
<1>5. Tracking'
  BY <1>0, PendingMove
<1>6. Grouping' /\ IsFiniteSet(Begun)'
  BY <1>0, GroupingKept DEF scopeVars, Begun
<1>7. OneDrain'
  BY <1>0 DEF OneDrain, drainVars
<1>8. QED
  BY <1>1, <1>2, <1>3, <1>4, <1>5, <1>6, <1>7 DEF ScopeInv, SummaryIsTrue

(* A step that counts a statement nobody is done with yet                  *)
LEMMA BeginStep ==
    ASSUME ScopeInv, NEW s \in Statements, NEW f \in {"refused", "limited", "open"}, ~finished, fate[s] = "new",
           Becomes(s, f), used' \in 0..MaxNumber, BudgetIsExact', f = "open" => Cardinality(pending) < MaxTracking,
           NEW inc \in [Counters -> Int], NEW n, Recorded(inc, n),
           \A m \in Names : inc[m] = (IF f \in Named(m) THEN 1 ELSE 0) - (IF "new" \in Named(m) THEN 1 ELSE 0),
           inc["suspected"] = 0, inc["boundaries"] = 0,
           inc["rejected"] + inc["preflight"] + inc["completed"] + inc["incomplete"] + inc["boundaries"] = n,
           UNCHANGED <<scopeVars, finished, maxRepeat, tx, drainVars>>
    PROVE  /\ CountersMatchFates' /\ BoundariesOnce' /\ EventsAccounted' /\ Tracking'
           /\ IsFiniteSet(Begun)' /\ OneDrain'
           /\ (group' \in [Statements -> Shapes \cup {NoShape}] /\ eligible' \in [Statements -> BOOLEAN]
                 /\ shapes' \in [Shapes -> {NoGroup} \cup 0..MaxNumber] => TypeOK')
           /\ (UNCHANGED <<group, eligible, shapes>> => SuspectedOnce' /\ Grouping')
<1>0. /\ TypeOK /\ CountersMatchFates /\ SuspectedOnce /\ BoundariesOnce /\ EventsAccounted /\ Tracking /\ Grouping
      /\ IsFiniteSet(Begun) /\ OneDrain
  BY DEF ScopeInv, SummaryIsTrue
<1>1. fate' \in [Statements -> Fates]
  <2>1. f \in Fates
    BY DEF Fates, Sent, Ticketed
  <2>2. QED
    BY <1>0, <2>1 DEF TypeOK, Becomes
<1>2. ASSUME group' \in [Statements -> Shapes \cup {NoShape}], eligible' \in [Statements -> BOOLEAN],
             shapes' \in [Shapes -> {NoGroup} \cup 0..MaxNumber]
      PROVE  TypeOK'
  BY <1>0, <1>1, <1>2 DEF TypeOK, Recorded, scopeVars, drainVars
<1>3. Tracking'
  BY <1>0, PendingMove
<1>4. CountersMatchFates'
  <2>1. \A m \in Names : Count(Named(m))' = Count(Named(m)) + inc[m]
    BY <1>0, NamesMove
  <2>2. QED
    BY <1>0, <1>3, <2>1, CountersMove DEF Tracking
<1>5. sum \in [Counters -> 0..MaxNumber] /\ \A m \in Counters : sum[m] \in Int
  <2>1. sum \in [Counters -> 0..MaxNumber]
    BY <1>0, Zenon DEF TypeOK
  <2>2. QED
    BY <2>1, ScopeAssumption
<1>6. ~saturated' => ~saturated /\ sum'["suspected"] = sum["suspected"] /\ sum'["boundaries"] = sum["boundaries"]
  <2>1. {"suspected", "boundaries"} \subseteq Counters \ {"dropped"}
    BY DEF Counters
  <2>2. ~saturated' => ~saturated /\ \A m \in Counters \ {"dropped"} : sum'[m] = sum[m] + inc[m]
    BY DEF Recorded
  <2>3. QED
    BY <1>5, <2>1, <2>2
<1>7. BoundariesOnce'
  BY <1>0, <1>6, BoundariesKept
<1>8. EventsAccounted'
  BY <1>0, EventsMove
<1>9. ASSUME UNCHANGED <<group, eligible, shapes>> PROVE SuspectedOnce' /\ Grouping'
  <2>1. \A t \in Statements : fate'[t] \in {"success", "partial"} <=> fate[t] \in {"success", "partial"}
    BY <1>0 DEF TypeOK, Becomes
  <2>2. SuspectedOnce'
    BY <1>0, <1>6, <1>9, <2>1, SuspicionKept
  <2>3. QED
    BY <1>0, <1>9, <2>2, GroupingKept DEF scopeVars
<1>10. IsFiniteSet(Begun)' /\ OneDrain'
  BY <1>0 DEF Begun, OneDrain, drainVars
<1>11. QED
  BY <1>2, <1>3, <1>4, <1>7, <1>8, <1>9, <1>10

LEMMA OneEvent ==
    \A o \in Fates \cup {"rejected"}, c \in {"none", "unknown", "failure", "budget", "limited", "suspected"} :
       <<Event(o, c)>> \in Seq(Events) /\ Len(<<Event(o, c)>>) = 1
BY DEF Event, Events

LEMMA BeginRefusedStep ==
    ASSUME ScopeInv, NEW s \in Statements, BeginRefused(s)
    PROVE  ScopeInv'
<1>0. TypeOK /\ BudgetIsExact /\ EventsAccounted
  BY DEF ScopeInv, SummaryIsTrue
<1>1. /\ fate[s] = "new" /\ Exhausted
      /\ UNCHANGED <<scopeVars, finished, used, group, eligible, shapes, tx, drainVars>>
  BY DEF BeginRefused
<1>2. used' \in 0..MaxNumber /\ UNCHANGED <<used, limit>>
  BY <1>0, <1>1 DEF TypeOK, scopeVars
<1>3. CASE finished
  <2>1. Becomes(s, "barred") /\ UNCHANGED <<summaryVars, events>>
    BY <1>3 DEF BeginRefused
  <2>2. BudgetIsExact'
    BY <1>0, <1>1, <1>2, <2>1, BudgetRefuses
  <2>3. QED
    BY <1>1, <1>2, <1>3, <2>1, <2>2, LateStep
<1>4. CASE ~finished
  <2>1. /\ Becomes(s, "refused") /\ UNCHANGED maxRepeat
        /\ Record(Ones({"attempted", "rejected"}), <<Event("rejected", "budget")>>, FALSE, FALSE)
    BY <1>4 DEF BeginRefused
  <2>2. BudgetIsExact'
    BY <1>0, <1>1, <1>2, <2>1, BudgetRefuses
  <2>3. PICK inc : inc = Ones({"attempted", "rejected"})
    OBVIOUS
  <2>4. /\ inc \in [Counters -> Int] /\ inc["dropped"] = 0
        /\ \A m \in Counters : inc[m] = (IF m \in {"attempted", "rejected"} THEN 1 ELSE 0) /\ 0 <= sum[m] + inc[m]
    <3>1. {"attempted", "rejected"} \in SUBSET (Counters \ {"dropped"})
      BY DEF Counters
    <3>2. QED
      BY <1>0, <2>3, <3>1, OnesFacts
  <2>5. PICK es : es = <<Event("rejected", "budget")>>
    OBVIOUS
  <2>6. es \in Seq(Events) /\ Len(es) = 1
    BY <2>5, OneEvent
  <2>7. Recorded(inc, 1)
    BY <1>0, <2>1, <2>3, <2>4, <2>5, <2>6, RecordFacts
  <2>8. /\ inc["suspected"] = 0 /\ inc["boundaries"] = 0
        /\ inc["rejected"] + inc["preflight"] + inc["completed"] + inc["incomplete"] + inc["boundaries"] = 1
    BY <2>4 DEF Counters
  <2>9. \A m \in Names : inc[m] = (IF "refused" \in Named(m) THEN 1 ELSE 0) - (IF "new" \in Named(m) THEN 1 ELSE 0)
    BY <2>3, BeginCounts
  <2>10. UNCHANGED <<scopeVars, finished, maxRepeat, tx, drainVars>> /\ UNCHANGED <<group, eligible, shapes>>
    BY <1>1, <2>1
  <2>11. /\ CountersMatchFates' /\ BoundariesOnce' /\ EventsAccounted' /\ Tracking' /\ IsFiniteSet(Begun)' /\ OneDrain'
         /\ (group' \in [Statements -> Shapes \cup {NoShape}] /\ eligible' \in [Statements -> BOOLEAN]
               /\ shapes' \in [Shapes -> {NoGroup} \cup 0..MaxNumber] => TypeOK')
         /\ (UNCHANGED <<group, eligible, shapes>> => SuspectedOnce' /\ Grouping')
    BY <1>1, <1>2, <1>4, <2>1, <2>2, <2>4, <2>7, <2>8, <2>9, <2>10, BeginStep
  <2>12. QED
    BY <1>0, <2>2, <2>10, <2>11 DEF ScopeInv, SummaryIsTrue, TypeOK
<1>5. QED
  BY <1>3, <1>4

LEMMA BeginLateStep ==
    ASSUME ScopeInv, NEW s \in Statements, BeginLate(s)
    PROVE  ScopeInv'
<1>0. TypeOK /\ BudgetIsExact
  BY DEF ScopeInv, SummaryIsTrue
<1>1. /\ fate[s] = "new" /\ ~Exhausted /\ finished /\ Reserve /\ Becomes(s, "late")
      /\ UNCHANGED <<scopeVars, finished, summaryVars, group, eligible, shapes, events, tx, drainVars>>
  BY DEF BeginLate
<1>2. used' \in 0..MaxNumber
  BY <1>0, <1>1, ScopeAssumption DEF TypeOK, Reserve, Least
<1>3. BudgetIsExact'
  <2>1. "late" \in Sent /\ limit' = limit
    BY <1>1 DEF Sent, scopeVars
  <2>2. QED
    BY <1>0, <1>1, <2>1, BudgetSpent
<1>4. QED
  BY <1>1, <1>2, <1>3, LateStep

LEMMA BeginUntrackedStep ==
    ASSUME ScopeInv, NEW s \in Statements, NEW e \in BOOLEAN, BeginUntracked(s, e)
    PROVE  ScopeInv'
<1>0. TypeOK /\ BudgetIsExact /\ EventsAccounted
  BY DEF ScopeInv, SummaryIsTrue
<1>1. PICK U : U = IF e /\ repeat THEN {"shapeUnknown"} ELSE {}
  OBVIOUS
<1>2. /\ fate[s] = "new" /\ ~Exhausted /\ ~finished /\ Reserve /\ Becomes(s, "limited")
      /\ Record(Ones({"attempted", "dispatched", "limited", "incomplete"} \cup U), <<Event("limited", "limited")>>, TRUE, FALSE)
      /\ UNCHANGED <<scopeVars, finished, maxRepeat, group, eligible, shapes, tx, drainVars>>
  BY <1>1 DEF BeginUntracked
<1>3. used' \in 0..MaxNumber
  BY <1>0, <1>2, ScopeAssumption DEF TypeOK, Reserve, Least
<1>4. BudgetIsExact'
  <2>1. "limited" \in Sent /\ limit' = limit
    BY <1>2 DEF Sent, scopeVars
  <2>2. QED
    BY <1>0, <1>2, <2>1, BudgetSpent
<1>5. PICK inc : inc = Ones({"attempted", "dispatched", "limited", "incomplete"} \cup U)
  OBVIOUS
<1>6. U \in SUBSET {"shapeUnknown"}
  BY <1>1
<1>7. /\ inc \in [Counters -> Int] /\ inc["dropped"] = 0
      /\ \A m \in Counters : /\ inc[m] = (IF m \in {"attempted", "dispatched", "limited", "incomplete"} \cup U THEN 1 ELSE 0)
                             /\ 0 <= sum[m] + inc[m]
  <2>1. {"attempted", "dispatched", "limited", "incomplete"} \cup U \in SUBSET (Counters \ {"dropped"})
    BY <1>6 DEF Counters
  <2>2. QED
    BY <1>0, <1>5, <2>1, OnesFacts
<1>8. PICK es : es = <<Event("limited", "limited")>>
  OBVIOUS
<1>9. es \in Seq(Events) /\ Len(es) = 1
  BY <1>8, OneEvent DEF Fates, Sent
<1>10. Recorded(inc, 1)
  BY <1>0, <1>2, <1>5, <1>7, <1>8, <1>9, RecordFacts
<1>11. /\ inc["suspected"] = 0 /\ inc["boundaries"] = 0
       /\ inc["rejected"] + inc["preflight"] + inc["completed"] + inc["incomplete"] + inc["boundaries"] = 1
  BY <1>6, <1>7 DEF Counters
<1>12. \A m \in Names : inc[m] = (IF "limited" \in Named(m) THEN 1 ELSE 0) - (IF "new" \in Named(m) THEN 1 ELSE 0)
  BY <1>5, <1>6, BeginCounts
<1>13. UNCHANGED <<scopeVars, finished, maxRepeat, tx, drainVars>> /\ UNCHANGED <<group, eligible, shapes>>
  BY <1>2
<1>14. /\ CountersMatchFates' /\ BoundariesOnce' /\ EventsAccounted' /\ Tracking' /\ IsFiniteSet(Begun)' /\ OneDrain'
       /\ (group' \in [Statements -> Shapes \cup {NoShape}] /\ eligible' \in [Statements -> BOOLEAN]
             /\ shapes' \in [Shapes -> {NoGroup} \cup 0..MaxNumber] => TypeOK')
       /\ (UNCHANGED <<group, eligible, shapes>> => SuspectedOnce' /\ Grouping')
  BY <1>2, <1>3, <1>4, <1>7, <1>10, <1>11, <1>12, <1>13, BeginStep
<1>15. QED
  BY <1>0, <1>4, <1>13, <1>14 DEF ScopeInv, SummaryIsTrue, TypeOK

LEMMA BeginTrackedStep ==
    ASSUME ScopeInv, NEW s \in Statements, NEW e \in BOOLEAN, NEW k \in Shapes \cup {NoShape}, NEW long \in BOOLEAN,
           BeginTracked(s, e, k, long)
    PROVE  ScopeInv'
<1> DEFINE wanted == repeat /\ e /\ k # NoShape
           found == wanted /\ k \in Groups
           new == wanted /\ ~found /\ Cardinality(Groups) < MaxShapes
<1>0. TypeOK /\ BudgetIsExact /\ EventsAccounted /\ SuspectedOnce /\ Grouping
  BY DEF ScopeInv, SummaryIsTrue
<1>1. PICK trunc \in BOOLEAN : trunc = ((repeat /\ long) \/ (wanted /\ ~found /\ ~new))
  BY <1>0 DEF TypeOK
<1>2. /\ fate[s] = "new" /\ ~Exhausted /\ ~finished /\ Reserve /\ Becomes(s, "open") /\ Cardinality(pending) < MaxTracking
      /\ eligible' = [eligible EXCEPT ![s] = e]
      /\ group' = [group EXCEPT ![s] = IF found \/ new THEN k ELSE NoShape]
      /\ shapes' = IF new THEN [shapes EXCEPT ![k] = 0] ELSE shapes
      /\ Record(Ones({"attempted", "dispatched", "inFlight"}), <<>>, trunc, FALSE)
      /\ UNCHANGED <<scopeVars, finished, maxRepeat, tx, drainVars>>
  BY <1>1 DEF BeginTracked
<1>3. used' \in 0..MaxNumber
  BY <1>0, <1>2, ScopeAssumption DEF TypeOK, Reserve, Least
<1>4. BudgetIsExact'
  <2>1. "open" \in Sent /\ limit' = limit
    BY <1>2 DEF Sent, Ticketed, scopeVars
  <2>2. QED
    BY <1>0, <1>2, <2>1, BudgetSpent
<1>5. PICK inc : inc = Ones({"attempted", "dispatched", "inFlight"})
  OBVIOUS
<1>6. /\ inc \in [Counters -> Int] /\ inc["dropped"] = 0
      /\ \A m \in Counters : /\ inc[m] = (IF m \in {"attempted", "dispatched", "inFlight"} THEN 1 ELSE 0)
                             /\ 0 <= sum[m] + inc[m]
  <2>1. {"attempted", "dispatched", "inFlight"} \in SUBSET (Counters \ {"dropped"})
    BY DEF Counters
  <2>2. QED
    BY <1>0, <1>5, <2>1, OnesFacts
<1>7. PICK es : es = <<>>
  OBVIOUS
<1>8. es \in Seq(Events) /\ Len(es) = 0
  BY <1>7
<1>9. Recorded(inc, 0)
  BY <1>0, <1>2, <1>5, <1>6, <1>7, <1>8, RecordFacts
<1>10. /\ inc["suspected"] = 0 /\ inc["boundaries"] = 0
       /\ inc["rejected"] + inc["preflight"] + inc["completed"] + inc["incomplete"] + inc["boundaries"] = 0
  BY <1>6 DEF Counters
<1>11. \A m \in Names : inc[m] = (IF "open" \in Named(m) THEN 1 ELSE 0) - (IF "new" \in Named(m) THEN 1 ELSE 0)
  BY <1>5, BeginCounts
<1>12. /\ CountersMatchFates' /\ BoundariesOnce' /\ EventsAccounted' /\ Tracking' /\ IsFiniteSet(Begun)' /\ OneDrain'
       /\ (group' \in [Statements -> Shapes \cup {NoShape}] /\ eligible' \in [Statements -> BOOLEAN]
             /\ shapes' \in [Shapes -> {NoGroup} \cup 0..MaxNumber] => TypeOK')
  BY <1>2, <1>3, <1>4, <1>6, <1>9, <1>10, <1>11, BeginStep
<1>13. /\ group \in [Statements -> Shapes \cup {NoShape}] /\ eligible \in [Statements -> BOOLEAN]
       /\ shapes \in [Shapes -> {NoGroup} \cup 0..MaxNumber] /\ maxRepeat \in 0..MaxNumber
       /\ fate \in [Statements -> Fates]
  BY <1>0, Zenon DEF TypeOK
<1>14. new => k \in Shapes
  OBVIOUS
<1>15. TypeOK'
  <2>1. group' \in [Statements -> Shapes \cup {NoShape}] /\ eligible' \in [Statements -> BOOLEAN]
    BY <1>2, <1>13
  <2>2. shapes' \in [Shapes -> {NoGroup} \cup 0..MaxNumber]
    BY <1>2, <1>13, <1>14, ScopeAssumption
  <2>3. QED
    BY <1>12, <2>1, <2>2
<1>16. Groups' = IF new THEN Groups \cup {k} ELSE Groups
  BY <1>2, <1>13, <1>14 DEF Groups, NoGroup
<1>17. \A t \in Statements : /\ t # s => group'[t] = group[t] /\ eligible'[t] = eligible[t]
                             /\ group'[s] = (IF found \/ new THEN k ELSE NoShape) /\ eligible'[s] = e
  BY <1>2, <1>13
<1>18. Grouping'
  <2>1. IsFiniteSet(Groups')
    BY <1>0, <1>16, FS_AddElement DEF Grouping
  <2>2. ASSUME NEW t \in Statements, group'[t] # NoShape
        PROVE  repeat' /\ eligible'[t] /\ group'[t] \in Groups'
    <3>1. CASE t = s
      BY <1>2, <1>16, <1>17, <2>2, <3>1 DEF scopeVars
    <3>2. CASE t # s
      BY <1>0, <1>2, <1>16, <1>17, <2>2, <3>2 DEF Grouping, scopeVars
    <3>3. QED
      BY <3>1, <3>2
  <2>3. QED
    BY <1>2, <2>1, <2>2 DEF Grouping
<1>19. SuspectedOnce'
  <2> SUFFICES ASSUME ~saturated'
               PROVE  /\ sum'["suspected"] = Cardinality({j \in Groups' : shapes'[j] >= Suspect})
                      /\ \A j \in Groups' : shapes'[j] <= maxRepeat'
                      /\ \A j \in Groups' : shapes'[j] =
                           Cardinality({t \in Statements : group'[t] = j /\ fate'[t] \in {"success", "partial"}})
    BY DEF SuspectedOnce
  <2>1. sum'["suspected"] = sum["suspected"] /\ ~saturated
    <3>1. "suspected" \in Counters \ {"dropped"}
      BY DEF Counters
    <3>2. sum["suspected"] \in Int
      <4>1. sum \in [Counters -> 0..MaxNumber]
        BY <1>0, Zenon DEF TypeOK
      <4>2. QED
        BY <3>1, <4>1, ScopeAssumption
    <3>3. QED
      BY <1>9, <1>10, <3>1, <3>2 DEF Recorded
  <2>2. /\ sum["suspected"] = Cardinality({j \in Groups : shapes[j] >= Suspect})
        /\ \A j \in Groups : shapes[j] <= maxRepeat
        /\ \A j \in Groups : shapes[j] =
             Cardinality({t \in Statements : group[t] = j /\ fate[t] \in {"success", "partial"}})
    BY <1>0, <1>2, <2>1 DEF SuspectedOnce
  <2>3. \A j : {t \in Statements : group'[t] = j /\ fate'[t] \in {"success", "partial"}}
               = {t \in Statements : group[t] = j /\ fate[t] \in {"success", "partial"}}
    <3>1. \A t \in Statements : t # s => fate'[t] = fate[t]
      BY <1>2, <1>13 DEF Becomes
    <3>2. fate'[s] = "open" /\ fate[s] = "new"
      BY <1>2, <1>13 DEF Becomes
    <3>3. QED
      BY <1>17, <3>1, <3>2
  <2>4. CASE ~new
    <3>1. Groups' = Groups /\ shapes' = shapes /\ maxRepeat' = maxRepeat
      BY <1>2, <1>16, <2>4
    <3>2. QED
      BY <2>1, <2>2, <2>3, <3>1
  <2>5. CASE new
    <3>1. Groups' = Groups \cup {k} /\ k \notin Groups /\ maxRepeat' = maxRepeat
      BY <1>2, <1>16, <2>5
    <3>2. shapes'[k] = 0 /\ \A j \in Groups : shapes'[j] = shapes[j]
      <4>1. shapes' = [shapes EXCEPT ![k] = 0] /\ k \in Shapes
        BY <1>2, <1>14, <2>5, Zenon
      <4>2. Groups \subseteq Shapes
        BY DEF Groups
      <4>3. \A j \in Shapes : shapes'[j] = IF j = k THEN 0 ELSE shapes[j]
        BY <1>13, <4>1
      <4>4. QED
        BY <3>1, <4>1, <4>2, <4>3
    <3>3. {j \in Groups' : shapes'[j] >= Suspect} = {j \in Groups : shapes[j] >= Suspect}
      BY <3>1, <3>2, ScopeAssumption
    <3>4. {t \in Statements : group[t] = k /\ fate[t] \in {"success", "partial"}} = {}
      BY <1>0, <1>2, <2>5, <3>1 DEF Grouping
    <3>5. Cardinality({t \in Statements : group[t] = k /\ fate[t] \in {"success", "partial"}}) = 0
      BY <3>4, FS_EmptySet
    <3>6. 0 <= maxRepeat
      BY <1>13, ScopeAssumption
    <3>7. sum'["suspected"] = Cardinality({j \in Groups' : shapes'[j] >= Suspect})
      BY <2>1, <2>2, <3>3
    <3>8. \A j \in Groups' : shapes'[j] <= maxRepeat'
      BY <2>2, <3>1, <3>2, <3>6
    <3>9. ASSUME NEW j \in Groups'
          PROVE  shapes'[j] = Cardinality({t \in Statements : group'[t] = j /\ fate'[t] \in {"success", "partial"}})
      <4>1. CASE j = k
        BY <2>3, <3>2, <3>5, <4>1
      <4>2. CASE j # k
        BY <2>2, <2>3, <3>1, <3>2, <3>9, <4>2
      <4>3. QED
        BY <4>1, <4>2
    <3>10. QED
      BY <3>7, <3>8, <3>9
  <2>6. QED
    BY <2>4, <2>5
<1>20. QED
  BY <1>4, <1>12, <1>15, <1>18, <1>19 DEF ScopeInv, SummaryIsTrue

(***************************************************************************)
(* Completing a ticket                                                     *)
(***************************************************************************)

(* What completing a ticket with o counts, X of it about shapes            *)
CompleteInc(o, X) == [Ones(Tally(o) \cup X) EXCEPT !["inFlight"] = -1]

Completing(o, X, inc) ==
    /\ inc \in [Counters -> Int] /\ inc["dropped"] = 0 /\ inc["boundaries"] = 0
    /\ \A m \in Counters : inc[m] = IF m = "inFlight" THEN -1 ELSE IF m \in Tally(o) \cup X THEN 1 ELSE 0
    /\ inc["suspected"] = IF "suspected" \in X THEN 1 ELSE 0
    /\ inc["rejected"] + inc["preflight"] + inc["completed"] + inc["incomplete"] + inc["boundaries"] = 1
    /\ \A m \in Names : inc[m] = (IF o \in Named(m) THEN 1 ELSE 0) - (IF "open" \in Named(m) THEN 1 ELSE 0)

LEMMA CompleteCounts ==
    ASSUME NEW o \in Outcomes, NEW X \in SUBSET {"suspected", "shapeUnknown"}
    PROVE  Completing(o, X, CompleteInc(o, X))
<1>0. PICK inc, names : names = Tally(o) \cup X /\ inc = CompleteInc(o, X) /\ inc = [Ones(names) EXCEPT !["inFlight"] = -1]
  BY DEF CompleteInc
<1>1. inc \in [Counters -> Int] /\ \A m \in Counters : inc[m] = IF m = "inFlight" THEN -1 ELSE IF m \in names THEN 1 ELSE 0
  <2>1. PICK one : one = Ones(names)
    OBVIOUS
  <2>2. one \in [Counters -> Int] /\ \A m \in Counters : one[m] = IF m \in names THEN 1 ELSE 0
    BY <2>1 DEF Ones
  <2>3. inc = [one EXCEPT !["inFlight"] = -1] /\ -1 \in Int
    BY <1>0, <2>1
  <2>4. QED
    BY <2>2, <2>3
<1>2. \/ o = "success" /\ Tally(o) = {"completed", "successful"}
      \/ o = "partial" /\ Tally(o) = {"completed", "partial"}
      \/ o = "error"   /\ Tally(o) = {"completed", "failed"}
      \/ o = "handoff" /\ Tally(o) = {"incomplete", "handoffs"}
  BY DEF Outcomes, Tally
<1>3. /\ "dropped" \notin names /\ "boundaries" \notin names /\ "rejected" \notin names /\ "preflight" \notin names
      /\ ("suspected" \in names) <=> ("suspected" \in X)
      /\ ("completed" \in names) <=> ("incomplete" \notin names)
  <2>1. \A m : m \in names <=> m \in Tally(o) \/ m \in X
    BY <1>0
  <2>2. \A m \in X : m \in {"suspected", "shapeUnknown"}
    OBVIOUS
  <2>3. /\ "dropped" \notin X /\ "boundaries" \notin X /\ "rejected" \notin X /\ "preflight" \notin X
        /\ "completed" \notin X /\ "incomplete" \notin X
    BY <2>2
  <2>4. /\ "dropped" \notin Tally(o) /\ "boundaries" \notin Tally(o) /\ "rejected" \notin Tally(o)
        /\ "preflight" \notin Tally(o) /\ "suspected" \notin Tally(o)
        /\ ("completed" \in Tally(o)) <=> ("incomplete" \notin Tally(o))
    BY <1>2
  <2>5. QED
    BY <2>1, <2>3, <2>4
<1>4. {"dropped", "boundaries", "suspected", "rejected", "preflight", "completed", "incomplete"} \subseteq Counters \ {"inFlight"}
  BY DEF Counters
<1>5. \A m \in Names : /\ "open" \in Named(m) <=> m \in {"attempted", "dispatched", "inFlight"}
                       /\ "success" \in Named(m) <=> m \in {"attempted", "dispatched", "completed", "successful"}
                       /\ "partial" \in Named(m) <=> m \in {"attempted", "dispatched", "completed", "partial"}
                       /\ "error" \in Named(m) <=> m \in {"attempted", "dispatched", "completed", "failed"}
                       /\ "handoff" \in Named(m) <=> m \in {"attempted", "dispatched", "incomplete", "handoffs"}
  <2>1. \A m \in Names : "open" \in Named(m) <=> m \in {"attempted", "dispatched", "inFlight"}
    BY EachName, SMTT(30) DEF Ticketed, Outcomes
  <2>2. \A m \in Names : "success" \in Named(m) <=> m \in {"attempted", "dispatched", "completed", "successful"}
    BY EachName, SMTT(30) DEF Ticketed, Outcomes
  <2>3. \A m \in Names : "partial" \in Named(m) <=> m \in {"attempted", "dispatched", "completed", "partial"}
    BY EachName, SMTT(30) DEF Ticketed, Outcomes
  <2>4. \A m \in Names : "error" \in Named(m) <=> m \in {"attempted", "dispatched", "completed", "failed"}
    BY EachName, SMTT(30) DEF Ticketed, Outcomes
  <2>5. \A m \in Names : "handoff" \in Named(m) <=> m \in {"attempted", "dispatched", "incomplete", "handoffs"}
    BY EachName, SMTT(30) DEF Ticketed, Outcomes
  <2>6. QED
    BY <2>1, <2>2, <2>3, <2>4, <2>5
<1>6. \A m \in Names : m \in Counters /\ m \notin {"suspected", "shapeUnknown"}
  BY DEF Names, Counters
<1>7. ASSUME NEW m \in Names
      PROVE  inc[m] = (IF o \in Named(m) THEN 1 ELSE 0) - (IF "open" \in Named(m) THEN 1 ELSE 0)
  <2>1. m \in names <=> m \in Tally(o)
    BY <1>0, <1>6
  <2>2. inc[m] = IF m = "inFlight" THEN -1 ELSE IF m \in Tally(o) THEN 1 ELSE 0
    BY <1>1, <1>6, <2>1
  <2>3. o \in Named(m) <=> m \in {"attempted", "dispatched"} \cup Tally(o)
    BY <1>2, <1>5
  <2>4. m \in Tally(o) => m \notin {"attempted", "dispatched", "inFlight"}
    BY <1>2
  <2>5. "open" \in Named(m) <=> m \in {"attempted", "dispatched", "inFlight"}
    BY <1>5
  <2>6. QED
    BY <2>2, <2>3, <2>4, <2>5
<1>8. inc["dropped"] = 0 /\ inc["boundaries"] = 0 /\ inc["suspected"] = IF "suspected" \in X THEN 1 ELSE 0
  BY <1>1, <1>3, <1>4
<1>9. inc["rejected"] + inc["preflight"] + inc["completed"] + inc["incomplete"] + inc["boundaries"] = 1
  <2>1. inc["rejected"] = 0 /\ inc["preflight"] = 0 /\ inc["boundaries"] = 0
    BY <1>1, <1>3, <1>4
  <2>2. inc["completed"] = (IF "completed" \in names THEN 1 ELSE 0)
        /\ inc["incomplete"] = (IF "incomplete" \in names THEN 1 ELSE 0)
    BY <1>1, <1>4
  <2>3. QED
    BY <1>3, <2>1, <2>2
<1>10. QED
  BY <1>0, <1>1, <1>7, <1>8, <1>9, Zenon DEF Completing

(* A shape is suspected when its repetitions reach Suspect, and only then   *)
LEMMA SuspicionMoves ==
    ASSUME NEW G, IsFiniteSet(G), NEW k \in G, NEW before, NEW after, NEW n \in Nat, before[k] = n, after[k] = n + 1,
           \A j \in G : j # k => after[j] = before[j]
    PROVE  Cardinality({j \in G : after[j] >= Suspect})
             = Cardinality({j \in G : before[j] >= Suspect}) + IF n + 1 = Suspect THEN 1 ELSE 0
<1>1. PICK A, B : A = {j \in G : before[j] >= Suspect} /\ B = {j \in G : after[j] >= Suspect}
  OBVIOUS
<1>2. IsFiniteSet(A) /\ Cardinality(A) \in Nat
  BY <1>1, FS_Subset, FS_CardinalityType
<1>3. Suspect \in Nat
  BY ScopeAssumption
<1>4. CASE n + 1 = Suspect
  <2>1. B = A \cup {k} /\ k \notin A
    BY <1>1, <1>3, <1>4
  <2>2. Cardinality(A \cup {k}) = Cardinality(A) + 1
    <3>1. Cardinality(A \cup {k}) = IF k \in A THEN Cardinality(A) ELSE Cardinality(A) + 1
      BY <1>2, FS_AddElement, Zenon
    <3>2. QED
      BY <2>1, <3>1
  <2>3. QED
    BY <1>1, <1>4, <2>1, <2>2
<1>5. CASE n + 1 # Suspect
  <2>1. B = A
    BY <1>1, <1>3, <1>5
  <2>2. QED
    BY <1>1, <1>2, <1>5, <2>1
<1>6. QED
  BY <1>4, <1>5

(* A repetition is one more statement of its shape                         *)
LEMMA RepetitionCounted ==
    ASSUME fate \in [Statements -> Fates], group' = group, NEW s \in Statements, NEW o \in {"success", "partial"},
           Becomes(s, o), fate[s] = "open"
    PROVE  \A k : Cardinality({t \in Statements : group'[t] = k /\ fate'[t] \in {"success", "partial"}})
                  = Cardinality({t \in Statements : group[t] = k /\ fate[t] \in {"success", "partial"}})
                    + IF group[s] = k THEN 1 ELSE 0
<1> SUFFICES ASSUME NEW k
             PROVE  Cardinality({t \in Statements : group'[t] = k /\ fate'[t] \in {"success", "partial"}})
                    = Cardinality({t \in Statements : group[t] = k /\ fate[t] \in {"success", "partial"}})
                      + IF group[s] = k THEN 1 ELSE 0
  OBVIOUS
<1>0. PICK old, new : /\ old = {t \in Statements : group[t] = k /\ fate[t] \in {"success", "partial"}}
                      /\ new = {t \in Statements : group'[t] = k /\ fate'[t] \in {"success", "partial"}}
  OBVIOUS
<1>1. \A t \in Statements : fate'[t] = IF t = s THEN o ELSE fate[t]
  BY DEF Becomes
<1>2. s \notin old
  BY <1>0
<1>3. new = IF group[s] = k THEN old \cup {s} ELSE old
  BY <1>0, <1>1
<1>4. IsFiniteSet(old) /\ Cardinality(old) \in Nat
  BY <1>0, StatementsAssumption, FS_Subset, FS_CardinalityType
<1>5. Cardinality(old \cup {s}) = Cardinality(old) + 1
  <2>1. Cardinality(old \cup {s}) = IF s \in old THEN Cardinality(old) ELSE Cardinality(old) + 1
    BY <1>4, FS_AddElement, Zenon
  <2>2. QED
    BY <1>2, <2>1
<1>6. QED
  <2>1. Cardinality(new) = Cardinality(old) + IF group[s] = k THEN 1 ELSE 0
    BY <1>3, <1>4, <1>5
  <2>2. QED
    BY <1>0, <2>1

LEMMA CompleteStep ==
    ASSUME ScopeInv, NEW s \in Statements, NEW o \in Outcomes, NEW over \in BOOLEAN, s \in pending, Complete(s, o, over),
           UNCHANGED <<scopeVars, finished, used, group, eligible, tx, drainVars>>
    PROVE  ScopeInv'
<1> DEFINE counted == repeat /\ eligible[s] /\ group[s] # NoShape /\ o \in {"success", "partial"}
           unknown == repeat /\ eligible[s] /\ ~counted
           n == shapes[group[s]]
           hit == counted /\ Least(n + 1, MaxNumber) = Suspect
           names == Tally(o) \cup (IF hit THEN {"suspected"} ELSE {}) \cup (IF unknown THEN {"shapeUnknown"} ELSE {})
<1>0. /\ TypeOK /\ BudgetIsExact /\ CountersMatchFates /\ SuspectedOnce /\ BoundariesOnce /\ EventsAccounted
      /\ Tracking /\ Grouping /\ IsFiniteSet(Begun) /\ OneDrain
  BY DEF ScopeInv, SummaryIsTrue
<1>1. /\ group \in [Statements -> Shapes \cup {NoShape}] /\ eligible \in [Statements -> BOOLEAN]
      /\ shapes \in [Shapes -> {NoGroup} \cup 0..MaxNumber] /\ maxRepeat \in 0..MaxNumber
      /\ fate \in [Statements -> Fates] /\ sum \in [Counters -> 0..MaxNumber]
  BY <1>0, Zenon DEF TypeOK
<1>2. fate[s] = "open" /\ ~finished
  BY <1>0 DEF pending, Tracking
<1>3. MaxNumber \in Nat /\ Suspect \in Nat \ {0} /\ Suspect < MaxNumber
  BY ScopeAssumption
<1>4. PICK X : X = (IF hit THEN {"suspected"} ELSE {}) \cup (IF unknown THEN {"shapeUnknown"} ELSE {})
  OBVIOUS
<1>5. X \in SUBSET {"suspected", "shapeUnknown"} /\ ("suspected" \in X <=> hit) /\ names = Tally(o) \cup X
  <2>1. X \in SUBSET {"suspected", "shapeUnknown"} /\ ("suspected" \in X <=> hit)
    BY <1>4
  <2>2. names = Tally(o) \cup X
    BY <1>4
  <2>3. QED
    BY <2>1, <2>2
<1>6. PICK inc : inc = [Ones(names) EXCEPT !["inFlight"] = -1]
  OBVIOUS
<1>7. /\ inc \in [Counters -> Int] /\ inc["dropped"] = 0 /\ inc["boundaries"] = 0
      /\ \A m \in Counters : inc[m] = IF m = "inFlight" THEN -1 ELSE IF m \in names THEN 1 ELSE 0
      /\ inc["suspected"] = IF "suspected" \in X THEN 1 ELSE 0
      /\ inc["rejected"] + inc["preflight"] + inc["completed"] + inc["incomplete"] + inc["boundaries"] = 1
      /\ \A m \in Names : inc[m] = (IF o \in Named(m) THEN 1 ELSE 0) - (IF "open" \in Named(m) THEN 1 ELSE 0)
  <2> HIDE DEF names
  <2>1. inc = CompleteInc(o, X)
    BY <1>5, <1>6 DEF CompleteInc
  <2>2. Completing(o, X, inc)
    BY <1>5, <2>1, CompleteCounts
  <2>3. QED
    BY <1>5, <2>2, Zenon DEF Completing
<1>8. PICK mark : mark = IF hit THEN "suspected" ELSE Code(o)
  OBVIOUS
<1>9. PICK es : es = <<Event(o, mark)>>
  OBVIOUS
<1>10. PICK past \in BOOLEAN : past = (over \/ (counted /\ n = MaxNumber))
  BY <1>1
<1>11. /\ Becomes(s, o)
       /\ shapes' = IF counted THEN [shapes EXCEPT ![group[s]] = Least(n + 1, MaxNumber)] ELSE shapes
       /\ maxRepeat' = IF counted /\ Least(n + 1, MaxNumber) > maxRepeat THEN Least(n + 1, MaxNumber) ELSE maxRepeat
       /\ Record(inc, es, FALSE, past)
  BY <1>6, <1>8, <1>9, <1>10, Zenon DEF Complete
<1>12. es \in Seq(Events) /\ Len(es) = 1
  <2>1. o \in Fates \cup {"rejected"}
    BY DEF Fates, Sent, Ticketed
  <2>2. mark \in {"none", "unknown", "failure", "budget", "limited", "suspected"}
    BY <1>8 DEF Code
  <2>3. QED
    BY <1>9, <2>1, <2>2, OneEvent
<1>13. \A m \in Counters : 0 <= sum[m] + inc[m]
  <2>1. sum["inFlight"] = Cardinality(pending)
    BY <1>0, PendingCount DEF CountersMatchFates
  <2>2. PICK p : p = pending
    OBVIOUS
  <2>3. IsFiniteSet(p) /\ Cardinality(p) \in Nat /\ Cardinality(p) # 0
    BY <2>2, StatementsAssumption, FS_Subset, FS_CardinalityType, FS_EmptySet DEF pending
  <2>4. sum["inFlight"] + inc["inFlight"] >= 0 /\ "inFlight" \in Counters
    <3>1. "inFlight" \in Counters
      BY DEF Counters
    <3>2. inc["inFlight"] = -1
      BY <1>7, <3>1
    <3>3. sum["inFlight"] \in Nat /\ sum["inFlight"] # 0
      BY <2>1, <2>2, <2>3
    <3>4. QED
      BY <3>1, <3>2, <3>3
  <2>5. \A m \in Counters : sum[m] \in Nat
    BY <1>1, <1>3
  <2>6. ASSUME NEW m \in Counters, m # "inFlight" PROVE 0 <= sum[m] + inc[m]
    <3>1. inc[m] \in Nat
      BY <1>7, <2>6
    <3>2. QED
      BY <2>5, <3>1
  <2>7. QED
    BY <2>4, <2>6
<1>14. Recorded(inc, 1)
  BY <1>0, <1>7, <1>11, <1>12, <1>13, RecordFacts
<1>15. \A m \in Names : Count(Named(m))' = Count(Named(m)) + inc[m]
  BY <1>0, <1>2, <1>7, <1>11, NamesMove
<1>16. Tracking'
  <2>1. o # "open"
    BY DEF Outcomes
  <2>2. QED
    BY <1>0, <1>11, <2>1, PendingMove
<1>17. CountersMatchFates'
  BY <1>0, <1>7, <1>14, <1>15, <1>16, CountersMove DEF Tracking
<1>18. BudgetIsExact'
  <2>1. o \in Sent /\ "open" \in Sent /\ o \notin {"refused", "barred"} /\ "open" \notin {"refused", "barred"}
    BY DEF Sent, Ticketed, Outcomes
  <2>2. \A F : Count(F)' = Count(F) + (IF o \in F THEN 1 ELSE 0) - (IF "open" \in F THEN 1 ELSE 0)
    BY <1>1, <1>2, <1>11, CountMoves, ZenonT(60)
  <2>3. Count(Sent) \in Nat /\ Count({"refused", "barred"}) \in Nat
    BY CountNat
  <2>4. Count(Sent)' = Count(Sent) + 1 - 1 /\ Count({"refused", "barred"})' = Count({"refused", "barred"}) + 0 - 0
    BY <2>1, <2>2
  <2>5. Count(Sent)' = Count(Sent) /\ Count({"refused", "barred"})' = Count({"refused", "barred"})
    BY <2>3, <2>4
  <2>6. QED
    BY <1>0, <2>5, BudgetKept DEF scopeVars
<1>19. /\ ~saturated' => ~saturated /\ sum'["boundaries"] = sum["boundaries"]
       /\ ~saturated' => sum'["suspected"] = sum["suspected"] + IF hit THEN 1 ELSE 0
  <2>1. {"suspected", "boundaries"} \subseteq Counters \ {"dropped"}
    BY DEF Counters
  <2>2. ~saturated' => ~saturated /\ \A m \in Counters \ {"dropped"} : sum'[m] = sum[m] + inc[m]
    BY <1>14 DEF Recorded
  <2>3. sum["suspected"] \in Int /\ sum["boundaries"] \in Int
    BY <1>1, <1>3, <2>1
  <2>4. inc["suspected"] = IF hit THEN 1 ELSE 0
    BY <1>5, <1>7
  <2>5. QED
    BY <1>7, <2>1, <2>2, <2>3, <2>4
<1>20. BoundariesOnce' /\ EventsAccounted' /\ IsFiniteSet(Begun)' /\ OneDrain'
  <2>1. BoundariesOnce'
    BY <1>0, <1>19, BoundariesKept
  <2>2. EventsAccounted'
    BY <1>0, <1>7, <1>14, EventsMove
  <2>3. QED
    BY <1>0, <2>1, <2>2 DEF Begun, OneDrain, drainVars
<1>21. counted => group[s] \in Groups /\ group[s] \in Shapes /\ n \in 0..MaxNumber
  BY <1>0, <1>1, <1>2 DEF Grouping, Groups
<1>22. TypeOK'
  <2>1. fate' \in [Statements -> Fates]
    <3>1. o \in Fates
      BY DEF Fates, Sent, Ticketed
    <3>2. QED
      BY <1>1, <1>11, <3>1 DEF Becomes
  <2>2. counted => Least(n + 1, MaxNumber) \in 0..MaxNumber
    BY <1>3, <1>21 DEF Least
  <2>3. shapes' \in [Shapes -> {NoGroup} \cup 0..MaxNumber] /\ maxRepeat' \in 0..MaxNumber
    <3>1. CASE counted
      <4>1. shapes' = [shapes EXCEPT ![group[s]] = Least(n + 1, MaxNumber)]
        BY <1>11, <3>1
      <4>2. QED
        BY <1>1, <1>11, <2>2, <3>1, <4>1
    <3>2. CASE ~counted
      BY <1>1, <1>11, <3>2
    <3>3. QED
      BY <3>1, <3>2
  <2>4. QED
    BY <1>0, <1>14, <2>1, <2>3 DEF TypeOK, Recorded, scopeVars, drainVars
<1>23. Groups' = Groups
  <2>1. counted => Least(n + 1, MaxNumber) # NoGroup /\ n # NoGroup
    BY <1>3, <1>21 DEF Least, NoGroup
  <2>2. CASE counted
    <3>1. shapes' = [shapes EXCEPT ![group[s]] = Least(n + 1, MaxNumber)]
      BY <1>11, <2>2
    <3>2. QED
      BY <1>1, <1>21, <2>1, <2>2, <3>1 DEF Groups
  <2>3. CASE ~counted
    BY <1>11, <2>3 DEF Groups
  <2>4. QED
    BY <2>2, <2>3
<1>24. Grouping'
  BY <1>0, <1>23 DEF Grouping, scopeVars
<1>25. SuspectedOnce'
  <2> SUFFICES ASSUME ~saturated'
               PROVE  /\ sum'["suspected"] = Cardinality({j \in Groups' : shapes'[j] >= Suspect})
                      /\ \A j \in Groups' : shapes'[j] <= maxRepeat'
                      /\ \A j \in Groups' : shapes'[j] =
                           Cardinality({t \in Statements : group'[t] = j /\ fate'[t] \in {"success", "partial"}})
    BY DEF SuspectedOnce
  <2>1. /\ sum["suspected"] = Cardinality({j \in Groups : shapes[j] >= Suspect})
        /\ \A j \in Groups : shapes[j] <= maxRepeat
        /\ \A j \in Groups : shapes[j] =
             Cardinality({t \in Statements : group[t] = j /\ fate[t] \in {"success", "partial"}})
    BY <1>0, <1>2, <1>19 DEF SuspectedOnce
  <2>2. group' = group /\ \A t \in Statements : fate'[t] = IF t = s THEN o ELSE fate[t]
    BY <1>1, <1>11 DEF Becomes
  <2>3. CASE ~counted
    <3>1. shapes' = shapes /\ maxRepeat' = maxRepeat
      BY <1>11, <2>3
    <3>2. sum'["suspected"] = sum["suspected"]
      <4>1. sum["suspected"] \in Int
        BY <1>1, <1>3 DEF Counters
      <4>2. QED
        BY <1>19, <2>3, <4>1
    <3>3. o \in {"success", "partial"} => group[s] = NoShape
      BY <1>0, <2>3 DEF Grouping
    <3>4. ASSUME NEW j \in Groups
          PROVE  {t \in Statements : group'[t] = j /\ fate'[t] \in {"success", "partial"}}
                 = {t \in Statements : group[t] = j /\ fate[t] \in {"success", "partial"}}
      <4>1. j # NoShape
        BY NoShapeAssumption DEF Groups
      <4>2. QED
        BY <1>2, <2>2, <3>3, <4>1
    <3>5. QED
      BY <1>23, <2>1, <3>1, <3>2, <3>4
  <2>4. CASE counted
    <3>1. PICK k : k = group[s]
      OBVIOUS
    <3>2. PICK m : m = shapes[k]
      OBVIOUS
    <3>3. k \in Groups /\ k \in Shapes /\ m \in 0..MaxNumber /\ o \in {"success", "partial"}
      BY <1>21, <2>4, <3>1, <3>2
    <3>4. m # MaxNumber /\ m \in Nat /\ m + 1 <= MaxNumber
      <4>1. ~past
        <5>1. past => saturated'
          BY <1>11, Zenon DEF Record
        <5>2. QED
          BY <5>1
      <4>2. QED
        <5>1. past <=> over \/ (counted /\ n = MaxNumber)
          BY <1>10
        <5>2. n # MaxNumber
          BY <2>4, <4>1, <5>1
        <5>3. m # MaxNumber
          BY <3>1, <3>2, <5>2
        <5>4. QED
          BY <1>3, <3>3, <5>3
    <3>5. Least(m + 1, MaxNumber) = m + 1
      BY <1>3, <3>4 DEF Least
    <3>6. shapes' = [shapes EXCEPT ![k] = m + 1] /\ maxRepeat' = IF m + 1 > maxRepeat THEN m + 1 ELSE maxRepeat
      BY <1>11, <2>4, <3>1, <3>2, <3>5
    <3>7. shapes'[k] = m + 1 /\ \A j \in Groups : j # k => shapes'[j] = shapes[j]
      BY <1>1, <3>3, <3>6 DEF Groups
    <3>8. hit <=> m + 1 = Suspect
      BY <2>4, <3>1, <3>2, <3>5
    <3>9. sum'["suspected"] = Cardinality({j \in Groups' : shapes'[j] >= Suspect})
      <4>1. IsFiniteSet(Groups)
        BY <1>0 DEF Grouping
      <4>2. Cardinality({j \in Groups : shapes'[j] >= Suspect})
            = Cardinality({j \in Groups : shapes[j] >= Suspect}) + IF m + 1 = Suspect THEN 1 ELSE 0
        <5>1. PICK G, before, after : G = Groups /\ before = shapes /\ after = shapes'
          OBVIOUS
        <5>2. IsFiniteSet(G) /\ k \in G /\ before[k] = m /\ after[k] = m + 1 /\ \A j \in G : j # k => after[j] = before[j]
          BY <3>2, <3>3, <3>7, <4>1, <5>1
        <5>3. Cardinality({j \in G : after[j] >= Suspect})
              = Cardinality({j \in G : before[j] >= Suspect}) + IF m + 1 = Suspect THEN 1 ELSE 0
          BY <3>4, <5>2, SuspicionMoves
        <5>4. QED
          BY <5>1, <5>3
      <4>3. QED
        BY <1>19, <1>23, <2>1, <3>8, <4>2
    <3>10. \A j \in Groups' : shapes'[j] <= maxRepeat'
      <4>1. maxRepeat \in Nat /\ \A j \in Groups : shapes[j] \in Nat
        BY <1>1, <1>3 DEF Groups
      <4>2. maxRepeat <= maxRepeat' /\ m + 1 <= maxRepeat' /\ maxRepeat' \in Nat
        BY <3>4, <3>6, <4>1
      <4>3. QED
        BY <1>23, <2>1, <3>7, <4>1, <4>2
    <3>11. ASSUME NEW j \in Groups
           PROVE  shapes'[j] = Cardinality({t \in Statements : group'[t] = j /\ fate'[t] \in {"success", "partial"}})
      <4>1. Cardinality({t \in Statements : group'[t] = j /\ fate'[t] \in {"success", "partial"}})
            = Cardinality({t \in Statements : group[t] = j /\ fate[t] \in {"success", "partial"}})
              + IF group[s] = j THEN 1 ELSE 0
        BY <1>1, <1>2, <1>11, <2>2, <3>3, RepetitionCounted
      <4>2. Cardinality({t \in Statements : group[t] = j /\ fate[t] \in {"success", "partial"}}) = shapes[j]
        BY <2>1
      <4>3. shapes[j] \in Nat
        BY <1>1, <1>3 DEF Groups
      <4>4. QED
        BY <3>1, <3>2, <3>7, <4>1, <4>2, <4>3
    <3>12. QED
      BY <1>23, <3>9, <3>10, <3>11
  <2>5. QED
    BY <2>3, <2>4
<1>26. QED
  BY <1>16, <1>17, <1>18, <1>20, <1>22, <1>24, <1>25 DEF ScopeInv, SummaryIsTrue

LEMMA EndStep ==
    ASSUME ScopeInv, NEW s \in Statements, NEW o \in Outcomes, End(s, o), ~UNCHANGED vars
    PROVE  ScopeInv'
<1>1. PICK over \in BOOLEAN : s \in pending /\ Complete(s, o, over)
                              /\ UNCHANGED <<scopeVars, finished, used, group, eligible, tx, drainVars>>
  BY DEF End
<1>2. QED
  BY <1>1, CompleteStep

LEMMA SaturateStep ==
    ASSUME ScopeInv, NEW s \in Statements, Saturate(s)
    PROVE  ScopeInv'
<1>0. /\ TypeOK /\ BudgetIsExact /\ CountersMatchFates /\ SuspectedOnce /\ BoundariesOnce /\ EventsAccounted
      /\ Tracking /\ Grouping /\ IsFiniteSet(Begun) /\ OneDrain
  BY DEF ScopeInv, SummaryIsTrue
<1>1. /\ saturated' = TRUE
      /\ UNCHANGED <<scopeVars, finished, used, sum, truncated, maxRepeat, statementVars, events, tx, drainVars>>
  BY DEF Saturate
<1>2. UNCHANGED <<limit, repeat, fate, group, eligible, shapes, draining, dpc, batch, delivered>>
  BY <1>1 DEF scopeVars, statementVars, drainVars
<1>3. TypeOK'
  BY <1>0, <1>1, <1>2 DEF TypeOK
<1>4. \A F : Count(F)' = Count(F)
  BY <1>2, CountSame
<1>5. BudgetIsExact'
  BY <1>0, <1>1, <1>2, <1>4, BudgetKept
<1>6. CountersMatchFates'
  BY <1>0, <1>1, <1>4 DEF CountersMatchFates
<1>7. SuspectedOnce' /\ BoundariesOnce'
  BY <1>1 DEF SuspectedOnce, BoundariesOnce
<1>8. EventsAccounted'
  BY <1>0, <1>1 DEF EventsAccounted
<1>9. Tracking' /\ Grouping' /\ IsFiniteSet(Begun)' /\ OneDrain'
  BY <1>0, <1>1, <1>2, GroupingKept DEF Tracking, pending, Begun, OneDrain
<1>10. QED
  BY <1>3, <1>5, <1>6, <1>7, <1>8, <1>9 DEF ScopeInv, SummaryIsTrue

(***************************************************************************)
(* Finish                                                                  *)
(***************************************************************************)

(* Every pending ticket becomes incomplete                                 *)
LEMMA CountFinish ==
    ASSUME fate' = [s \in Statements |-> IF s \in pending THEN "incomplete" ELSE fate[s]], NEW n, n = Cardinality(pending)
    PROVE  \A F : Count(F)' = Count(F) + (IF "incomplete" \in F THEN n ELSE 0) - (IF "open" \in F THEN n ELSE 0)
<1> SUFFICES ASSUME NEW F
             PROVE  Count(F)' = Count(F) + (IF "incomplete" \in F THEN n ELSE 0) - (IF "open" \in F THEN n ELSE 0)
  OBVIOUS
<1>1. PICK P, S, T, R : /\ P = pending /\ S = {s \in Statements : fate[s] \in F} /\ T = {s \in Statements : fate'[s] \in F}
                        /\ R = S \ P
  OBVIOUS
<1>2. IsFiniteSet(P) /\ IsFiniteSet(S) /\ IsFiniteSet(R) /\ IsFiniteSet(T)
  BY <1>1, StatementsAssumption, FS_Subset DEF pending
<1>3. Cardinality(P) = n /\ n \in Nat /\ Cardinality(S) \in Nat /\ Cardinality(R) \in Nat
  BY <1>1, <1>2, FS_CardinalityType
<1>4. \A s \in Statements : s \in P <=> fate[s] = "open"
  BY <1>1 DEF pending
<1>5. P \subseteq Statements /\ \A s \in Statements : fate'[s] = IF s \in P THEN "incomplete" ELSE fate[s]
  BY <1>1 DEF pending
<1>6. Cardinality(R \cup P) = Cardinality(R) + n
  <2>1. R \cap P = {}
    BY <1>1
  <2>2. Cardinality(R \cup P) = Cardinality(R) + Cardinality(P) - Cardinality(R \cap P)
    BY <1>2, FS_Union
  <2>3. Cardinality({}) = 0
    BY FS_EmptySet
  <2>4. Cardinality(R \cap P) = 0
    BY <2>1, <2>3
  <2>5. QED
    BY <1>3, <2>2, <2>4
<1>7. S = IF "open" \in F THEN R \cup P ELSE R
  BY <1>1, <1>4, <1>5
<1>8. T = IF "incomplete" \in F THEN R \cup P ELSE R
  BY <1>1, <1>4, <1>5
<1>9. Count(F) = Cardinality(S) /\ Count(F)' = Cardinality(T)
  BY <1>1 DEF Count
<1>10. QED
  BY <1>3, <1>6, <1>7, <1>8, <1>9

LEMMA FinishStep ==
    ASSUME ScopeInv, Finish, ~UNCHANGED vars
    PROVE  ScopeInv'
<1>0. /\ TypeOK /\ BudgetIsExact /\ CountersMatchFates /\ EventsAccounted /\ Tracking /\ Grouping
      /\ IsFiniteSet(Begun) /\ OneDrain
  BY DEF ScopeInv, SummaryIsTrue
<1>1. PICK n, u : /\ n = Cardinality(pending)
                  /\ u = IF repeat THEN Cardinality({s \in pending : eligible[s]}) ELSE 0
  OBVIOUS
<1>2. PICK over \in BOOLEAN :
          Record([Zero EXCEPT !["incomplete"] = n, !["inFlight"] = -n, !["shapeUnknown"] = u],
                 [i \in 1..n |-> Event("incomplete", "unknown")], FALSE, over)
  BY <1>1 DEF Finish
<1>3. /\ ~finished /\ finished' = TRUE
      /\ fate' = [s \in Statements |-> IF s \in pending THEN "incomplete" ELSE fate[s]]
      /\ shapes' = [k \in Shapes |-> NoGroup]
      /\ UNCHANGED <<scopeVars, used, maxRepeat, group, eligible, tx, drainVars>>
  BY DEF Finish
<1>4. n \in Nat /\ u \in Nat
  <2>1. PICK P, Q : P = pending /\ Q = {s \in pending : eligible[s]}
    OBVIOUS
  <2>2. P \subseteq Statements /\ Q \subseteq Statements
    BY <2>1 DEF pending
  <2>3. IsFiniteSet(P) /\ IsFiniteSet(Q)
    BY <2>2, StatementsAssumption, FS_Subset
  <2>4. Cardinality(P) \in Nat /\ Cardinality(Q) \in Nat
    BY <2>3, FS_CardinalityType
  <2>5. QED
    BY <1>1, <2>1, <2>4
<1>5. PICK inc : inc = [Zero EXCEPT !["incomplete"] = n, !["inFlight"] = -n, !["shapeUnknown"] = u]
  OBVIOUS
<1>6. /\ inc \in [Counters -> Int]
      /\ \A m \in Counters : inc[m] = IF m = "incomplete" THEN n ELSE IF m = "inFlight" THEN -n
                                      ELSE IF m = "shapeUnknown" THEN u ELSE 0
  <2>1. PICK z : z = Zero
    OBVIOUS
  <2>2. z \in [Counters -> Int] /\ \A m \in Counters : z[m] = 0
    BY <2>1 DEF Zero
  <2>3. inc = [z EXCEPT !["incomplete"] = n, !["inFlight"] = -n, !["shapeUnknown"] = u]
    BY <1>5, <2>1
  <2>4. -n \in Int /\ n \in Int /\ u \in Int
    BY <1>4
  <2>5. QED
    BY <2>2, <2>3, <2>4
<1>7. inc["dropped"] = 0 /\ inc["rejected"] = 0 /\ inc["preflight"] = 0 /\ inc["completed"] = 0 /\ inc["boundaries"] = 0
      /\ inc["incomplete"] = n /\ inc["inFlight"] = -n
  BY <1>6 DEF Counters
<1>8. \A m \in Counters : 0 <= sum[m] + inc[m]
  <2>1. sum["inFlight"] = n
    BY <1>0, <1>1, PendingCount DEF CountersMatchFates
  <2>2. sum \in [Counters -> 0..MaxNumber]
    BY <1>0, Zenon DEF TypeOK
  <2>3. \A m \in Counters : sum[m] \in Nat
    BY <2>2, ScopeAssumption
  <2>4. sum["inFlight"] + inc["inFlight"] = 0
    BY <1>4, <1>7, <2>1
  <2>5. \A m \in Counters : m # "inFlight" => inc[m] \in Nat
    BY <1>4, <1>6
  <2>6. QED
    BY <2>3, <2>4, <2>5
<1>9. PICK es : es = [i \in 1..n |-> Event("incomplete", "unknown")]
  OBVIOUS
<1>10. es \in Seq(Events) /\ Len(es) = n
  <2>1. Event("incomplete", "unknown") \in Events
    BY DEF Event, Events, Fates, Sent, Ticketed
  <2>2. QED
    BY <1>4, <1>9, <2>1
<1>11. Recorded(inc, n)
  BY <1>0, <1>2, <1>5, <1>6, <1>7, <1>8, <1>9, <1>10, RecordFacts
<1>12. \A F : Count(F)' = Count(F) + (IF "incomplete" \in F THEN n ELSE 0) - (IF "open" \in F THEN n ELSE 0)
  BY <1>1, <1>3, CountFinish
<1>13. \A m \in Names : Count(Named(m))' = Count(Named(m)) + inc[m]
  <2>1. \A m \in Names : "open" \in Named(m) <=> m \in {"attempted", "dispatched", "inFlight"}
    BY EachName, SMTT(30) DEF Ticketed, Outcomes
  <2>2. \A m \in Names : "incomplete" \in Named(m) <=> m \in {"attempted", "dispatched", "incomplete"}
    BY EachName, SMTT(30) DEF Ticketed, Outcomes
  <2>3. ASSUME NEW m \in Names PROVE Count(Named(m))' = Count(Named(m)) + inc[m]
    <3>1. PICK F : F = Named(m)
      OBVIOUS
    <3>2. Count(F)' = Count(F) + (IF "incomplete" \in F THEN n ELSE 0) - (IF "open" \in F THEN n ELSE 0)
      BY <1>12
    <3>3. m \in Counters /\ m # "shapeUnknown"
      BY DEF Names, Counters
    <3>4. inc[m] = (IF "incomplete" \in F THEN n ELSE 0) - (IF "open" \in F THEN n ELSE 0)
      BY <1>4, <1>6, <2>1, <2>2, <3>1, <3>3
    <3>5. Count(F) \in Nat
      BY CountNat
    <3>6. Count(F)' = Count(F) + inc[m]
      BY <1>4, <3>2, <3>4, <3>5
    <3>7. Count(F)' = Count(Named(m))' /\ Count(F) = Count(Named(m))
      BY <3>1
    <3>8. QED
      BY <3>6, <3>7
  <2>4. QED
    BY <2>3
<1>14. pending' = {} /\ Cardinality(pending') <= MaxTracking
  <2>1. pending' = {}
    BY <1>3 DEF pending
  <2>2. QED
    BY <2>1, FS_EmptySet, ScopeAssumption
<1>15. TypeOK'
  <2>1. fate' \in [Statements -> Fates]
    <3>1. fate \in [Statements -> Fates]
      BY <1>0, Zenon DEF TypeOK
    <3>2. "incomplete" \in Fates
      BY DEF Fates, Sent, Ticketed
    <3>3. QED
      BY <1>3, <3>1, <3>2
  <2>2. QED
    BY <1>0, <1>3, <1>11, <2>1 DEF TypeOK, Recorded, scopeVars, drainVars
<1>16. BudgetIsExact'
  <2>1. "incomplete" \in Sent /\ "open" \in Sent /\ "incomplete" \notin {"refused", "barred"} /\ "open" \notin {"refused", "barred"}
    BY DEF Sent, Ticketed
  <2>2. Count(Sent) \in Nat /\ Count({"refused", "barred"}) \in Nat
    BY CountNat
  <2>3. Count(Sent)' = Count(Sent) + n - n /\ Count({"refused", "barred"})' = Count({"refused", "barred"}) + 0 - 0
    BY <1>12, <2>1
  <2>4. Count(Sent)' = Count(Sent) /\ Count({"refused", "barred"})' = Count({"refused", "barred"})
    BY <1>4, <2>2, <2>3
  <2>5. QED
    BY <1>0, <1>3, <2>4, BudgetKept DEF scopeVars
<1>17. CountersMatchFates'
  BY <1>0, <1>6, <1>11, <1>13, <1>14, CountersMove
<1>18. EventsAccounted'
  <2>1. inc["rejected"] + inc["preflight"] + inc["completed"] + inc["incomplete"] + inc["boundaries"] = n
    BY <1>4, <1>7
  <2>2. QED
    BY <1>0, <1>3, <1>6, <1>11, <2>1, EventsMove
<1>19. Grouping'
  <2>1. Groups' = {}
    BY <1>3 DEF Groups
  <2>2. QED
    BY <1>0, <1>3, <2>1, FS_EmptySet DEF Grouping, scopeVars
<1>20. SuspectedOnce' /\ BoundariesOnce' /\ Tracking' /\ IsFiniteSet(Begun)' /\ OneDrain'
  BY <1>0, <1>3, <1>14 DEF SuspectedOnce, BoundariesOnce, Tracking, Begun, OneDrain, drainVars
<1>21. QED
  BY <1>15, <1>16, <1>17, <1>18, <1>19, <1>20 DEF ScopeInv, SummaryIsTrue

(***************************************************************************)
(* What is counted beside the statements, and the drains                   *)
(***************************************************************************)

LEMMA AsideStep ==
    ASSUME ScopeInv, ~finished, NEW c \in {"preflight", "boundaries"}, NEW X \in SUBSET {"txErrors"},
           NEW inc, inc = Ones({c} \cup X), NEW es \in Seq(Events), Len(es) = 1, Record(inc, es, FALSE, FALSE),
           UNCHANGED <<scopeVars, finished, used, maxRepeat, statementVars, drainVars>>,
           tx' \in [Transactions -> {"none", "open", "failed", "ended"}], IsFiniteSet(Begun'),
           ~saturated /\ ~saturated' /\ sum'["boundaries"] = sum["boundaries"] + (IF c = "boundaries" THEN 1 ELSE 0)
             => BoundariesOnce'
    PROVE  ScopeInv'
<1>0. /\ TypeOK /\ BudgetIsExact /\ CountersMatchFates /\ SuspectedOnce /\ BoundariesOnce /\ EventsAccounted
      /\ Tracking /\ Grouping /\ IsFiniteSet(Begun) /\ OneDrain
  BY DEF ScopeInv, SummaryIsTrue
<1>1. UNCHANGED <<limit, repeat, fate, group, eligible, shapes, draining, dpc, batch, delivered>>
  BY DEF scopeVars, statementVars, drainVars
<1>2. /\ inc \in [Counters -> Int] /\ inc["dropped"] = 0
      /\ \A m \in Counters : inc[m] = (IF m \in {c} \cup X THEN 1 ELSE 0) /\ 0 <= sum[m] + inc[m]
  <2>1. {c} \cup X \in SUBSET (Counters \ {"dropped"})
    BY DEF Counters
  <2>2. QED
    BY <1>0, <2>1, OnesFacts
<1>3. Recorded(inc, 1)
  BY <1>0, <1>2, RecordFacts
<1>4. \A m \in Names : inc[m] = 0
  BY <1>2, ZenonT(120) DEF Names, Counters
<1>5. inc["suspected"] = 0 /\ inc["boundaries"] = (IF c = "boundaries" THEN 1 ELSE 0)
      /\ inc["rejected"] = 0 /\ inc["completed"] = 0 /\ inc["incomplete"] = 0
      /\ inc["preflight"] = (IF c = "preflight" THEN 1 ELSE 0)
  BY <1>2, ZenonT(120) DEF Counters
<1>6. \A F : Count(F)' = Count(F)
  BY <1>1, CountSame
<1>7. TypeOK'
  BY <1>0, <1>1, <1>3 DEF TypeOK, Recorded
<1>8. Tracking' /\ Grouping' /\ OneDrain' /\ IsFiniteSet(Begun)'
  BY <1>0, <1>1, GroupingKept DEF Tracking, pending, OneDrain
<1>9. CountersMatchFates'
  <2>1. ASSUME NEW m \in Names PROVE Count(Named(m))' = Count(Named(m)) + inc[m]
    <3>1. Count(Named(m)) \in Nat
      BY CountNat
    <3>2. PICK F : F = Named(m)
      OBVIOUS
    <3>3. Count(F)' = Count(F)
      BY <1>6
    <3>4. Count(F)' = Count(Named(m))' /\ Count(F) = Count(Named(m))
      BY <3>2
    <3>5. inc[m] = 0
      BY <1>4
    <3>6. Count(Named(m))' = Count(Named(m))
      BY <3>3, <3>4
    <3>7. QED
      BY <3>1, <3>5, <3>6
  <2>2. QED
    BY <1>0, <1>2, <1>3, <1>8, <2>1, CountersMove DEF Tracking
<1>10. BudgetIsExact'
  BY <1>0, <1>1, <1>6, BudgetKept
<1>11. EventsAccounted'
  <2>1. inc["rejected"] + inc["preflight"] + inc["completed"] + inc["incomplete"] + inc["boundaries"] = 1
    BY <1>5
  <2>2. QED
    BY <1>0, <1>2, <1>3, <2>1, EventsMove
<1>12. /\ ~saturated' => ~saturated /\ sum'["suspected"] = sum["suspected"]
       /\ ~saturated' => sum'["boundaries"] = sum["boundaries"] + (IF c = "boundaries" THEN 1 ELSE 0)
  <2>1. {"suspected", "boundaries"} \subseteq Counters \ {"dropped"}
    BY DEF Counters
  <2>2. ~saturated' => ~saturated /\ \A m \in Counters \ {"dropped"} : sum'[m] = sum[m] + inc[m]
    BY <1>3 DEF Recorded
  <2>3. sum["suspected"] \in Int
    <3>1. sum \in [Counters -> 0..MaxNumber]
      BY <1>0, Zenon DEF TypeOK
    <3>2. QED
      BY <2>1, <3>1, ScopeAssumption
  <2>4. ~saturated' => ~saturated /\ sum'["suspected"] = sum["suspected"] + inc["suspected"]
                       /\ sum'["boundaries"] = sum["boundaries"] + inc["boundaries"]
    BY <2>1, <2>2
  <2>5. inc["suspected"] = 0 /\ inc["boundaries"] = (IF c = "boundaries" THEN 1 ELSE 0)
    BY <1>5
  <2>6. QED
    BY <2>3, <2>4, <2>5
<1>13. SuspectedOnce'
  BY <1>0, <1>1, <1>12, SuspicionKept
<1>14. BoundariesOnce'
  <2>1. CASE saturated'
    BY <2>1 DEF BoundariesOnce
  <2>2. CASE ~saturated'
    BY <1>12, <2>2
  <2>3. QED
    BY <2>1, <2>2
<1>15. QED
  BY <1>7, <1>8, <1>9, <1>10, <1>11, <1>13, <1>14 DEF ScopeInv, SummaryIsTrue

LEMMA RejectStep ==
    ASSUME ScopeInv, Reject, ~UNCHANGED vars
    PROVE  ScopeInv'
<1>0. TypeOK /\ BoundariesOnce /\ IsFiniteSet(Begun)
  BY DEF ScopeInv, SummaryIsTrue
<1>1. /\ ~finished /\ Record(Ones({"preflight"}), <<Event("rejected", "unknown")>>, FALSE, FALSE)
      /\ UNCHANGED <<scopeVars, finished, used, maxRepeat, statementVars, tx, drainVars>>
  BY DEF Reject
<1>2. PICK X, es : X = {} /\ es = <<Event("rejected", "unknown")>>
  OBVIOUS
<1>3. es \in Seq(Events) /\ Len(es) = 1
  BY <1>2, OneEvent
<1>4. {"preflight"} = {"preflight"} \cup X /\ X \in SUBSET {"txErrors"}
  BY <1>2
<1>5. PICK inc : inc = Ones({"preflight"} \cup X)
  OBVIOUS
<1>6. Record(inc, es, FALSE, FALSE)
  BY <1>1, <1>2, <1>4, <1>5
<1>7. tx' = tx /\ tx' \in [Transactions -> {"none", "open", "failed", "ended"}] /\ IsFiniteSet(Begun')
  BY <1>0, <1>1 DEF TypeOK, Begun
<1>8. ~saturated /\ ~saturated' /\ sum'["boundaries"] = sum["boundaries"] + (IF "preflight" = "boundaries" THEN 1 ELSE 0)
        => BoundariesOnce'
  <2>1. "boundaries" \in Counters
    BY DEF Counters
  <2>2. sum["boundaries"] \in Int
    <3>1. sum \in [Counters -> 0..MaxNumber]
      BY <1>0, Zenon DEF TypeOK
    <3>2. QED
      BY <2>1, <3>1, ScopeAssumption
  <2>3. QED
    BY <1>0, <1>1, <1>7, <2>2 DEF BoundariesOnce
<1>9. QED
  BY <1>1, <1>3, <1>4, <1>5, <1>6, <1>7, <1>8, AsideStep

(* A boundary is one more transaction begun, or one more ended             *)
LEMMA BoundaryStep ==
    ASSUME ScopeInv, NEW x \in Transactions, NEW ok \in BOOLEAN, NEW pc \in {"open", "failed", "ended"},
           tx' = [tx EXCEPT ![x] = pc], (tx[x] = "none" /\ pc # "ended") \/ (tx[x] = "open" /\ pc = "ended"), Boundary(ok),
           UNCHANGED <<scopeVars, finished, used, statementVars, drainVars>>
    PROVE  ScopeInv'
<1>0. /\ TypeOK /\ BudgetIsExact /\ CountersMatchFates /\ SuspectedOnce /\ BoundariesOnce /\ EventsAccounted
      /\ Tracking /\ Grouping /\ IsFiniteSet(Begun) /\ OneDrain
  BY DEF ScopeInv, SummaryIsTrue
<1>1. tx \in [Transactions -> {"none", "open", "failed", "ended"}]
  BY <1>0, Zenon DEF TypeOK
<1>2. \A y \in Transactions : tx'[y] = IF y = x THEN pc ELSE tx[y]
  BY <1>1
<1>3. tx' \in [Transactions -> {"none", "open", "failed", "ended"}]
  BY <1>1
<1>4. PICK b, e, bb, ee : b = Begun /\ e = Ended /\ bb = Begun' /\ ee = Ended'
  OBVIOUS
<1>5. IsFiniteSet(b) /\ IsFiniteSet(e)
  <2>1. e \subseteq b
    BY <1>4 DEF Begun, Ended
  <2>2. QED
    BY <1>0, <1>4, <2>1, FS_Subset
<1>6. /\ IsFiniteSet(bb) /\ Cardinality(bb) + Cardinality(ee) = Cardinality(b) + Cardinality(e) + 1
      /\ Cardinality(b) + Cardinality(e) \in Nat
  <2>1. Cardinality(b) \in Nat /\ Cardinality(e) \in Nat
    BY <1>5, FS_CardinalityType
  <2>2. CASE tx[x] = "none" /\ pc # "ended"
    <3>1. bb = b \cup {x} /\ x \notin b /\ ee = e
      BY <1>2, <1>4, <2>2 DEF Begun, Ended
    <3>2. IsFiniteSet(b \cup {x}) /\ Cardinality(b \cup {x}) = IF x \in b THEN Cardinality(b) ELSE Cardinality(b) + 1
      BY <1>5, FS_AddElement, Zenon
    <3>3. QED
      BY <2>1, <3>1, <3>2
  <2>3. CASE tx[x] = "open" /\ pc = "ended"
    <3>1. ee = e \cup {x} /\ x \notin e /\ bb = b
      BY <1>2, <1>4, <2>3 DEF Begun, Ended
    <3>2. Cardinality(e \cup {x}) = IF x \in e THEN Cardinality(e) ELSE Cardinality(e) + 1
      BY <1>5, FS_AddElement, Zenon
    <3>3. QED
      BY <1>5, <2>1, <3>1, <3>2
  <2>4. QED
    BY <2>2, <2>3
<1>7. CASE finished
  <2>1. /\ UNCHANGED <<sum, saturated, truncated, maxRepeat, events, finished, used>>
        /\ UNCHANGED <<limit, repeat, fate, group, eligible, shapes, draining, dpc, batch, delivered>>
    BY <1>7 DEF Boundary, summaryVars, scopeVars, statementVars, drainVars
  <2>2. TypeOK'
    BY <1>0, <1>3, <2>1 DEF TypeOK
  <2>3. BudgetIsExact' /\ CountersMatchFates'
    <3>1. \A F : Count(F)' = Count(F)
      BY <2>1, CountSame
    <3>2. QED
      BY <1>0, <2>1, <3>1, BudgetKept, CountersKept
  <2>4. SuspectedOnce' /\ BoundariesOnce'
    BY <1>7, <2>1 DEF SuspectedOnce, BoundariesOnce
  <2>5. EventsAccounted'
    BY <1>0, <2>1, EventsKept DEF drainVars
  <2>6. Tracking' /\ Grouping' /\ OneDrain' /\ IsFiniteSet(Begun)'
    BY <1>0, <1>4, <1>6, <2>1, GroupingKept DEF Tracking, pending, OneDrain
  <2>7. QED
    BY <2>2, <2>3, <2>4, <2>5, <2>6 DEF ScopeInv, SummaryIsTrue
<1>8. CASE ~finished
  <2>1. PICK X, es : /\ X = (IF ok THEN {} ELSE {"txErrors"})
                     /\ es = <<IF ok THEN Event("success", "none") ELSE Event("error", "failure")>>
    OBVIOUS
  <2>2. PICK inc : inc = Ones({"boundaries"} \cup X)
    OBVIOUS
  <2>3. Record(inc, es, FALSE, FALSE) /\ UNCHANGED maxRepeat
    BY <1>8, <2>1, <2>2 DEF Boundary
  <2>4. X \in SUBSET {"txErrors"}
    BY <2>1
  <2>5. es \in Seq(Events) /\ Len(es) = 1
    <3>1. "success" \in Fates /\ "error" \in Fates
      BY DEF Fates, Sent, Ticketed, Outcomes
    <3>2. QED
      BY <2>1, <3>1, OneEvent
  <2>6. ASSUME ~saturated, ~saturated', sum'["boundaries"] = sum["boundaries"] + 1
        PROVE  BoundariesOnce'
    <3>1. sum["boundaries"] = Cardinality(b) + Cardinality(e)
      BY <1>0, <1>4, <1>8, <2>6 DEF BoundariesOnce, Begun, Ended
    <3>2. sum'["boundaries"] = Cardinality(bb) + Cardinality(ee)
      BY <1>6, <2>6, <3>1
    <3>3. QED
      BY <1>4, <3>2 DEF BoundariesOnce, Begun, Ended
  <2>7. UNCHANGED <<scopeVars, finished, used, maxRepeat, statementVars, drainVars>> /\ IsFiniteSet(Begun')
    BY <1>4, <1>6, <2>3
  <2>8. QED
    BY <1>3, <1>8, <2>2, <2>3, <2>4, <2>5, <2>6, <2>7, AsideStep
<1>9. QED
  BY <1>7, <1>8

LEMMA TxStep ==
    ASSUME ScopeInv, NEW x \in Transactions, NEW ok \in BOOLEAN, TxBegin(x, ok) \/ TxEnd(x, ok), ~UNCHANGED vars
    PROVE  ScopeInv'
<1>1. CASE TxBegin(x, ok)
  <2>1. PICK pc \in {"open", "failed"} : pc = IF ok THEN "open" ELSE "failed"
    OBVIOUS
  <2>2. /\ tx[x] = "none" /\ tx' = [tx EXCEPT ![x] = pc] /\ Boundary(ok) /\ pc # "ended"
        /\ UNCHANGED <<scopeVars, finished, used, statementVars, drainVars>>
    BY <1>1, <2>1 DEF TxBegin
  <2>3. (tx[x] = "none" /\ pc # "ended") \/ (tx[x] = "open" /\ pc = "ended")
    BY <2>2
  <2>4. pc \in {"open", "failed", "ended"}
    OBVIOUS
  <2>5. QED
    BY <2>2, <2>3, <2>4, BoundaryStep
<1>2. CASE TxEnd(x, ok)
  <2>1. /\ tx[x] = "open" /\ tx' = [tx EXCEPT ![x] = "ended"] /\ Boundary(ok)
        /\ UNCHANGED <<scopeVars, finished, used, statementVars, drainVars>>
    BY <1>2 DEF TxEnd
  <2>2. QED
    BY <2>1, BoundaryStep
<1>3. QED
  BY <1>1, <1>2

(* A step of a drain touches the queue, its batch and what is delivered    *)
LEMMA DrainFrame ==
    ASSUME ScopeInv, UNCHANGED <<scopeVars, finished, used, summaryVars, statementVars, tx>>,
           events' \in Seq(Events), Len(events') <= MaxEvents, draining' \in BOOLEAN,
           dpc' \in [Drainers -> {"out", "take", "deliver"}], batch' \in [Drainers -> Seq(Events)], delivered' \in Nat,
           OneDrain', EventsAccounted'
    PROVE  ScopeInv'
<1>0. /\ TypeOK /\ BudgetIsExact /\ CountersMatchFates /\ SuspectedOnce /\ BoundariesOnce
      /\ Tracking /\ Grouping /\ IsFiniteSet(Begun)
  BY DEF ScopeInv, SummaryIsTrue
<1>1. UNCHANGED <<limit, repeat, fate, group, eligible, shapes, sum, saturated, truncated, maxRepeat, finished, used, tx>>
  BY DEF scopeVars, statementVars, summaryVars
<1>2. TypeOK'
  BY <1>0, <1>1 DEF TypeOK
<1>3. BudgetIsExact' /\ CountersMatchFates'
  <2>1. \A F : Count(F)' = Count(F)
    BY <1>1, CountSame
  <2>2. QED
    BY <1>0, <1>1, <2>1, BudgetKept, CountersKept
<1>4. SuspectedOnce'
  BY <1>0, <1>1, SuspicionKept
<1>5. BoundariesOnce' /\ Tracking' /\ Grouping' /\ IsFiniteSet(Begun)'
  BY <1>0, <1>1, BoundariesKept, GroupingKept DEF Tracking, pending, Begun
<1>6. QED
  BY <1>2, <1>3, <1>4, <1>5 DEF ScopeInv, SummaryIsTrue

LEMMA DrainStartStep ==
    ASSUME ScopeInv, NEW d \in Drainers, DrainStart(d), ~UNCHANGED vars
    PROVE  ScopeInv'
<1>0. TypeOK /\ OneDrain /\ EventsAccounted
  BY DEF ScopeInv, SummaryIsTrue
<1>1. /\ ~draining /\ draining' = TRUE /\ dpc' = [dpc EXCEPT ![d] = "take"]
      /\ UNCHANGED <<scopeVars, finished, used, summaryVars, statementVars, events, tx, batch, delivered>>
  BY DEF DrainStart
<1>2. /\ dpc \in [Drainers -> {"out", "take", "deliver"}] /\ batch \in [Drainers -> Seq(Events)] /\ delivered \in Nat
      /\ events \in Seq(Events) /\ Len(events) <= MaxEvents
  BY <1>0, Zenon DEF TypeOK
<1>3. \A e \in Drainers : dpc[e] = "out" /\ dpc'[e] = IF e = d THEN "take" ELSE "out"
  BY <1>0, <1>1, <1>2 DEF OneDrain
<1>4. OneDrain' /\ dpc' \in [Drainers -> {"out", "take", "deliver"}]
  BY <1>1, <1>2, <1>3 DEF OneDrain
<1>5. EventsAccounted'
  <2>1. Reported' = Reported /\ sum' = sum /\ saturated' = saturated /\ truncated' = truncated
    BY <1>1 DEF Reported, summaryVars
  <2>2. \A e \in Drainers : dpc[e] # "deliver" /\ dpc'[e] # "deliver"
    BY <1>3
  <2>3. QED
    BY <1>0, <1>1, <2>1, <2>2 DEF EventsAccounted
<1>6. QED
  BY <1>1, <1>2, <1>4, <1>5, DrainFrame

LEMMA DrainTakeStep ==
    ASSUME ScopeInv, NEW d \in Drainers, DrainTake(d)
    PROVE  ScopeInv'
<1>0. TypeOK /\ OneDrain /\ EventsAccounted
  BY DEF ScopeInv, SummaryIsTrue
<1>1. /\ dpc[d] = "take" /\ batch' = [batch EXCEPT ![d] = events] /\ events' = <<>>
      /\ dpc' = [dpc EXCEPT ![d] = "deliver"]
      /\ UNCHANGED <<scopeVars, finished, used, summaryVars, statementVars, tx, draining, delivered>>
  BY DEF DrainTake
<1>2. /\ dpc \in [Drainers -> {"out", "take", "deliver"}] /\ batch \in [Drainers -> Seq(Events)] /\ delivered \in Nat
      /\ events \in Seq(Events) /\ draining \in BOOLEAN
  BY <1>0, Zenon DEF TypeOK
<1>3. \A e \in Drainers : dpc[e] # "deliver" /\ (dpc'[e] = "deliver" => e = d)
  <2>1. \A e \in Drainers : e # d => dpc[e] = "out" /\ dpc'[e] = "out"
    BY <1>0, <1>1, <1>2 DEF OneDrain
  <2>2. QED
    BY <1>1, <2>1
<1>4. OneDrain' /\ dpc' \in [Drainers -> {"out", "take", "deliver"}]
  <2>1. dpc' \in [Drainers -> {"out", "take", "deliver"}] /\ \A e \in Drainers : dpc'[e] # "out" <=> dpc[e] # "out"
    BY <1>1, <1>2
  <2>2. QED
    BY <1>0, <1>1, <2>1 DEF OneDrain
<1>5. /\ batch' \in [Drainers -> Seq(Events)] /\ batch'[d] = events /\ events' \in Seq(Events)
      /\ Len(events') = 0 /\ Len(events') <= MaxEvents
  BY <1>1, <1>2, ScopeAssumption
<1>6. EventsAccounted'
  <2>1. Reported' = Reported /\ sum' = sum /\ saturated' = saturated /\ truncated' = truncated /\ delivered' = delivered
    BY <1>1 DEF Reported, summaryVars
  <2>2. ~saturated => Reported = Len(events) + delivered + sum["dropped"]
    BY <1>0, <1>3 DEF EventsAccounted
  <2>3. PICK r : r = sum["dropped"]
    OBVIOUS
  <2>4. r \in Int /\ Len(events) \in Nat
    <3>1. sum \in [Counters -> 0..MaxNumber] /\ "dropped" \in Counters
      BY <1>0, Zenon DEF TypeOK, Counters
    <3>2. QED
      BY <1>2, <2>3, <3>1, ScopeAssumption, LenProperties
  <2>5. ~saturated => Reported = 0 + Len(events) + delivered + r
    BY <1>2, <2>2, <2>3, <2>4
  <2>6. dpc'[d] = "deliver"
    BY <1>1, <1>2
  <2>7. QED
    BY <1>0, <1>3, <1>5, <2>1, <2>3, <2>5, <2>6 DEF EventsAccounted
<1>7. QED
  BY <1>1, <1>2, <1>4, <1>5, <1>6, DrainFrame

LEMMA DeliverStep ==
    ASSUME ScopeInv, NEW d \in Drainers, Deliver(d)
    PROVE  ScopeInv'
<1>0. TypeOK /\ OneDrain /\ EventsAccounted
  BY DEF ScopeInv, SummaryIsTrue
<1>1. /\ dpc[d] = "deliver" /\ batch[d] # <<>> /\ batch' = [batch EXCEPT ![d] = Tail(batch[d])]
      /\ delivered' = delivered + 1
      /\ UNCHANGED <<scopeVars, finished, used, summaryVars, statementVars, events, tx, draining, dpc>>
  BY DEF Deliver
<1>2. /\ dpc \in [Drainers -> {"out", "take", "deliver"}] /\ batch \in [Drainers -> Seq(Events)] /\ delivered \in Nat
      /\ events \in Seq(Events) /\ Len(events) <= MaxEvents /\ draining \in BOOLEAN
  BY <1>0, Zenon DEF TypeOK
<1>3. PICK s : s = batch[d]
  OBVIOUS
<1>4. Tail(s) \in Seq(Events) /\ Len(Tail(s)) = Len(s) - 1 /\ Len(s) \in Nat
  <2>1. s \in Seq(Events) /\ s # <<>>
    BY <1>1, <1>2, <1>3
  <2>2. QED
    BY <2>1, HeadTailProperties, LenProperties
<1>5. batch' \in [Drainers -> Seq(Events)] /\ batch'[d] = Tail(s)
  BY <1>1, <1>2, <1>3, <1>4
<1>6. OneDrain' /\ dpc' = dpc
  BY <1>0, <1>1 DEF OneDrain
<1>7. EventsAccounted'
  <2>1. Reported' = Reported /\ sum' = sum /\ saturated' = saturated /\ truncated' = truncated /\ events' = events
    BY <1>1 DEF Reported, summaryVars
  <2>2. ~saturated => Reported = Len(events) + Len(s) + delivered + sum["dropped"]
    BY <1>0, <1>1, <1>3 DEF EventsAccounted
  <2>3. PICK r : r = sum["dropped"]
    OBVIOUS
  <2>4. r \in Int /\ Len(events) \in Nat
    <3>1. sum \in [Counters -> 0..MaxNumber] /\ "dropped" \in Counters
      BY <1>0, Zenon DEF TypeOK, Counters
    <3>2. QED
      BY <1>2, <2>3, <3>1, ScopeAssumption, LenProperties
  <2>5. ~saturated => Reported = Len(events) + Len(Tail(s)) + (delivered + 1) + r
    BY <1>2, <1>4, <2>2, <2>3, <2>4
  <2>6. \A e \in Drainers : dpc[e] = "deliver" => e = d
    BY <1>0, <1>1 DEF OneDrain
  <2>7. QED
    BY <1>0, <1>1, <1>5, <1>6, <2>1, <2>3, <2>5, <2>6 DEF EventsAccounted
<1>8. QED
  BY <1>1, <1>2, <1>5, <1>6, <1>7, DrainFrame

LEMMA DrainEndStep ==
    ASSUME ScopeInv, NEW d \in Drainers, DrainEnd(d)
    PROVE  ScopeInv'
<1>0. TypeOK /\ OneDrain /\ EventsAccounted
  BY DEF ScopeInv, SummaryIsTrue
<1>1. /\ dpc[d] = "deliver" /\ batch[d] = <<>> /\ draining' = FALSE /\ dpc' = [dpc EXCEPT ![d] = "out"]
      /\ UNCHANGED <<scopeVars, finished, used, summaryVars, statementVars, events, tx, batch, delivered>>
  BY DEF DrainEnd
<1>2. /\ dpc \in [Drainers -> {"out", "take", "deliver"}] /\ batch \in [Drainers -> Seq(Events)] /\ delivered \in Nat
      /\ events \in Seq(Events) /\ Len(events) <= MaxEvents
  BY <1>0, Zenon DEF TypeOK
<1>3. \A e \in Drainers : dpc'[e] = "out"
  BY <1>0, <1>1, <1>2 DEF OneDrain
<1>4. OneDrain' /\ dpc' \in [Drainers -> {"out", "take", "deliver"}]
  BY <1>1, <1>2, <1>3 DEF OneDrain
<1>5. EventsAccounted'
  <2>1. Reported' = Reported /\ sum' = sum /\ saturated' = saturated /\ truncated' = truncated /\ events' = events
    BY <1>1 DEF Reported, summaryVars
  <2>2. ~saturated => Reported = Len(events) + Len(batch[d]) + delivered + sum["dropped"]
    BY <1>0, <1>1 DEF EventsAccounted
  <2>3. PICK r, l : r = sum["dropped"] /\ l = Len(events)
    OBVIOUS
  <2>4. r \in Int /\ l \in Nat
    <3>1. sum \in [Counters -> 0..MaxNumber] /\ "dropped" \in Counters
      BY <1>0, Zenon DEF TypeOK, Counters
    <3>2. QED
      BY <1>2, <2>3, <3>1, ScopeAssumption, LenProperties
  <2>5. Len(batch[d]) = 0
    BY <1>1
  <2>6. ~saturated => Reported = l + delivered + r
    BY <1>2, <2>2, <2>3, <2>4, <2>5
  <2>7. QED
    BY <1>0, <1>1, <1>3, <2>1, <2>3, <2>6 DEF EventsAccounted
<1>6. QED
  BY <1>1, <1>2, <1>4, <1>5, DrainFrame

(***************************************************************************)
(* The theorems                                                            *)
(***************************************************************************)

LEMMA ScopeInitOK == Init => ScopeInv
<1> SUFFICES ASSUME Init PROVE ScopeInv
  OBVIOUS
<1>1. TypeOK
  <2>1. sum \in [Counters -> 0..MaxNumber] /\ fate \in [Statements -> Fates] /\ 0 \in 0..MaxNumber
    BY ScopeAssumption DEF Init, Zero, Fates
  <2>2. shapes \in [Shapes -> {NoGroup} \cup 0..MaxNumber]
    BY DEF Init
  <2>3. repeat \in BOOLEAN
    BY RepeatsAssumption DEF Init
  <2>4. events \in Seq(Events) /\ Len(events) <= MaxEvents
    BY ScopeAssumption DEF Init
  <2>5. QED
    BY <2>1, <2>2, <2>3, <2>4 DEF Init, TypeOK
<1>2. \A F : "new" \notin F => Count(F) = 0
  <2>1. ASSUME NEW F, "new" \notin F PROVE {s \in Statements : fate[s] \in F} = {}
    BY <2>1 DEF Init
  <2>2. QED
    BY <2>1, FS_EmptySet DEF Count
<1>3. BudgetIsExact
  <2>1. "new" \notin Sent /\ "new" \notin {"refused", "barred"}
    BY DEF Sent, Ticketed, Outcomes
  <2>2. Count(Sent) = 0 /\ Count({"refused", "barred"}) = 0 /\ used = 0
    BY <1>2, <2>1 DEF Init
  <2>3. limit # NoLimit => limit \in Nat
    BY LimitsAssumption DEF Init
  <2>4. QED
    BY <2>2, <2>3, ScopeAssumption DEF BudgetIsExact, Least
<1>4. CountersMatchFates
  <2>1. \A m \in Names : "new" \notin Named(m)
    BY EachName, SMTT(30) DEF Ticketed, Outcomes
  <2>2. \A m \in Names : sum[m] = 0
    BY DEF Init, Zero, Names, Counters
  <2>3. "inFlight" \in Names
    BY DEF Names
  <2>4. \A m \in Names : sum[m] = Count(Named(m))
    BY <1>2, <2>1, <2>2
  <2>5. QED
    BY <2>3, <2>4, Standing
<1>5. Groups = {} /\ pending = {} /\ Begun = {} /\ Ended = {}
  BY DEF Init, Groups, pending, Begun, Ended
<1>6. IsFiniteSet({}) /\ Cardinality({}) = 0
  BY FS_EmptySet
<1>7. sum["suspected"] = 0 /\ sum["boundaries"] = 0 /\ sum["dropped"] = 0 /\ sum["rejected"] = 0 /\ sum["preflight"] = 0
      /\ sum["completed"] = 0 /\ sum["incomplete"] = 0
  BY DEF Init, Zero, Counters
<1>8. SuspectedOnce
  <2>1. {k \in Groups : shapes[k] >= Suspect} = {}
    BY <1>5
  <2>2. QED
    BY <1>5, <1>6, <1>7, <2>1 DEF SuspectedOnce
<1>9. BoundariesOnce
  <2>1. Cardinality(Begun) = 0 /\ Cardinality(Ended) = 0
    BY <1>5, <1>6
  <2>2. sum["boundaries"] = Cardinality(Begun) + Cardinality(Ended)
    BY <1>7, <2>1
  <2>3. QED
    BY <2>2 DEF BoundariesOnce, Begun, Ended
<1>10. EventsAccounted
  <2>1. Reported = 0
    BY <1>7 DEF Reported
  <2>2. Len(events) = 0 /\ delivered = 0 /\ \A d \in Drainers : dpc[d] = "out"
    BY DEF Init
  <2>3. QED
    BY <1>7, <2>1, <2>2 DEF EventsAccounted
<1>11. Tracking
  BY <1>5, <1>6, ScopeAssumption DEF Tracking
<1>12. Grouping /\ IsFiniteSet(Begun) /\ OneDrain
  BY <1>5, <1>6 DEF Init, Grouping, OneDrain
<1>13. QED
  BY <1>1, <1>3, <1>4, <1>8, <1>9, <1>10, <1>11, <1>12 DEF ScopeInv, SummaryIsTrue

LEMMA ScopeStutter ==
    ASSUME ScopeInv, UNCHANGED vars
    PROVE  ScopeInv'
<1>0. TypeOK /\ OneDrain /\ EventsAccounted
  BY DEF ScopeInv, SummaryIsTrue
<1>1. /\ UNCHANGED <<scopeVars, finished, used, summaryVars, statementVars, tx>>
      /\ UNCHANGED <<sum, saturated, truncated, events, drainVars>> /\ UNCHANGED <<draining, dpc, batch, delivered>>
  BY DEF vars, summaryVars, drainVars
<1>2. EventsAccounted' /\ OneDrain'
  BY <1>0, <1>1, EventsKept DEF OneDrain
<1>3. /\ events' \in Seq(Events) /\ Len(events') <= MaxEvents /\ draining' \in BOOLEAN
      /\ dpc' \in [Drainers -> {"out", "take", "deliver"}] /\ batch' \in [Drainers -> Seq(Events)] /\ delivered' \in Nat
  BY <1>0, <1>1, Zenon DEF TypeOK
<1>4. QED
  BY <1>1, <1>2, <1>3, DrainFrame

LEMMA ScopeStep == ScopeInv /\ [Next]_vars => ScopeInv'
<1> SUFFICES ASSUME ScopeInv, Next, ~UNCHANGED vars PROVE ScopeInv'
  BY ScopeStutter
<1>1. CASE \E s \in Statements : Begin(s)
  <2>1. PICK s \in Statements : Begin(s)
    BY <1>1
  <2>2. CASE BeginRefused(s)
    BY <2>2, BeginRefusedStep
  <2>3. CASE BeginLate(s)
    BY <2>3, BeginLateStep
  <2>4. CASE \E e \in BOOLEAN : BeginUntracked(s, e)
    BY <2>4, BeginUntrackedStep
  <2>5. CASE \E e \in BOOLEAN, k \in Shapes \cup {NoShape}, long \in BOOLEAN : BeginTracked(s, e, k, long)
    BY <2>5, BeginTrackedStep
  <2>6. QED
    BY <2>1, <2>2, <2>3, <2>4, <2>5 DEF Begin
<1>2. CASE \E s \in Statements : Saturate(s)
  BY <1>2, SaturateStep
<1>3. CASE \E s \in Statements, o \in Outcomes : End(s, o)
  BY <1>3, EndStep
<1>4. CASE Finish
  BY <1>4, FinishStep
<1>5. CASE Reject
  BY <1>5, RejectStep
<1>6. CASE \E x \in Transactions, ok \in BOOLEAN : TxBegin(x, ok) \/ TxEnd(x, ok)
  BY <1>6, TxStep
<1>7. CASE \E d \in Drainers : DrainStart(d) \/ DrainTake(d) \/ Deliver(d) \/ DrainEnd(d)
  BY <1>7, DrainStartStep, DrainTakeStep, DeliverStep, DrainEndStep
<1>8. QED
  BY <1>1, <1>2, <1>3, <1>4, <1>5, <1>6, <1>7 DEF Next

(* State.mu serializes the methods of a scope: whatever their order, the    *)
(* invariant holds after each of them.                                      *)
THEOREM ScopeInvariant == Spec => []ScopeInv
BY ScopeInitOK, ScopeStep, PTL DEF Spec

(* Snapshot and Finish publish a summary that is true of the statements:    *)
(* the budget of Begin is exact, every counter equals the number of         *)
(* statements it names, one report per repeated shape, two boundaries at    *)
(* most per transaction.                                                    *)
THEOREM SummaryIsTrueHolds == Spec => []SummaryIsTrue
<1>1. ScopeInv => SummaryIsTrue
  BY DEF ScopeInv
<1>2. QED
  BY <1>1, ScopeInvariant, PTL

(* enqueue and Drain lose no event and deliver none twice: each is queued,  *)
(* with the drain that runs, delivered, or counted as dropped.              *)
THEOREM EventsAccountedHolds == Spec => []EventsAccounted
<1>1. ScopeInv => EventsAccounted
  BY DEF ScopeInv
<1>2. QED
  BY <1>1, ScopeInvariant, PTL

(* Finish freezes the scope: Begin, End, Reject and Tx test finished before *)
(* they record, so that what was published does not change.                 *)
THEOREM FrozenHolds == Spec => Frozen
<1>1. ScopeInv /\ [Next]_vars => [finished => UNCHANGED <<finished, summaryVars>> /\ Len(events') <= Len(events)]_vars
  <2> SUFFICES ASSUME ScopeInv, Next, finished
               PROVE  UNCHANGED <<finished, summaryVars>> /\ Len(events') <= Len(events)
    OBVIOUS
  <2>1. pending = {} /\ Len(events) \in Nat
    <3>1. Tracking /\ TypeOK
      BY DEF ScopeInv, SummaryIsTrue
    <3>2. events \in Seq(Events)
      BY <3>1, Zenon DEF TypeOK
    <3>3. QED
      BY <3>1, <3>2, LenProperties DEF Tracking
  <2>0. SUFFICES UNCHANGED <<finished, summaryVars>> /\ (events' = events \/ events' = <<>>)
    <3>1. events' = events => Len(events') <= Len(events)
      BY <2>1
    <3>2. events' = <<>> => Len(events') <= Len(events)
      BY <2>1
    <3>3. QED
      BY <3>1, <3>2
  <2>3. CASE UNCHANGED vars
    BY <2>3 DEF vars
  <2>4. CASE \E s \in Statements : Begin(s)
    <3>1. PICK s \in Statements : Begin(s)
      BY <2>4
    <3>2. CASE BeginRefused(s)
      BY <3>2 DEF BeginRefused
    <3>3. CASE BeginLate(s)
      BY <3>3 DEF BeginLate
    <3>4. CASE \E e \in BOOLEAN : BeginUntracked(s, e)
      BY <3>4, Zenon DEF BeginUntracked
    <3>5. CASE \E e \in BOOLEAN, k \in Shapes \cup {NoShape}, long \in BOOLEAN : BeginTracked(s, e, k, long)
      BY <3>5, ZenonT(60) DEF BeginTracked
    <3>6. QED
      BY <3>1, <3>2, <3>3, <3>4, <3>5 DEF Begin
  <2>5. CASE \E s \in Statements : Saturate(s) \/ \E o \in Outcomes : End(s, o)
    BY <2>1, <2>5 DEF Saturate, End, vars
  <2>6. CASE Finish
    BY <2>6 DEF Finish, vars
  <2>7. CASE Reject
    BY <2>7 DEF Reject, vars
  <2>8. CASE \E x \in Transactions, ok \in BOOLEAN : TxBegin(x, ok) \/ TxEnd(x, ok)
    BY <2>8 DEF TxBegin, TxEnd, Boundary, vars
  <2>9. CASE \E d \in Drainers : DrainStart(d) \/ DrainTake(d) \/ Deliver(d) \/ DrainEnd(d)
    BY <2>9 DEF DrainStart, DrainTake, Deliver, DrainEnd, vars
  <2>10. QED
    BY <2>4, <2>5, <2>6, <2>7, <2>8, <2>9 DEF Next
<1>2. QED
  BY <1>1, ScopeInvariant, PTL DEF Spec, Frozen

(***************************************************************************)
(* The reader of one statement's rows                                      *)
(***************************************************************************)

RowsTypeOK ==
    /\ result \in Results /\ set \in 1..Len(result) /\ row \in 0..result[set]
    /\ closed \in BOOLEAN /\ ended \in BOOLEAN /\ allSets \in BOOLEAN /\ skipped \in BOOLEAN /\ atEnd \in BOOLEAN
    /\ err \in Codes /\ code \in Codes /\ failures \subseteq Failures
    /\ consumed \in Nat /\ fed \in Nat /\ read \in [1..Len(result) -> Nat]

(* What an open reader knows: where it stands in the result, and whether it *)
(* left a set early or met a failure on the way                             *)
Reading ==
    /\ ~allSets /\ ends = 0 /\ final = NoEnd /\ consumed = fed
    /\ (failures # {} <=> code # "none") /\ (code # "none" => code \in failures)
    /\ read[set] = row /\ \A i \in 1..Len(result) : i > set => read[i] = 0
    /\ closed /\ err = "none" => row = result[set] /\ LastSet
    /\ code = "none" => /\ atEnd => row = result[set]
                        /\ ~skipped => \A i \in 1..Len(result) : i < set => read[i] = result[i]

RowsInv ==
    /\ RowsTypeOK
    /\ ~ended => Reading
    /\ ended => closed /\ ends = 1 /\ final # NoEnd
    /\ EndIsTruthful

LEMMA ResultFacts ==
    ASSUME RowsTypeOK
    PROVE  /\ Len(result) \in Nat /\ result \in [1..Len(result) -> Nat] /\ set \in 1..Len(result) /\ result[set] \in Nat
           /\ set \in Nat /\ row \in Nat /\ row <= result[set]
<1>1. result \in Seq(Nat) /\ set \in 1..Len(result) /\ row \in 0..result[set]
  BY ResultsAssumption DEF RowsTypeOK
<1>2. Len(result) \in Nat /\ result \in [1..Len(result) -> Nat]
  BY <1>1, LenProperties
<1>3. result[set] \in Nat /\ set \in Nat
  BY <1>1, <1>2
<1>4. QED
  BY <1>1, <1>2, <1>3

(* note keeps the first failure, of those shown before the end             *)
LEMMA NoteFacts ==
    ASSUME RowsInv, NEW f \in Codes, NEW g \in Codes, Note(f, g)
    PROVE  /\ code' \in Codes /\ failures' \subseteq Failures
           /\ ended => code' = code /\ failures' = failures
           /\ ~ended => /\ failures' # {} <=> code' # "none"
                        /\ code' # "none" => code' \in failures'
                        /\ code' = "none" => code = "none" /\ f = "none" /\ g = "none"
<1>1. code \in Codes /\ failures \subseteq Failures /\ Codes = {"none"} \cup Failures
  BY DEF RowsInv, RowsTypeOK, Codes
<1>2. f = "none" \/ f \in Failures
  BY DEF Codes
<1>3. g = "none" \/ g \in Failures
  BY DEF Codes
<1>4. CASE ended
  BY <1>1, <1>4 DEF Note
<1>5. CASE ~ended
  <2>1. failures' = failures \cup ({f, g} \ {"none"}) /\ code' = IF code # "none" THEN code ELSE IF f # "none" THEN f ELSE g
    BY <1>5 DEF Note
  <2>2. (failures # {} <=> code # "none") /\ (code # "none" => code \in failures)
    BY <1>5 DEF RowsInv, Reading
  <2>3. code' \in Codes /\ failures' \subseteq Failures
    BY <1>1, <1>2, <1>3, <2>1
  <2>4. CASE code # "none"
    BY <1>5, <2>1, <2>2, <2>3, <2>4
  <2>5. CASE code = "none" /\ f # "none"
    BY <1>5, <2>1, <2>2, <2>3, <2>5
  <2>6. CASE code = "none" /\ f = "none" /\ g # "none"
    BY <1>5, <2>1, <2>2, <2>3, <2>6
  <2>7. CASE code = "none" /\ f = "none" /\ g = "none"
    <3>1. failures' = {} /\ code' = "none"
      BY <2>1, <2>2, <2>7
    <3>2. QED
      BY <1>5, <2>3, <2>7, <3>1
  <2>8. QED
    BY <2>4, <2>5, <2>6, <2>7
<1>6. QED
  BY <1>4, <1>5

(* The first Close decides how the ticket ends                             *)
LEMMA Closing ==
    ASSUME RowsInv, ~ended, RowsTypeOK', NEW cerr \in Codes, NEW every \in BOOLEAN, CloseWith(cerr, err', every),
           closed' = TRUE, UNCHANGED <<consumed, fed>>, every /\ code' = "none" => read' = result'
    PROVE  RowsInv'
<1>1. Note(cerr, err') /\ ended' = TRUE /\ ends' = ends + 1 /\ ends = 0
  BY DEF CloseWith, RowsInv, Reading
<1>2. /\ failures' # {} <=> code' # "none"
      /\ code' # "none" => code' \in failures'
      /\ code' = "none" => err' = "none"
  <2>1. err' \in Codes
    BY DEF RowsTypeOK
  <2>2. PICK e : e = err'
    OBVIOUS
  <2>3. e \in Codes /\ Note(cerr, e)
    BY <1>1, <2>1, <2>2 DEF Note
  <2>4. QED
    BY <2>2, <2>3, NoteFacts
<1>3. PICK full \in BOOLEAN : full = (every /\ code' = "none")
  OBVIOUS
<1>4. PICK o : o = (IF full THEN "success" ELSE IF code' # "none" THEN "error" ELSE "partial")
  OBVIOUS
<1>5. final' = [outcome |-> o, code |-> code', known |-> full, returned |-> IF full THEN consumed ELSE 0]
  <2>1. o = CASE full -> "success" [] code' # "none" -> "error" [] OTHER -> "partial"
    BY <1>3, <1>4
  <2>2. final' = LET b == every /\ code' = "none"
                 IN [outcome |-> CASE b -> "success" [] code' # "none" -> "error" [] OTHER -> "partial",
                     code |-> code', known |-> b, returned |-> IF b THEN consumed ELSE 0]
    BY DEF CloseWith
  <2>3. QED
    BY <1>3, <2>1, <2>2
<1>6. /\ o = "success" <=> full
      /\ o = "error" <=> code' # "none"
  BY <1>3, <1>4
<1>7. consumed = fed /\ fed' = fed /\ fed \in Nat /\ code' \in Codes
  BY DEF RowsInv, Reading, RowsTypeOK
<1>8. /\ final'.outcome = o /\ final'.code = code' /\ final'.known = full
      /\ final'.returned = IF full THEN fed' ELSE 0
  BY <1>5, <1>7
<1>9. final' # NoEnd
  <2>1. final' \in [outcome : {"success", "partial", "error"}, code : Codes, known : BOOLEAN, returned : Nat]
    <3>1. o \in {"success", "partial", "error"}
      BY <1>4
    <3>2. (IF full THEN consumed ELSE 0) \in Nat
      BY <1>7
    <3>3. QED
      BY <1>5, <1>7, <3>1, <3>2
  <2>2. QED
    BY <2>1, NoEndAssumption
<1>10. SuccessIsComplete'
  <2>1. full => read' = result' /\ failures' = {} /\ err' = "none"
    BY <1>2, <1>3
  <2>2. full => final'.returned = fed'
    BY <1>8
  <2>3. final'.known <=> final'.outcome = "success"
    BY <1>6, <1>8
  <2>4. (final'.known => full) /\ (final'.outcome = "success" => full)
    BY <1>6, <1>8
  <2>5. QED
    BY <2>1, <2>2, <2>3, <2>4 DEF SuccessIsComplete
<1>11. FailureIsReported'
  BY <1>2, <1>6, <1>8 DEF FailureIsReported
<1>12. ended' /\ ends' = 1
  BY <1>1
<1>13. QED
  BY <1>9, <1>10, <1>11, <1>12 DEF RowsInv, EndIsTruthful

(* After the end nothing the report speaks of changes                      *)
LEMMA Closed ==
    ASSUME RowsInv, ended, RowsTypeOK',
           UNCHANGED <<ended, ends, final, failures, closed, fed, read, result, err>>
    PROVE  RowsInv'
<1>1. closed /\ ends = 1 /\ final # NoEnd /\ EndIsTruthful
  BY DEF RowsInv
<1>2. EndIsTruthful'
  BY <1>1 DEF EndIsTruthful, SuccessIsComplete, FailureIsReported
<1>3. QED
  BY <1>1, <1>2 DEF RowsInv

LEMMA StillReading ==
    ASSUME RowsInv, ~ended, RowsTypeOK', UNCHANGED <<ended, ends, final>>, Reading'
    PROVE  RowsInv'
<1>1. final = NoEnd /\ ends = 0
  BY DEF RowsInv, Reading
<1>2. QED
  BY <1>1 DEF RowsInv, EndIsTruthful, SuccessIsComplete, FailureIsReported

(* A step that only shows the reader a failure, or none                    *)
LEMMA Noting ==
    ASSUME RowsInv, NEW f \in Codes, Note(f, "none"), UNCHANGED <<sqlVars, endVars, givenVars, consumed, allSets, skipped>>,
           atEnd' = atEnd
    PROVE  RowsInv'
<1>1. "none" \in Codes
  BY DEF Codes
<1>2. /\ code' \in Codes /\ failures' \subseteq Failures
      /\ ended => code' = code /\ failures' = failures
      /\ ~ended => /\ failures' # {} <=> code' # "none"
                   /\ code' # "none" => code' \in failures'
                   /\ code' = "none" => code = "none" /\ f = "none"
  BY <1>1, NoteFacts
<1>3. UNCHANGED <<result, set, row, closed, err, ended, final, ends, fed, read, consumed, allSets, skipped>>
  BY DEF sqlVars, endVars, givenVars
<1>4. RowsTypeOK'
  BY <1>2, <1>3 DEF RowsInv, RowsTypeOK
<1>5. CASE ended
  BY <1>2, <1>3, <1>4, <1>5, Closed
<1>6. CASE ~ended
  <2>1. Reading'
    BY <1>2, <1>3, <1>6 DEF RowsInv, Reading, LastSet
  <2>2. QED
    BY <1>3, <1>4, <1>6, <2>1, StillReading
<1>7. QED
  BY <1>5, <1>6

LEMMA CloseStep ==
    ASSUME RowsInv, Close
    PROVE  RowsInv'
<1>1. PICK cerr \in {"none", "close"} : (closed => cerr = "none") /\ CloseWith(cerr, err, allSets)
  BY DEF Close
<1>2. closed' = TRUE /\ UNCHANGED <<result, set, row, err, readVars, givenVars>>
  BY DEF Close
<1>3. UNCHANGED <<consumed, scans, atEnd, allSets, skipped, fed, read>>
  BY <1>2 DEF readVars, givenVars
<1>4. cerr \in Codes /\ err \in Codes /\ RowsTypeOK /\ Note(cerr, err)
  BY <1>1 DEF RowsInv, RowsTypeOK, Codes, Failures, CloseWith
<1>5. code' \in Codes /\ failures' \subseteq Failures /\ (ended => code' = code /\ failures' = failures)
  BY <1>4, NoteFacts
<1>6. RowsTypeOK'
  BY <1>1, <1>2, <1>3, <1>4, <1>5 DEF RowsTypeOK, CloseWith
<1>7. CASE ended
  <2>1. UNCHANGED <<ended, ends, final, failures, closed, fed, read, result, err>>
    BY <1>1, <1>2, <1>3, <1>5, <1>7 DEF CloseWith, RowsInv
  <2>2. QED
    BY <1>6, <1>7, <2>1, Closed
<1>8. CASE ~ended
  <2>1. allSets = FALSE
    BY <1>4, <1>8 DEF RowsInv, Reading, RowsTypeOK
  <2>2. CloseWith(cerr, err', allSets)
    BY <1>1, <1>2 DEF CloseWith
  <2>3. QED
    BY <1>2, <1>3, <1>4, <1>6, <1>8, <2>1, <2>2, Closing
<1>9. QED
  BY <1>7, <1>8

LEMMA CancelStep ==
    ASSUME RowsInv, Cancel
    PROVE  RowsInv'
<1>1. /\ ~closed /\ closed' = TRUE /\ err' = "cancelled" /\ UNCHANGED <<result, set, row>>
      /\ UNCHANGED <<readVars, code, endVars, givenVars, failures>>
  BY DEF Cancel, Fails
<1>2. UNCHANGED <<consumed, scans, atEnd, allSets, skipped, ended, final, ends, fed, read>>
  BY <1>1 DEF readVars, endVars, givenVars
<1>3. RowsTypeOK' /\ ~ended
  BY <1>1, <1>2 DEF RowsInv, RowsTypeOK, Codes, Failures
<1>4. Reading'
  BY <1>1, <1>2, <1>3 DEF RowsInv, Reading, LastSet
<1>5. QED
  BY <1>2, <1>3, <1>4, StillReading

LEMMA NextRowStep ==
    ASSUME RowsInv, NextRow
    PROVE  RowsInv'
<1>1. ~closed /\ row < result[set] /\ ~ended /\ RowsTypeOK /\ Reading
  BY DEF NextRow, HasRow, RowsInv
<1>2. /\ row' = row + 1 /\ fed' = fed + 1 /\ read' = [read EXCEPT ![set] = read[set] + 1]
      /\ consumed' = consumed + 1 /\ atEnd' = FALSE /\ UNCHANGED <<scans, allSets, skipped>>
      /\ UNCHANGED <<result, set, closed, err, code, endVars, failures>>
  BY <1>1 DEF NextRow
<1>3. UNCHANGED <<ended, final, ends>>
  BY <1>2 DEF endVars
<1>4. /\ Len(result) \in Nat /\ result \in [1..Len(result) -> Nat] /\ set \in 1..Len(result) /\ result[set] \in Nat
      /\ set \in Nat /\ row \in Nat
  BY <1>1, ResultFacts
<1>5. read \in [1..Len(result) -> Nat] /\ read[set] = row /\ fed \in Nat /\ consumed = fed
  BY <1>1 DEF Reading, RowsTypeOK
<1>6. read' \in [1..Len(result) -> Nat] /\ read'[set] = row' /\ \A i \in 1..Len(result) : i # set => read'[i] = read[i]
  BY <1>2, <1>4, <1>5
<1>7. RowsTypeOK'
  <2>1. row' \in 0..result[set]
    <3>1. PICK n, r : n = result[set] /\ r = row
      OBVIOUS
    <3>2. n \in Nat /\ r \in Nat /\ r < n
      BY <1>1, <1>4, <3>1
    <3>3. r + 1 \in 0..n
      BY <3>2
    <3>4. QED
      BY <1>2, <3>1, <3>3
  <2>2. consumed' \in Nat /\ fed' \in Nat
    BY <1>2, <1>5
  <2>3. UNCHANGED <<result, set, closed, err, code, failures, ended, allSets, skipped>> /\ atEnd' = FALSE
    BY <1>2, <1>3
  <2>4. QED
    BY <1>1, <1>6, <2>1, <2>2, <2>3 DEF RowsTypeOK
<1>8. Reading'
  <2>1. \A i \in 1..Len(result) : i > set => read'[i] = 0
    BY <1>1, <1>4, <1>6 DEF Reading
  <2>2. code = "none" /\ ~skipped => \A i \in 1..Len(result) : i < set => read'[i] = result[i]
    BY <1>1, <1>4, <1>6 DEF Reading
  <2>3. consumed' = fed'
    BY <1>2, <1>5
  <2>4. QED
    BY <1>1, <1>2, <1>3, <1>6, <2>1, <2>2, <2>3 DEF Reading
<1>9. QED
  BY <1>1, <1>3, <1>7, <1>8, StillReading

LEMMA NextFalseStep ==
    ASSUME RowsInv, NextFalse
    PROVE  RowsInv'
<1>0. RowsTypeOK /\ (~ended => Reading) /\ (ended => closed)
  BY DEF RowsInv
<1>1. /\ Note(err', "none") /\ atEnd' = (~ended \/ atEnd)
      /\ UNCHANGED <<consumed, scans, allSets, skipped, endVars, givenVars>>
  BY DEF NextFalse
<1>2. UNCHANGED <<ended, final, ends, fed, read>> /\ UNCHANGED <<result, set, row>>
  BY <1>1 DEF NextFalse, Fails, sqlVars, endVars, givenVars
<1>3. PICK e : e = err'
  OBVIOUS
<1>4. e \in Codes /\ Note(e, "none") /\ "none" \in Codes
  BY <1>0, <1>1, <1>3 DEF NextFalse, Fails, sqlVars, RowsTypeOK, Codes, Failures, Note
<1>5. /\ code' \in Codes /\ failures' \subseteq Failures
      /\ ended => code' = code /\ failures' = failures
      /\ ~ended => /\ failures' # {} <=> code' # "none"
                   /\ code' # "none" => code' \in failures'
                   /\ code' = "none" => code = "none" /\ e = "none"
  BY <1>4, NoteFacts
<1>6. closed' \in BOOLEAN /\ atEnd' \in BOOLEAN
  BY <1>0, <1>1 DEF NextFalse, Fails, sqlVars, RowsTypeOK, LastSet
<1>7. RowsTypeOK'
  BY <1>0, <1>1, <1>2, <1>3, <1>4, <1>5, <1>6 DEF RowsTypeOK
<1>8. CASE ended
  <2>1. UNCHANGED <<closed, err>>
    BY <1>0, <1>8 DEF NextFalse, SetDone, sqlVars
  <2>2. QED
    BY <1>2, <1>5, <1>7, <1>8, <2>1, Closed
<1>9. CASE ~ended
  <2>1. e = "none" => row = result[set] /\ (closed' => LastSet)
    <3>1. CASE SetDone /\ closed' = LastSet /\ UNCHANGED <<result, set, row, err>>
      BY <3>1 DEF SetDone
    <3>2. CASE ~closed /\ Fails("rows")
      BY <1>3, <3>2 DEF Fails
    <3>3. CASE closed /\ UNCHANGED sqlVars
      BY <1>0, <1>3, <1>9, <3>3 DEF Reading, sqlVars
    <3>4. QED
      BY <3>1, <3>2, <3>3 DEF NextFalse
  <2>2. Reading'
    BY <1>0, <1>1, <1>2, <1>3, <1>5, <1>9, <2>1 DEF Reading, LastSet
  <2>3. QED
    BY <1>2, <1>7, <1>9, <2>2, StillReading
<1>10. QED
  BY <1>8, <1>9

LEMMA NextSetStep ==
    ASSUME RowsInv, NextSet
    PROVE  RowsInv'
<1>1. ~closed /\ ~LastSet /\ ~ended /\ RowsTypeOK /\ Reading
  BY DEF NextSet, RowsInv
<1>2. /\ set' = set + 1 /\ row' = 0 /\ skipped' = (skipped \/ ~atEnd) /\ atEnd' = FALSE
      /\ UNCHANGED <<result, closed, err, consumed, scans, allSets, code, endVars, givenVars, failures>>
  BY <1>1 DEF NextSet
<1>3. UNCHANGED <<ended, final, ends, fed, read>>
  BY <1>2 DEF endVars, givenVars
<1>4. /\ Len(result) \in Nat /\ result \in [1..Len(result) -> Nat] /\ set \in 1..Len(result) /\ set # Len(result)
      /\ set \in Nat
  BY <1>1, ResultFacts DEF LastSet
<1>5. PICK n, k : n = Len(result) /\ k = set
  OBVIOUS
<1>6. n \in Nat /\ k \in 1..n /\ k # n /\ k \in Nat
  BY <1>4, <1>5
<1>7. k + 1 \in 1..n /\ set' = k + 1 /\ k + 1 > k
  BY <1>2, <1>5, <1>6, SMTT(60)
<1>8. set' \in 1..Len(result) /\ result[set'] \in Nat
  BY <1>4, <1>5, <1>7
<1>9. RowsTypeOK'
  <2>1. row' \in 0..result[set']
    BY <1>2, <1>8
  <2>2. UNCHANGED <<result, closed, err, consumed, allSets, code, failures, ended, fed, read>> /\ atEnd' = FALSE
    BY <1>2, <1>3
  <2>3. skipped' \in BOOLEAN
    BY <1>1, <1>2 DEF RowsTypeOK
  <2>4. QED
    BY <1>1, <1>8, <2>1, <2>2, <2>3 DEF RowsTypeOK
<1>10. Reading'
  <2>1. read'[set'] = row' /\ \A i \in 1..Len(result) : i > set' => read'[i] = 0
    <3>1. \A i \in 1..n : i > k => read[i] = 0
      BY <1>1, <1>5 DEF Reading
    <3>2. \A i \in 1..n : i > k + 1 => i > k
      BY <1>6
    <3>3. read[k + 1] = 0
      BY <1>7, <3>1
    <3>4. QED
      BY <1>2, <1>3, <1>5, <1>7, <3>1, <3>2, <3>3
  <2>2. code' = "none" /\ ~skipped' => \A i \in 1..Len(result) : i < set' => read'[i] = result[i]
    <3>1. SUFFICES ASSUME code = "none", ~skipped, atEnd, NEW i \in 1..Len(result), i < set + 1
                   PROVE  read[i] = result[i]
      BY <1>2, <1>3
    <3>2. i < set \/ i = set
      <4>1. i \in 1..n /\ i < k + 1
        BY <1>5, <3>1
      <4>2. i < k \/ i = k
        BY <1>6, <4>1
      <4>3. QED
        BY <1>5, <4>2
    <3>3. read[set] = row /\ row = result[set] /\ (i < set => read[i] = result[i])
      BY <1>1, <3>1 DEF Reading
    <3>4. QED
      BY <3>2, <3>3
  <2>3. QED
    BY <1>1, <1>2, <1>3, <2>1, <2>2 DEF Reading
<1>11. QED
  BY <1>1, <1>3, <1>9, <1>10, StillReading

LEMMA NoNextSetStep ==
    ASSUME RowsInv, NoNextSet
    PROVE  RowsInv'
<1>0. RowsTypeOK /\ (~ended => Reading) /\ (ended => closed)
  BY DEF RowsInv
<1>1. /\ skipped' = (skipped \/ (~ended /\ ~atEnd)) /\ allSets' = (IF ended THEN allSets ELSE ~skipped')
      /\ CloseWith("none", err', allSets') /\ UNCHANGED <<consumed, scans, atEnd, givenVars>>
  BY DEF NoNextSet
<1>2. closed' = TRUE /\ UNCHANGED <<result, set, row>>
  BY <1>0 DEF NoNextSet, Fails, sqlVars, RowsTypeOK
<1>3. PICK e : e = err'
  OBVIOUS
<1>4. e \in Codes /\ Note("none", e) /\ "none" \in Codes
  BY <1>0, <1>1, <1>3 DEF NoNextSet, Fails, sqlVars, RowsTypeOK, Codes, Failures, Note, CloseWith
<1>5. /\ code' \in Codes /\ failures' \subseteq Failures
      /\ ended => code' = code /\ failures' = failures
      /\ ~ended => (code' = "none" => code = "none" /\ e = "none")
  BY <1>4, NoteFacts
<1>6. UNCHANGED <<fed, read, consumed>> /\ skipped' \in BOOLEAN /\ allSets' \in BOOLEAN /\ ended' = TRUE
  BY <1>0, <1>1 DEF givenVars, RowsTypeOK, CloseWith
<1>7. RowsTypeOK'
  BY <1>0, <1>1, <1>2, <1>3, <1>4, <1>5, <1>6 DEF RowsTypeOK
<1>8. CASE ended
  <2>1. UNCHANGED <<closed, err>>
    BY <1>0, <1>8 DEF NoNextSet, sqlVars
  <2>2. UNCHANGED <<ended, ends, final>>
    BY <1>0, <1>1, <1>6, <1>8 DEF CloseWith, RowsTypeOK
  <2>3. QED
    BY <1>2, <1>5, <1>6, <1>7, <1>8, <2>1, <2>2, Closed
<1>9. CASE ~ended
  <2>1. ASSUME allSets', code' = "none" PROVE read' = result'
    <3>1. ~skipped /\ atEnd /\ code = "none" /\ e = "none"
      BY <1>1, <1>5, <1>9, <2>1
    <3>2. LastSet
      <4>1. CASE ~closed /\ LastSet /\ closed' = TRUE /\ UNCHANGED <<result, set, row, err>>
        BY <4>1
      <4>2. CASE ~closed /\ Fails("rows")
        BY <1>3, <3>1, <4>2 DEF Fails
      <4>3. CASE closed /\ UNCHANGED sqlVars
        BY <1>0, <1>3, <1>9, <3>1, <4>3 DEF Reading, sqlVars
      <4>4. QED
        BY <4>1, <4>2, <4>3 DEF NoNextSet
    <3>3. /\ read[set] = result[set] /\ \A i \in 1..Len(result) : i < set => read[i] = result[i]
      BY <1>0, <1>9, <3>1 DEF Reading
    <3>4. /\ result \in [1..Len(result) -> Nat] /\ read \in [1..Len(result) -> Nat] /\ set = Len(result) /\ set \in Nat
      BY <1>0, <3>2, ResultFacts DEF LastSet, RowsTypeOK
    <3>5. \A i \in 1..Len(result) : read[i] = result[i]
      BY <3>3, <3>4
    <3>6. read = result
      BY <3>4, <3>5
    <3>7. QED
      BY <1>2, <1>6, <3>6
  <2>2. PICK all \in BOOLEAN : all = allSets'
    BY <1>6
  <2>3. CloseWith("none", err', all)
    BY <1>1, <2>2 DEF CloseWith
  <2>4. QED
    BY <1>2, <1>4, <1>6, <1>7, <1>9, <2>1, <2>2, <2>3, Closing
<1>10. QED
  BY <1>8, <1>9

LEMMA RowsInitOK == RowsInit => RowsInv
<1> SUFFICES ASSUME RowsInit PROVE RowsInv
  OBVIOUS
<1>1. result \in Results /\ result \in Seq(Nat) /\ result # <<>>
  BY ResultsAssumption DEF RowsInit
<1>2. Len(result) \in Nat \ {0} /\ result \in [1..Len(result) -> Nat]
  BY <1>1, LenProperties, EmptySeq
<1>3. set = 1 /\ set \in 1..Len(result) /\ row = 0 /\ result[set] \in Nat
  BY <1>2 DEF RowsInit
<1>4. RowsTypeOK
  <2>1. row \in 0..result[set] /\ 0 \in Nat
    BY <1>3
  <2>2. read \in [1..Len(result) -> Nat] /\ "none" \in Codes
    BY DEF RowsInit, Codes
  <2>3. QED
    BY <1>1, <1>3, <2>1, <2>2 DEF RowsInit, RowsTypeOK
<1>5. Reading
  BY <1>2, <1>3 DEF RowsInit, Reading
<1>6. QED
  BY <1>4, <1>5 DEF RowsInit, RowsInv, EndIsTruthful, SuccessIsComplete, FailureIsReported

LEMMA RowsStep == RowsInv /\ [RowsNext]_rowsVars => RowsInv'
<1> SUFFICES ASSUME RowsInv, [RowsNext]_rowsVars PROVE RowsInv'
  OBVIOUS
<1>0. RowsTypeOK /\ (ended => closed) /\ (~ended => Reading)
  BY DEF RowsInv
<1>1. CASE NextRow
  BY <1>1, NextRowStep
<1>2. CASE NextFalse
  BY <1>2, NextFalseStep
<1>3. CASE Err
  <2>1. Note(err, "none") /\ err \in Codes
    BY <1>0, <1>3 DEF Err, RowsTypeOK
  <2>2. UNCHANGED <<sqlVars, endVars, givenVars, consumed, allSets, skipped>> /\ atEnd' = atEnd
    BY <1>3 DEF Err, readVars
  <2>3. QED
    BY <1>0, <2>1, <2>2, Noting DEF RowsTypeOK
<1>4. CASE Result
  <2>1. Note("result", "none") /\ "result" \in Codes
    BY <1>4 DEF Result, Codes, Failures
  <2>2. UNCHANGED <<sqlVars, endVars, givenVars, consumed, allSets, skipped>> /\ atEnd' = atEnd
    BY <1>4 DEF Result, readVars
  <2>3. QED
    BY <1>0, <2>1, <2>2, Noting DEF RowsTypeOK
<1>5. CASE NextSet
  BY <1>5, NextSetStep
<1>6. CASE NoNextSet
  BY <1>6, NoNextSetStep
<1>7. CASE Close
  BY <1>7, CloseStep
<1>8. CASE Cancel
  BY <1>8, CancelStep
<1>9. CASE \E ok \in BOOLEAN : Scan(ok)
  <2>1. PICK ok \in BOOLEAN : Scan(ok)
    BY <1>9
  <2>2. PICK f : f = IF ok THEN "none" ELSE "scan"
    OBVIOUS
  <2>3. Note(f, "none") /\ f \in Codes
    BY <2>1, <2>2 DEF Scan, Codes, Failures
  <2>4. UNCHANGED <<sqlVars, endVars, givenVars, consumed, allSets, skipped>> /\ atEnd' = atEnd
    BY <2>1 DEF Scan
  <2>5. QED
    BY <1>0, <2>3, <2>4, Noting DEF RowsTypeOK
<1>10. CASE UNCHANGED rowsVars
  <2>1. /\ UNCHANGED <<result, set, row, closed, err, consumed, scans, atEnd, allSets, skipped, code>>
        /\ UNCHANGED <<ended, final, ends, fed, read, failures>>
    BY <1>10 DEF rowsVars, sqlVars, readVars, endVars, givenVars
  <2>2. RowsTypeOK' /\ (~ended => Reading')
    BY <1>0, <2>1 DEF RowsTypeOK, Reading, LastSet
  <2>3. QED
    BY <2>1, <2>2, Closed, StillReading
<1>11. QED
  BY <1>1, <1>2, <1>3, <1>4, <1>5, <1>6, <1>7, <1>8, <1>9, <1>10 DEF RowsNext

(* Close, which NextResultSet calls too, ends the ticket once, and says     *)
(* success only of a result whose every set was read to its end, with the   *)
(* number of rows the caller was given; a failure the reader was shown is   *)
(* reported.                                                                *)
THEOREM EndIsTruthfulHolds == RowsSpec => []EndIsTruthful
<1>1. RowsInv => EndIsTruthful
  BY DEF RowsInv
<1>2. QED
  BY <1>1, RowsInitOK, RowsStep, PTL DEF RowsSpec
=============================================================================
