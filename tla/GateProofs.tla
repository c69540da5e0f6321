----------------------------- MODULE GateProofs -----------------------------
(***************************************************************************)
(* Proofs about Gate: for any settings, policies, conditions, joins,       *)
(* inserts and table contents, a statement that runs under strict settings *)
(* stays with its tenant, at_most_one is at most one row, and no finding   *)
(* of the risk engine or of a policy is lost on the way to the database.   *)
(***************************************************************************)
EXTENDS Gate, FiniteSetTheorems, SequenceTheorems, WellFoundedInduction, TLAPS

(***************************************************************************)
(* Induction.  The least element of a set of numbers replaces an induction *)
(* rule with an operator as its parameter.                                 *)
(***************************************************************************)
LEMMA Least ==
  ASSUME NEW T \in SUBSET Nat, T # {}
  PROVE  \E x \in T : \A y \in T : x <= y
<1> DEFINE R == OpToRel(<, Nat)
<1>1. IsWellFoundedOn(R, Nat)
  BY NatLessThanWellFounded
<1>2. PICK x \in T : \A y \in T : ~(<<y, x>> \in R)
  <2> HIDE DEF R
  <2> QED BY <1>1, WFMin
<1>3. \A y \in T : y < x => <<y, x>> \in R
  BY DEF OpToRel
<1>4. \A y \in T : ~(y < x)
  <2> HIDE DEF R
  <2> QED BY <1>2, <1>3, Zenon
<1>5. x \in T
  BY <1>2
<1> HIDE DEF R
<1> QED BY <1>4, <1>5

LEMMA InductTo ==
  ASSUME NEW m \in Nat, NEW S, 0 \in S, \A n \in 0..m : n \in S /\ n < m => n + 1 \in S
  PROVE  \A n \in 0..m : n \in S
<1> DEFINE Left == {n \in 0..m : n \notin S}
<1>1. SUFFICES ASSUME Left # {} PROVE FALSE
  OBVIOUS
<1>2. Left \in SUBSET Nat
  OBVIOUS
<1>3. PICK x \in Left : \A y \in Left : x <= y
  <2> HIDE DEF Left
  <2> QED BY <1>1, <1>2, Least
<1>4. x \in 0..m /\ x \notin S /\ x # 0
  OBVIOUS
<1>5. x - 1 \in 0..m /\ x - 1 < m /\ x - 1 \notin Left /\ (x - 1) + 1 = x
  <2>1. ASSUME x - 1 \in Left PROVE FALSE
    BY <2>1, <1>3, <1>4
  <2> HIDE DEF Left
  <2> QED BY <1>4, <2>1
<1>6. x - 1 \in S
  BY <1>5
<1> HIDE DEF Left
<1> QED BY <1>4, <1>5, <1>6

(***************************************************************************)
(* Trees.                                                                  *)
(***************************************************************************)
LEMMA TreesToDef ==
  TreesTo = [d \in 0..MaxDepth |-> Nodes(IF d = 0 THEN {<<>>} ELSE Seq(TreesTo[d - 1]))]
<1> DEFINE Fn(k, f) == f = [d \in 0..k |-> Nodes(IF d = 0 THEN {<<>>} ELSE Seq(f[d - 1]))]
           T == {k \in 0..MaxDepth : \E f : Fn(k, f)}
<1>1. 0 \in T
  <2> DEFINE f0 == [d \in 0..0 |-> Nodes({<<>>})]
  <2>1. Fn(0, f0)
    OBVIOUS
  <2>2. 0 \in 0..MaxDepth
    BY DepthAssumption
  <2> HIDE DEF Fn, f0
  <2> QED BY <2>1, <2>2
<1>2. ASSUME NEW k \in 0..MaxDepth, k \in T, k < MaxDepth PROVE k + 1 \in T
  <2>1. PICK f : Fn(k, f)
    BY <1>2
  <2>2. k \in Nat /\ k + 1 \in 0..MaxDepth
    BY <1>2, DepthAssumption
  <2> DEFINE g == [d \in 0..k+1 |-> IF d = k + 1 THEN Nodes(Seq(f[k])) ELSE f[d]]
  <2>3. ASSUME NEW d \in 0..k+1 PROVE g[d] = Nodes(IF d = 0 THEN {<<>>} ELSE Seq(g[d - 1]))
    <3>1. CASE d = k + 1
      <4>1. d # 0 /\ d - 1 = k /\ d - 1 \in 0..k+1 /\ d - 1 # k + 1
        BY <3>1, <2>2
      <4>2. g[d - 1] = f[k] /\ g[d] = Nodes(Seq(f[k]))
        BY <3>1, <4>1
      <4> QED BY <4>1, <4>2
    <3>2. CASE d # k + 1
      <4>1. d \in 0..k /\ (d # 0 => d - 1 \in 0..k+1 /\ d - 1 # k + 1)
        BY <3>2, <2>2
      <4>2. g[d] = f[d] /\ (d # 0 => g[d - 1] = f[d - 1])
        BY <3>2, <4>1
      <4>3. f[d] = Nodes(IF d = 0 THEN {<<>>} ELSE Seq(f[d - 1]))
        BY <2>1, <4>1
      <4> HIDE DEF g, Fn
      <4> QED BY <4>2, <4>3
    <3> QED BY <3>1, <3>2
  <2>4. Fn(k + 1, g)
    <3>1. g = [d \in 0..k+1 |-> g[d]]
      OBVIOUS
    <3> HIDE DEF g
    <3> QED BY <3>1, <2>3
  <2> HIDE DEF g, Fn
  <2> QED BY <2>2, <2>4
<1>3. MaxDepth \in T
  <2> HIDE DEF T
  <2>1. \A n \in 0..MaxDepth : n \in T
    BY <1>1, <1>2, InductTo, DepthAssumption
  <2> QED BY <2>1, DepthAssumption
<1>4. \E f : Fn(MaxDepth, f)
  BY <1>3
<1> QED BY <1>4 DEF TreesTo, Nodes

LEMMA TreesToLevels ==
  /\ TreesTo[0] = Nodes({<<>>})
  /\ \A d \in 0..MaxDepth : d # MaxDepth => TreesTo[d + 1] = Nodes(Seq(TreesTo[d]))
<1>1. \A d \in 0..MaxDepth : TreesTo[d] = Nodes(IF d = 0 THEN {<<>>} ELSE Seq(TreesTo[d - 1]))
  BY TreesToDef
<1>2. 0 \in 0..MaxDepth
  BY DepthAssumption
<1>3. ASSUME NEW d \in 0..MaxDepth, d # MaxDepth PROVE TreesTo[d + 1] = Nodes(Seq(TreesTo[d]))
  <2>1. d + 1 \in 0..MaxDepth /\ d + 1 # 0 /\ (d + 1) - 1 = d
    BY <1>3, DepthAssumption
  <2> QED BY <1>1, <2>1
<1> QED BY <1>1, <1>2, <1>3

LEMMA TreesToGrow ==
  \A d \in 0..MaxDepth : TreesTo[d] \subseteq Trees /\ (d # MaxDepth => TreesTo[d] \subseteq TreesTo[d + 1])
<1> DEFINE S == {d \in 0..MaxDepth : d # MaxDepth => TreesTo[d] \subseteq TreesTo[d + 1]}
<1>1. 0 \in S
  <2>1. 0 \in 0..MaxDepth
    BY DepthAssumption
  <2>2. ASSUME 0 # MaxDepth PROVE TreesTo[0] \subseteq TreesTo[0 + 1]
    <3>1. {<<>>} \subseteq Seq(TreesTo[0])
      OBVIOUS
    <3>2. Nodes({<<>>}) \subseteq Nodes(Seq(TreesTo[0]))
      BY <3>1 DEF Nodes
    <3>3. TreesTo[0] = Nodes({<<>>}) /\ TreesTo[0 + 1] = Nodes(Seq(TreesTo[0]))
      BY <2>1, <2>2, TreesToLevels
    <3> QED BY <3>2, <3>3
  <2> QED BY <2>1, <2>2
<1>2. ASSUME NEW d \in 0..MaxDepth, d \in S, d < MaxDepth PROVE d + 1 \in S
  <2>1. d + 1 \in 0..MaxDepth /\ d # MaxDepth /\ TreesTo[d] \subseteq TreesTo[d + 1]
    BY <1>2, DepthAssumption
  <2>2. ASSUME d + 1 # MaxDepth PROVE TreesTo[d + 1] \subseteq TreesTo[(d + 1) + 1]
    <3>1. Seq(TreesTo[d]) \subseteq Seq(TreesTo[d + 1])
      BY <2>1
    <3>2. Nodes(Seq(TreesTo[d])) \subseteq Nodes(Seq(TreesTo[d + 1]))
      BY <3>1 DEF Nodes
    <3>3. TreesTo[d + 1] = Nodes(Seq(TreesTo[d])) /\ TreesTo[(d + 1) + 1] = Nodes(Seq(TreesTo[d + 1]))
      BY <2>1, <2>2, TreesToLevels
    <3> QED BY <3>2, <3>3
  <2> QED BY <2>1, <2>2
<1>3. \A d \in 0..MaxDepth : d \in S
  <2> HIDE DEF S
  <2> QED BY <1>1, <1>2, InductTo, DepthAssumption
<1> DEFINE U == {e \in 0..MaxDepth : \A d \in 0..e : TreesTo[d] \subseteq TreesTo[e]}
<1>4. 0 \in U
  BY DepthAssumption
<1>5. ASSUME NEW e \in 0..MaxDepth, e \in U, e < MaxDepth PROVE e + 1 \in U
  <2>1. e + 1 \in 0..MaxDepth /\ e # MaxDepth /\ TreesTo[e] \subseteq TreesTo[e + 1]
    BY <1>5, <1>3, DepthAssumption
  <2>2. ASSUME NEW d \in 0..e + 1 PROVE TreesTo[d] \subseteq TreesTo[e + 1]
    <3>1. d = e + 1 \/ d \in 0..e
      BY <1>5, DepthAssumption
    <3>2. d \in 0..e => TreesTo[d] \subseteq TreesTo[e]
      BY <1>5
    <3> QED BY <3>1, <3>2, <2>1
  <2> QED BY <2>1, <2>2
<1>6. MaxDepth \in U
  <2> HIDE DEF U
  <2>1. \A e \in 0..MaxDepth : e \in U
    BY <1>4, <1>5, InductTo, DepthAssumption
  <2> QED BY <2>1, DepthAssumption
<1> QED BY <1>3, <1>6 DEF Trees

\* A tree's children are trees.
LEMMA TreeChildren ==
  ASSUME NEW n \in Trees
  PROVE  /\ n \in [kind : STRING, col : Columned, op : STRING, vals : Seq(Value), vcol : Columned,
                   opaque : STRING, ch : Seq(Trees)]
         /\ n.ch # <<>> => n.kind \in Branches
         /\ \A i \in DOMAIN n.ch : n.ch[i] \in Trees
<1>1. n.ch \in Seq(Trees) /\ \E S : n \in Nodes(S)
  <2>1. CASE MaxDepth = 0
    <3>1. n \in Nodes({<<>>})
      BY <2>1, TreesToLevels DEF Trees
    <3>2. n.ch = <<>>
      BY <3>1 DEF Nodes
    <3>3. <<>> \in Seq(Trees)
      OBVIOUS
    <3> QED BY <3>1, <3>2, <3>3
  <2>2. CASE MaxDepth # 0
    <3> DEFINE d == MaxDepth - 1
    <3>1. d \in 0..MaxDepth /\ d # MaxDepth /\ d + 1 = MaxDepth
      BY <2>2, DepthAssumption
    <3>2. n \in Nodes(Seq(TreesTo[d])) /\ TreesTo[d] \subseteq Trees
      BY <3>1, TreesToLevels, TreesToGrow DEF Trees
    <3>3. n.ch \in Seq(TreesTo[d])
      BY <3>2 DEF Nodes
    <3> HIDE DEF d
    <3> QED BY <3>2, <3>3
  <2> QED BY <2>1, <2>2
<1>2. n \in Nodes(Seq(Trees))
  BY <1>1 DEF Nodes
<1> QED BY <1>1, <1>2 DEF Nodes

\* What holds of a node when it holds of its children holds of every tree.
LEMMA TreeInduction ==
  ASSUME NEW S, \A n \in Trees : (\A i \in DOMAIN n.ch : n.ch[i] \in S) => n \in S
  PROVE  \A n \in Trees : n \in S
<1> DEFINE D == {d \in 0..MaxDepth : TreesTo[d] \subseteq S}
<1>1. 0 \in D
  <2>1. 0 \in 0..MaxDepth /\ TreesTo[0] = Nodes({<<>>}) /\ TreesTo[0] \subseteq Trees
    BY TreesToLevels, TreesToGrow, DepthAssumption
  <2>2. ASSUME NEW n \in TreesTo[0] PROVE n \in S
    <3>1. n.ch = <<>> /\ n \in Trees
      BY <2>1 DEF Nodes
    <3> QED BY <3>1
  <2> QED BY <2>1, <2>2
<1>2. ASSUME NEW d \in 0..MaxDepth, d \in D, d < MaxDepth PROVE d + 1 \in D
  <2>1. d + 1 \in 0..MaxDepth /\ d # MaxDepth
    BY <1>2, DepthAssumption
  <2>2. TreesTo[d + 1] = Nodes(Seq(TreesTo[d])) /\ TreesTo[d + 1] \subseteq Trees
    BY <2>1, TreesToLevels, TreesToGrow
  <2>3. ASSUME NEW n \in TreesTo[d + 1] PROVE n \in S
    <3>1. n.ch \in Seq(TreesTo[d]) /\ n \in Trees
      BY <2>2 DEF Nodes
    <3>2. \A i \in DOMAIN n.ch : n.ch[i] \in S
      BY <3>1, <1>2
    <3> QED BY <3>1, <3>2
  <2> QED BY <2>1, <2>3
<1>3. MaxDepth \in D
  <2> HIDE DEF D
  <2>1. \A d \in 0..MaxDepth : d \in D
    BY <1>1, <1>2, InductTo, DepthAssumption
  <2> QED BY <2>1, DepthAssumption
<1> QED BY <1>3 DEF Trees

(***************************************************************************)
(* Walks.  step stands for what a walk makes of a node and the results of  *)
(* its children.                                                           *)
(***************************************************************************)
Below(n, f) == [i \in DOMAIN n.ch |-> f[n.ch[i]]]

LEMMA BelowType ==
  ASSUME NEW V, NEW f \in [Trees -> V], NEW n \in Trees
  PROVE  Below(n, f) \in Seq(V)
<1>1. n.ch \in Seq(Trees)
  BY TreeChildren
<1>2. \A i \in DOMAIN n.ch : f[n.ch[i]] \in V
  BY TreeChildren
<1>3. DOMAIN n.ch = 1..Len(n.ch) /\ Len(n.ch) \in Nat
  BY <1>1
<1> QED BY <1>2, <1>3 DEF Below

LEMMA WalkExists ==
  ASSUME NEW V, NEW v \in V, NEW step \in [Trees \X Seq(V) -> V]
  PROVE  \E f \in [Trees -> V] : \A n \in Trees : f[n] = step[<<n, Below(n, f)>>]
<1> DEFINE D == {d \in 0..MaxDepth :
                   \E f \in [Trees -> V] : \A n \in TreesTo[d] : f[n] = step[<<n, Below(n, f)>>]}
<1>1. ASSUME NEW f \in [Trees -> V] PROVE [n \in Trees |-> step[<<n, Below(n, f)>>]] \in [Trees -> V]
  BY BelowType
<1>2. 0 \in D
  <2> DEFINE f == [n \in Trees |-> v]
             g == [n \in Trees |-> step[<<n, Below(n, f)>>]]
  <2>1. 0 \in 0..MaxDepth /\ TreesTo[0] = Nodes({<<>>}) /\ TreesTo[0] \subseteq Trees
    BY TreesToLevels, TreesToGrow, DepthAssumption
  <2>2. f \in [Trees -> V]
    OBVIOUS
  <2>3. g \in [Trees -> V]
    <3> HIDE DEF f
    <3> QED BY <1>1, <2>2
  <2>4. ASSUME NEW n \in TreesTo[0] PROVE g[n] = step[<<n, Below(n, g)>>]
    <3>1. n.ch = <<>> /\ n \in Trees
      BY <2>1 DEF Nodes
    <3>2. Below(n, f) = <<>> /\ Below(n, g) = <<>>
      <4> HIDE DEF f, g
      <4> QED BY <3>1 DEF Below
    <3>3. g[n] = step[<<n, Below(n, f)>>]
      BY <3>1
    <3> HIDE DEF f, g
    <3> QED BY <3>2, <3>3
  <2> HIDE DEF f, g
  <2> QED BY <2>1, <2>3, <2>4
<1>3. ASSUME NEW d \in 0..MaxDepth, d \in D, d < MaxDepth PROVE d + 1 \in D
  <2>1. d + 1 \in 0..MaxDepth /\ d # MaxDepth
    BY <1>3, DepthAssumption
  <2>2. TreesTo[d + 1] = Nodes(Seq(TreesTo[d])) /\ TreesTo[d + 1] \subseteq Trees /\ TreesTo[d] \subseteq Trees
    BY <2>1, TreesToLevels, TreesToGrow
  <2>3. PICK f \in [Trees -> V] : \A n \in TreesTo[d] : f[n] = step[<<n, Below(n, f)>>]
    BY <1>3
  <2> DEFINE g == [n \in Trees |-> step[<<n, Below(n, f)>>]]
  <2>4. g \in [Trees -> V]
    BY <1>1
  <2>5. ASSUME NEW n \in TreesTo[d + 1] PROVE g[n] = step[<<n, Below(n, g)>>]
    <3>1. n.ch \in Seq(TreesTo[d]) /\ n \in Trees
      BY <2>2 DEF Nodes
    <3>2. \A m \in TreesTo[d] : g[m] = f[m]
      BY <2>2, <2>3
    <3>3. g[n] = step[<<n, Below(n, f)>>]
      BY <3>1
    <3> HIDE DEF g
    <3>4. \A i \in DOMAIN n.ch : n.ch[i] \in TreesTo[d]
      BY <3>1
    <3>5. Below(n, g) = Below(n, f)
      BY <3>2, <3>4 DEF Below
    <3> QED BY <3>3, <3>5
  <2> HIDE DEF g
  <2> QED BY <2>1, <2>4, <2>5
<1>4. MaxDepth \in D
  <2> HIDE DEF D
  <2>1. \A d \in 0..MaxDepth : d \in D
    BY <1>2, <1>3, InductTo, DepthAssumption
  <2> QED BY <2>1, DepthAssumption
<1> QED BY <1>4 DEF Trees

LEMMA NodeBoundType ==
  ASSUME NEW n \in Trees, NEW ch \in Seq(BOOLEAN), NEW binds \in BOOLEAN
  PROVE  NodeBound(n, ch, binds) \in BOOLEAN
BY DEF NodeBound

LEMMA BoundUnfolds ==
  ASSUME NEW ts, NEW target, NEW want, NEW n \in Trees
  PROVE  tenantBound(n, ts, target, want) =
           NodeBound(n, [i \in DOMAIN n.ch |-> tenantBound(n.ch[i], ts, target, want)],
                     BindsTenant(n, ts, target, want))
<1> DEFINE B(m, ch) == NodeBound(m, ch, BindsTenant(m, ts, target, want))
           step == [p \in Trees \X Seq(BOOLEAN) |-> B(p[1], p[2])]
           Eq(f) == f = [m \in Trees |-> B(m, [i \in DOMAIN m.ch |-> f[m.ch[i]]])]
           g == CHOOSE f : Eq(f)
<1>0. \A m \in Trees, ch \in Seq(BOOLEAN) : B(m, ch) \in BOOLEAN
  <2>1. \A m \in Trees : BindsTenant(m, ts, target, want) \in BOOLEAN
    BY DEF BindsTenant, scopeInteger
  <2> QED BY <2>1, NodeBoundType
<1>1. step \in [Trees \X Seq(BOOLEAN) -> BOOLEAN]
  <2> HIDE DEF B
  <2> QED BY <1>0
<1>2. PICK f \in [Trees -> BOOLEAN] : \A m \in Trees : f[m] = step[<<m, Below(m, f)>>]
  <2> HIDE DEF step
  <2> QED BY <1>1, WalkExists
<1>3. \A m \in Trees : f[m] = B(m, Below(m, f))
  <2> HIDE DEF B
  <2>1. \A m \in Trees : Below(m, f) \in Seq(BOOLEAN)
    BY BelowType
  <2> QED BY <1>2, <2>1
<1>4. Eq(f)
  <2> HIDE DEF B
  <2> QED BY <1>3 DEF Below
<1>5. Eq(g)
  <2> HIDE DEF Eq
  <2> QED BY <1>4
<1>6. \A m : tenantBound(m, ts, target, want) = g[m]
  BY DEF tenantBound, Walk
<1>7. \A m \in Trees : g[m] = B(m, [i \in DOMAIN m.ch |-> g[m.ch[i]]])
  <2> HIDE DEF B, g
  <2> QED BY <1>5
<1> HIDE DEF g
<1>8. g[n] = B(n, [i \in DOMAIN n.ch |-> tenantBound(n.ch[i], ts, target, want)])
  <2> HIDE DEF B
  <2> QED BY <1>6, <1>7
<1>9. tenantBound(n, ts, target, want) = g[n]
  BY <1>6
<1> QED BY <1>8, <1>9

Truths == {"t", "f", "u"}

LEMMA TruthTypes ==
  /\ \A a, op, b : Compares(a, op, b) \in Truths
  /\ \A vs : All(vs) \in Truths /\ Some(vs) \in Truths
  /\ \A v : Not(v) \in Truths
  /\ \A b : Truth(b) \in Truths
<1>1. \A b : Truth(b) \in Truths
  BY DEF Truth, Truths
<1>2. \A a, op, b : Compares(a, op, b) \in Truths
  BY <1>1 DEF Compares, Truths
<1>3. \A vs : All(vs) \in Truths /\ Some(vs) \in Truths
  BY DEF All, Some, Truths
<1>4. ASSUME NEW v PROVE Not(v) \in Truths
  BY DEF Not, Truths
<1> QED BY <1>1, <1>2, <1>3, <1>4

LEMMA NodeHoldsType ==
  \A n, ch, ts, rows : NodeHolds(n, ch, ts, rows) \in Truths
<1> SUFFICES ASSUME NEW n, NEW ch, NEW ts, NEW rows PROVE NodeHolds(n, ch, ts, rows) \in Truths
  OBVIOUS
<1>1. "t" \in Truths
  BY DEF Truths
<1> QED BY <1>1, TruthTypes DEF NodeHolds

LEMMA HoldsUnfolds ==
  ASSUME NEW ts, NEW rows
  PROVE  \A n \in Trees :
           /\ Holds(n, ts, rows) \in Truths
           /\ Holds(n, ts, rows) = NodeHolds(n, Range([i \in DOMAIN n.ch |-> Holds(n.ch[i], ts, rows)]), ts, rows)
<1> DEFINE B(m, ch) == NodeHolds(m, Range(ch), ts, rows)
           step == [p \in Trees \X Seq(Truths) |-> B(p[1], p[2])]
           Eq(f) == f = [m \in Trees |-> B(m, [i \in DOMAIN m.ch |-> f[m.ch[i]]])]
           g == CHOOSE f : Eq(f)
<1>1. "t" \in Truths /\ step \in [Trees \X Seq(Truths) -> Truths]
  <2>1. \A m, ch : B(m, ch) \in Truths
    BY NodeHoldsType
  <2> HIDE DEF B
  <2> QED BY <2>1 DEF Truths
<1>2. PICK f \in [Trees -> Truths] : \A m \in Trees : f[m] = step[<<m, Below(m, f)>>]
  <2> HIDE DEF step
  <2> QED BY <1>1, WalkExists
<1>3. \A m \in Trees : f[m] = B(m, Below(m, f))
  <2> HIDE DEF B
  <2>1. \A m \in Trees : Below(m, f) \in Seq(Truths)
    BY BelowType
  <2> QED BY <1>2, <2>1
<1>4. Eq(f)
  <2> HIDE DEF B
  <2> QED BY <1>3 DEF Below
<1>5. Eq(g)
  <2> HIDE DEF Eq
  <2> QED BY <1>4
<1>6. \A m : Holds(m, ts, rows) = g[m]
  BY DEF Holds, Walk
<1>7. \A m \in Trees : g[m] = B(m, [i \in DOMAIN m.ch |-> g[m.ch[i]]])
  <2> HIDE DEF B, g
  <2> QED BY <1>5
<1> HIDE DEF g
<1>8. \A n \in Trees : g[n] = B(n, [i \in DOMAIN n.ch |-> Holds(n.ch[i], ts, rows)])
  <2> HIDE DEF B
  <2> QED BY <1>6, <1>7
<1>9. \A n \in Trees : g[n] \in Truths
  BY <1>8, NodeHoldsType
<1> QED BY <1>6, <1>8, <1>9

(***************************************************************************)
(* The tenant.  A condition bound to a tenant is true of rows of that      *)
(* tenant only.                                                            *)
(***************************************************************************)
LEMMA TargetsAgree ==
  ASSUME NEW tables, NEW pols, NEW others, NEW ref
  PROVE  tenantResolve(ref, Targets(tables, pols)) = tenantResolve(ref, Targets(tables, others))
<1> DEFINE fits(ts) == {i \in DOMAIN ts : ref[1] \in {"", ts[i].name} /\ tenantColumn(ts[i], ref[2])}
<1>1. DOMAIN Targets(tables, pols) = DOMAIN tables /\ DOMAIN Targets(tables, others) = DOMAIN tables
  BY DEF Targets
<1>2. \A i \in DOMAIN tables : /\ Targets(tables, pols)[i].name = Targets(tables, others)[i].name
                               /\ Targets(tables, pols)[i].cols = Targets(tables, others)[i].cols
  BY DEF Targets, Target
<1>3. fits(Targets(tables, pols)) = fits(Targets(tables, others))
  BY <1>1, <1>2 DEF tenantColumn
<1> DEFINE one(F) == IF scopeColumn(ref) /\ Cardinality(F) = 1 THEN CHOOSE i \in F : TRUE ELSE 0
<1>4. \A ts : tenantResolve(ref, ts) = one(fits(ts))
  BY DEF tenantResolve
<1> HIDE DEF fits, one
<1> QED BY <1>3, <1>4

LEMMA EqualMeans ==
  ASSUME NEW a, NEW v, v # Nil, Compares(a, "=", SqlValue(v)) = "t"
  PROVE  a = v[2]
BY DEF Compares, Truth, SqlValue

LEMMA BoundHolds ==
  ASSUME NEW ts, NEW us, \A ref : tenantResolve(ref, ts) = tenantResolve(ref, us),
         NEW rows, NEW target, NEW want
  PROVE  \A n \in Trees : (tenantBound(n, ts, target, want) /\ Holds(n, us, rows) = "t")
                          => rows[target][ts[target].policy.tenant] = want
<1> DEFINE Goal == rows[target][ts[target].policy.tenant] = want
           bound(n) == tenantBound(n, ts, target, want)
           holds(n) == Holds(n, us, rows)
           S == {n \in Trees : bound(n) /\ holds(n) = "t" => Goal}
<1>1. ASSUME NEW n \in Trees, \A i \in DOMAIN n.ch : n.ch[i] \in S, bound(n), holds(n) = "t"
      PROVE  Goal
  <2> DEFINE bs == [i \in DOMAIN n.ch |-> bound(n.ch[i])]
             hs == [i \in DOMAIN n.ch |-> holds(n.ch[i])]
  <2>1. NodeBound(n, bs, BindsTenant(n, ts, target, want))
    BY <1>1, BoundUnfolds
  <2>2. NodeHolds(n, Range(hs), us, rows) = "t"
    BY <1>1, HoldsUnfolds
  <2>3. \A i \in DOMAIN n.ch : /\ hs[i] = holds(n.ch[i]) /\ holds(n.ch[i]) \in Truths
                               /\ (bs[i] <=> bound(n.ch[i]))
                               /\ (bound(n.ch[i]) /\ holds(n.ch[i]) = "t" => Goal)
    <3>1. \A m \in S : m \in Trees /\ (bound(m) /\ holds(m) = "t" => Goal)
      OBVIOUS
    <3>2. \A m \in Trees : holds(m) \in Truths
      BY HoldsUnfolds
    <3> HIDE DEF bound, holds, Goal, S
    <3> QED BY <1>1, <3>1, <3>2
  <2>4. DOMAIN hs = DOMAIN n.ch /\ DOMAIN bs = DOMAIN n.ch /\ DOMAIN n.ch = 1..Len(n.ch) /\ Len(bs) = Len(n.ch)
    <3>1. n.ch \in Seq(Trees)
      BY TreeChildren
    <3>2. DOMAIN hs = DOMAIN n.ch /\ DOMAIN bs = DOMAIN n.ch
      OBVIOUS
    <3> HIDE DEF bs, hs
    <3>3. Len(n.ch) \in Nat /\ DOMAIN n.ch = 1..Len(n.ch)
      BY <3>1
    <3> QED BY <3>2, <3>3
  <2> HIDE DEF bs, hs, bound, holds, Goal
  <2>5. Range(hs) = {hs[i] : i \in DOMAIN n.ch}
    BY <2>4 DEF Range
  <2>6. CASE n.kind \in {"group", "and"}
    <3>1. \E i \in DOMAIN n.ch : bs[i]
      <4>1. CASE n.kind = "group"
        <5>1. Len(n.ch) = 1 /\ bs[1]
          BY <2>1, <2>4, <4>1 DEF NodeBound
        <5>2. 1 \in DOMAIN n.ch
          BY <5>1, <2>4
        <5> QED BY <5>1, <5>2
      <4>2. CASE n.kind = "and"
        BY <2>1, <2>4, <4>2 DEF NodeBound
      <4> QED BY <2>6, <4>1, <4>2
    <3>2. All(Range(hs)) = "t"
      BY <2>2, <2>6 DEF NodeHolds
    <3>3. \A i \in DOMAIN n.ch : hs[i] = "t"
      BY <3>2, <2>3, <2>5 DEF All, Truths
    <3> QED BY <3>1, <3>3, <2>3
  <2>7. CASE n.kind = "or"
    <3>1. \A i \in DOMAIN n.ch : bs[i]
      BY <2>1, <2>4, <2>7 DEF NodeBound
    <3>2. Some(Range(hs)) = "t"
      BY <2>2, <2>7 DEF NodeHolds
    <3>3. \E i \in DOMAIN n.ch : hs[i] = "t"
      BY <3>2, <2>5 DEF Some
    <3> QED BY <3>1, <3>3, <2>3
  <2>8. CASE n.kind = "comparison"
    <3>1. BindsTenant(n, ts, target, want)
      BY <2>1, <2>8 DEF NodeBound
    <3>2. /\ tenantResolve(n.col, us) = target /\ n.col[2] = ts[target].policy.tenant
          /\ n.op = "=" /\ n.vals[1] # Nil /\ n.vals[1][2] = want
      BY <3>1 DEF BindsTenant, scopeInteger, Nil
    <3>3. NodeHolds(n, Range(hs), us, rows)
            = Compares(rows[tenantResolve(n.col, us)][n.col[2]], n.op, SqlValue(n.vals[1]))
      BY <2>8 DEF NodeHolds
    <3>4. Compares(rows[target][ts[target].policy.tenant], "=", SqlValue(n.vals[1])) = "t"
      BY <2>2, <3>2, <3>3
    <3> QED BY <3>2, <3>4, EqualMeans DEF Goal
  <2>9. n.kind \in {"group", "and", "or", "comparison"}
    BY <2>1 DEF NodeBound
  <2> QED BY <2>6, <2>7, <2>8, <2>9
<1>2. \A n \in Trees : (\A i \in DOMAIN n.ch : n.ch[i] \in S) => n \in S
  <2> HIDE DEF Goal, bound, holds
  <2> QED BY <1>1
<1>3. \A n \in Trees : n \in S
  <2> HIDE DEF S
  <2> QED BY <1>2, TreeInduction
<1> QED BY <1>3

(***************************************************************************)
(* The inductive invariant.  A query keeps the settings and the policy it  *)
(* was made with; a sealed plan is what its builder made of that query,    *)
(* and an open gate says what the rules found and how it was answered.     *)
(***************************************************************************)
IsSeq(s) == s \in Seq(Range(s))
QueryFields == {"settings", "alias", "policy", "conds", "join", "cols", "err", "approval", "sups",
                "required", "deleted", "keys", "options"}
PlanFields == {"op", "stmt", "tables", "join", "where", "src", "cols", "limit", "unverified", "meta",
               "scope", "evidence", "tenantEvidence", "warnings", "suppressed", "level", "blocked",
               "requiredApproval", "approval"}
MetaFields == {"required", "returning", "deleted", "policyTable"}
SealFields == {"pub", "inspection", "stmt", "at", "gate", "expires"}

OnePerTable(policies) == \A a, b \in policies : a.table = b.table => a = b

(* The form of a query k                                                   *)
QueryOK(k) ==
    /\ DOMAIN k = QueryFields
    /\ k.settings.strict \in BOOLEAN
    /\ k.settings.dbkeys \subseteq Seq(DOMAIN Columns("orders"))
    /\ \A code \in DOMAIN k.settings.risk : k.settings.risk[code].severity \in {""} \cup Range(Levels)
    /\ OnePerTable(k.settings.policies)
    /\ k.policy = PolicyForTable(k.settings.policies, "orders")
    /\ IsSeq(k.conds) /\ IsSeq(k.sups) /\ IsSeq(k.join) /\ k.options \in Nat
    /\ k.keys \subseteq {Key(c) : c \in k.settings.dbkeys}

(* A statement a query k may become                                        *)
StatementOK(stmt, k) ==
    /\ stmt.op # "raw" => stmt.raw = ""
    /\ stmt.tables = Tables(k) /\ stmt.join = k.join
    /\ k.settings.strict /\ stmt.op = "update" => k.policy.tenant \notin DOMAIN stmt.rows[1]
    /\ k.settings.strict /\ stmt.op = "insert" =>
         tenantRows(k, stmt.rows, stmt.conflict) /\ IsSeq(stmt.rows) /\ IsSeq(stmt.conflict)

(* A plan that describes its statement                                     *)
PlanShape(p) ==
    /\ DOMAIN p = PlanFields /\ DOMAIN p.meta = MetaFields
    /\ p.op = p.stmt.op /\ p.tables = p.stmt.tables /\ p.join = p.stmt.join
    /\ p.where = p.stmt.where /\ p.src = p.stmt.where
    /\ p.evidence # <<>> => p.op \in {"update", "delete"}

(* Severity, Lowered and Answered of a plan x of a query k, as sealed      *)
ConfiguredIn(k, code) == code \in DOMAIN k.settings.risk
SeverityIn(k, code, level) ==
    IF ConfiguredIn(k, code) /\ k.settings.risk[code].severity # ""
    THEN k.settings.risk[code].severity ELSE level
LoweredIn(k, code, level) ==
    \/ ConfiguredIn(k, code) /\ ~k.settings.risk[code].enabled
    \/ compareRisk(SeverityIn(k, code, level), "high") < 0
SuppressedIn(k, code, at) ==
    \E i \in DOMAIN k.sups : k.sups[i].code = code /\ ~Expired(k.sups[i].expires, at)
ApprovedIn(p) == p.requiredApproval /\ p.approval.given
SuppressibleIn(k, code, supp) == IF ConfiguredIn(k, code) THEN Overridden(supp, k.settings.risk[code].supp) ELSE supp
AnsweredIn(p, k, at, code, level, supp) ==
    \/ LoweredIn(k, code, level)
    \/ ApprovedIn(p) /\ SeverityIn(k, code, level) # "blocked"
    \/ SuppressedIn(k, code, at) /\ SuppressibleIn(k, code, supp)

Weak(s) == s.raw = "weak" \/ \E n \in inspectionPredicates(s.where) : n.opaque = "weak"
RiskFacts(p, k, at) ==
    LET s == p.stmt IN
    /\ s.op = "update" /\ s.where = NoTree => AnsweredIn(p, k, at, "UPDATE_WITHOUT_WHERE", "blocked", FALSE)
    /\ s.op = "delete" /\ s.where = NoTree => AnsweredIn(p, k, at, "DELETE_WITHOUT_WHERE", "blocked", FALSE)
    /\ Weak(s) => AnsweredIn(p, k, at, "WEAK_PREDICATE", "high", TRUE)
    /\ s.op = "raw" => ~k.settings.strict /\ (ApprovedIn(p) \/ LoweredIn(k, "RAW_SQL_USED", "high"))
    /\ s.raw = "drop" => ApprovedIn(p) \/ LoweredIn(k, "DESTRUCTIVE_SQL_DETECTED", "destructive")

PolicyFacts(p, k) ==
    (~k.settings.strict /\ p.stmt.op \in {"select", "update", "delete"}) =>
       /\ \A policy \in k.settings.policies :
             (/\ policy.tenant # "" /\ \E t \in Range(p.stmt.tables) : t.table = policy.table
              /\ ~Mentions(p.stmt.where, policy.tenant))
             => policy.tmode # "block" /\ ApprovedIn(p)
       /\ \A r \in k.required : Mentions(p.stmt.where, r[2])

TenantFacts(p, k) ==
    LET ts == Targets(p.tables, k.settings.policies) IN
    /\ p.op # "raw" /\ ~TargetsFail(k.settings, p.tables) /\ comparableWriteView(p)
    /\ p.op # "select" => p.join = <<>>
    /\ \A i \in DOMAIN p.join : p.join[i].type \in {"inner", "left"}
    /\ p.op # "insert" =>
         \A i \in DOMAIN ts : ts[i].policy.tenant # "" => BoundSomewhere(p, ts, i, k.settings.tenant[2])

EvidenceFacts(p, k) ==
    /\ k.settings.strict =>
         /\ p.tenantEvidence # <<>>
         /\ ~p.tenantEvidence[1].failed => p.tenantEvidence[1].view = writeView(p) /\ TenantFacts(p, k)
    /\ p.evidence # <<>> =>
         p.evidence[1].keys = k.keys /\ (~p.evidence[1].failed => p.evidence[1].view = writeView(p))

(* A sealed plan x of a query k                                            *)
PlanOK(x, k) ==
    /\ DOMAIN x = SealFields /\ DOMAIN x.pub = PlanFields
    /\ PlanShape(x.inspection) /\ StatementOK(x.inspection.stmt, k) /\ x.stmt = x.inspection.stmt
    /\ x.pub.approval = x.inspection.approval /\ x.pub.evidence = x.inspection.evidence
    /\ x.pub.tenantEvidence = x.inspection.tenantEvidence
    /\ x.expires = IF x.inspection.requiredApproval THEN x.inspection.approval.expires ELSE 0
    /\ EvidenceFacts(x.inspection, k)
    /\ x.gate => /\ checkTenantEvidence(x.inspection)
                 /\ RiskFacts(x.inspection, k, x.at) /\ PolicyFacts(x.inspection, k)

IInv ==
    /\ OnePerTable(registry)
    /\ plan # <<>> => query # <<>>
    /\ ran # <<>> => plan # <<>>
    /\ ran = <<>> => \A r \in db : DOMAIN r = DOMAIN Columns("orders")
    /\ query # <<>> /\ ran = <<>> => \A c \in q.settings.dbkeys : Unique(db, c)
    /\ query # <<>> => QueryOK(q)
    /\ plan # <<>> => PlanOK(plan[1], q)
    /\ TenantIsolation /\ RiskIsGoverned

(***************************************************************************)
(* Risk levels, findings and suppressions.                                 *)
(***************************************************************************)
LEMMA Ranks ==
  /\ riskRank("low") = 1 /\ riskRank("medium") = 2 /\ riskRank("high") = 3
  /\ riskRank("destructive") = 4 /\ riskRank("blocked") = 5
<1>1. DOMAIN Levels = 1..5
  BY DEF Levels
<1>2. /\ Levels[1] = "low" /\ Levels[2] = "medium" /\ Levels[3] = "high"
      /\ Levels[4] = "destructive" /\ Levels[5] = "blocked"
  BY DEF Levels
<1>3. ASSUME NEW l, NEW i \in 1..5, Levels[i] = l, \A j \in 1..5 : Levels[j] = l => j = i
      PROVE  riskRank(l) = i
  BY <1>1, <1>3 DEF riskRank
<1>4. \A j \in 1..5 : j = 1 \/ j = 2 \/ j = 3 \/ j = 4 \/ j = 5
  OBVIOUS
<1> QED BY <1>2, <1>3, <1>4

IsLevel(l) == l \in Range(Levels)

LEMMA LevelNames ==
  ASSUME NEW l, IsLevel(l)
  PROVE  /\ l \in {"low", "medium", "high", "destructive", "blocked"}
         /\ riskRank(l) \in 1..5 /\ Levels[riskRank(l)] = l
<1>1. DOMAIN Levels = 1..5 /\ Range(Levels) = {"low", "medium", "high", "destructive", "blocked"}
  BY DEF Levels, Range
<1>2. /\ Levels[1] = "low" /\ Levels[2] = "medium" /\ Levels[3] = "high"
      /\ Levels[4] = "destructive" /\ Levels[5] = "blocked"
  BY DEF Levels
<1> QED BY <1>1, <1>2, Ranks DEF IsLevel

\* The aggregate is a level, and no warning's level is above it.
LEMMA AggregateBounds ==
  ASSUME NEW ws, \A w \in ws : IsLevel(w.level)
  PROVE  /\ IsLevel(aggregateWarnings(ws))
         /\ \A w \in ws : riskRank(w.level) <= riskRank(aggregateWarnings(ws))
<1> DEFINE Top(i) == /\ i = 1 \/ \E w \in ws : riskRank(w.level) = i
                     /\ \A w \in ws : riskRank(w.level) <= i
           top == CHOOSE i \in DOMAIN Levels : Top(i)
<1>1. DOMAIN Levels = 1..5
  BY DEF Levels
<1>2. \A w \in ws : riskRank(w.level) \in 1..5
  BY LevelNames
<1>3. \E i \in 1..5 : Top(i)
  <2> DEFINE has(i) == \E w \in ws : riskRank(w.level) = i
  <2>1. CASE has(5)
    BY <2>1, <1>2
  <2>2. CASE ~has(5) /\ has(4)
    <3>1. \A w \in ws : riskRank(w.level) <= 4
      BY <2>2, <1>2
    <3> QED BY <3>1, <2>2
  <2>3. CASE ~has(5) /\ ~has(4) /\ has(3)
    <3>1. \A w \in ws : riskRank(w.level) <= 3
      BY <2>3, <1>2
    <3> QED BY <3>1, <2>3
  <2>4. CASE ~has(5) /\ ~has(4) /\ ~has(3) /\ has(2)
    <3>1. \A w \in ws : riskRank(w.level) <= 2
      BY <2>4, <1>2
    <3> QED BY <3>1, <2>4
  <2>5. CASE ~has(5) /\ ~has(4) /\ ~has(3) /\ ~has(2)
    <3>1. \A w \in ws : riskRank(w.level) <= 1
      BY <2>5, <1>2
    <3> QED BY <3>1
  <2> QED BY <2>1, <2>2, <2>3, <2>4, <2>5
<1>4. top \in 1..5 /\ Top(top)
  <2> HIDE DEF Top
  <2> QED BY <1>1, <1>3
<1>5. aggregateWarnings(ws) = Levels[top]
  BY DEF aggregateWarnings
<1> HIDE DEF top
<1>6. riskRank(Levels[top]) = top /\ IsLevel(Levels[top])
  <2>1. /\ Levels[1] = "low" /\ Levels[2] = "medium" /\ Levels[3] = "high"
        /\ Levels[4] = "destructive" /\ Levels[5] = "blocked"
    BY DEF Levels
  <2>2. top = 1 \/ top = 2 \/ top = 3 \/ top = 4 \/ top = 5
    BY <1>4
  <2>3. riskRank(Levels[top]) = top
    BY <2>1, <2>2, Ranks
  <2> HIDE DEF Top
  <2>4. IsLevel(Levels[top])
    BY <1>1, <1>4 DEF IsLevel, Range
  <2> QED BY <2>3, <2>4
<1> QED BY <1>4, <1>5, <1>6

\* What suppressions can do to a warning: the first one of its code silences
\* it when it has not expired and the warning allows it.
LEMMA SuppressedMeans ==
  ASSUME NEW w, NEW sups, IsSeq(sups), NEW now, Fate(w, sups, now) = "suppressed"
  PROVE  w.supp /\ \E i \in DOMAIN sups : sups[i].code = w.code /\ ~Expired(sups[i].expires, now)
<1> DEFINE hits == {i \in DOMAIN sups : sups[i].code = w.code}
           first == CHOOSE i \in hits : \A j \in hits : i <= j
<1>1. findSuppression(w.code, sups) = IF hits = {} THEN <<>> ELSE <<sups[first]>>
  BY DEF findSuppression
<1>2. hits \in SUBSET Nat
  <2>1. DOMAIN sups \subseteq Nat
    BY DEF IsSeq
  <2> QED BY <2>1
<1>3. /\ findSuppression(w.code, sups) # <<>>
      /\ ~Expired(findSuppression(w.code, sups)[1].expires, now) /\ w.supp
  BY DEF Fate
<1> HIDE DEF hits
<1>4. hits # {}
  BY <1>1, <1>3
<1>5. first \in hits
  BY <1>2, <1>4, Least
<1> HIDE DEF first
<1>6. findSuppression(w.code, sups)[1] = sups[first]
  BY <1>1, <1>4
<1>7. first \in DOMAIN sups /\ sups[first].code = w.code
  BY <1>5 DEF hits
<1> QED BY <1>3, <1>6, <1>7

LEMMA IsALevel ==
  IsLevel("low") /\ IsLevel("medium") /\ IsLevel("high") /\ IsLevel("destructive") /\ IsLevel("blocked")
<1>1. DOMAIN Levels = 1..5
  BY DEF Levels
<1>2. /\ Levels[1] = "low" /\ Levels[2] = "medium" /\ Levels[3] = "high"
      /\ Levels[4] = "destructive" /\ Levels[5] = "blocked"
  BY DEF Levels
<1>3. \A i \in 1..5 : IsLevel(Levels[i])
  BY <1>1 DEF IsLevel, Range
<1> QED BY <1>2, <1>3

LEMMA RuleLevels ==
  \A p : \A w \in RiskRules(p) : IsLevel(w.level)
BY IsALevel DEF RiskRules, WriteRule, newWarning

LEMMA CheckQueryLevels ==
  ASSUME NEW p, NEW config, \A code \in DOMAIN config : config[code].severity \in {""} \cup Range(Levels)
  PROVE  \A w \in CheckQuery(p, config) : IsLevel(w.level)
<1> DEFINE made(w) == IF w.code \in DOMAIN config
              THEN newWarning(w.code, IF config[w.code].severity = "" THEN w.level ELSE config[w.code].severity,
                              Overridden(w.supp, config[w.code].supp))
              ELSE w
<1>1. ASSUME NEW v \in CheckQuery(p, config) PROVE \E w \in RiskRules(p) : v = made(w)
  BY <1>1 DEF CheckQuery, applyRiskConfig
<1>2. ASSUME NEW w \in RiskRules(p) PROVE IsLevel(made(w).level)
  <2>1. IsLevel(w.level)
    BY RuleLevels
  <2>2. CASE w.code \in DOMAIN config
    <3>1. made(w).level = IF config[w.code].severity = "" THEN w.level ELSE config[w.code].severity
      BY <2>2 DEF newWarning
    <3> HIDE DEF made
    <3> QED BY <2>1, <2>2, <3>1 DEF IsLevel
  <2>3. CASE w.code \notin DOMAIN config
    BY <2>1, <2>3
  <2> QED BY <2>2, <2>3
<1> HIDE DEF made
<1> QED BY <1>1, <1>2

LEMMA PolicyLevels ==
  /\ \A mode : IsLevel(policyModeLevel(mode, "high")) /\ IsLevel(policyModeLevel(mode, "medium"))
  /\ \A mode : policyModeLevel(mode, "high") = IF mode = "block" THEN "blocked" ELSE "high"
<1>1. compareRisk("high", "high") = 0
  BY Ranks DEF compareRisk
<1> QED BY <1>1, IsALevel DEF policyModeLevel

LEMMA CheckPolicyLevels ==
  ASSUME NEW p, NEW extra, NEW policies
  PROVE  \A w \in checkPolicies(p, extra, policies) \cup checkRequiredPredicates(p) : IsLevel(w.level)
<1>1. \A policy, ambiguous : \A w \in checkPolicyWithContext(p, policy, ambiguous) : IsLevel(w.level)
  <2>1. \A code, l, supp : policyWarning(code, l, supp).level = l
    BY DEF policyWarning, newWarning
  <2>2. ASSUME NEW policy, NEW ambiguous, NEW w \in checkPolicyWithContext(p, policy, ambiguous)
        PROVE  \E mode : w.level \in {policyModeLevel(mode, "high"), policyModeLevel(mode, "medium")}
    <3>1. \E code, supp, mode : \E l \in {policyModeLevel(mode, "high"), policyModeLevel(mode, "medium")} :
             w = policyWarning(code, l, supp)
      BY <2>2, Zenon DEF checkPolicyWithContext
    <3> QED BY <2>1, <3>1
  <2> QED BY <2>2, PolicyLevels
<1>2. \A w \in checkPolicies(p, extra, policies) : IsLevel(w.level)
  BY <1>1 DEF checkPolicies
<1>3. \A w \in checkRequiredPredicates(p) : IsLevel(w.level)
  BY IsALevel DEF checkRequiredPredicates, newWarning
<1> QED BY <1>2, <1>3

\* A warning of a judged plan that is not blocked was silenced, or it is not
\* a blocking one and, from high on, the plan asks for an approval.
LEMMA JudgedKeeps ==
  ASSUME NEW p, DOMAIN p = PlanFields, NEW s, NEW ws, NEW sups,
         \A w \in ws : IsLevel(w.level), ~Judged(p, s, ws, sups).blocked, NEW w \in ws
  PROVE  \/ Fate(w, sups, clock) = "suppressed"
         \/ /\ w.level # "blocked"
            /\ compareRisk(w.level, "high") >= 0 => Judged(p, s, ws, sups).requiredApproval
<1> DEFINE a == applySuppressions(ws, sups, clock)
           kept == a.kept \cup a.said
           level == aggregateWarnings(kept)
           j == Judged(p, s, ws, sups)
<1>1. j.blocked = (level = "blocked") /\ j.requiredApproval = requiresApprovalLevel(level)
  BY DEF Judged, PlanFields
<1>2. \A v \in kept : IsLevel(v.level)
  <2>1. a.kept \subseteq ws
    BY DEF applySuppressions
  <2>2. \A v \in a.said : v.level = "medium"
    BY DEF applySuppressions, newWarning
  <2> HIDE DEF a
  <2> QED BY <2>1, <2>2, IsALevel
<1>3. Fate(w, sups, clock) # "suppressed" => w \in kept
  BY DEF applySuppressions
<1> HIDE DEF kept
<1>4. SUFFICES ASSUME w \in kept
      PROVE /\ w.level # "blocked"
            /\ compareRisk(w.level, "high") >= 0 => j.requiredApproval
  BY <1>3
<1>5. riskRank(w.level) <= riskRank(level) /\ IsLevel(level) /\ IsLevel(w.level)
  BY <1>2, <1>4, AggregateBounds
<1> HIDE DEF level
<1>6. level # "blocked"
  BY <1>1
<1>7. riskRank(level) \in 1..5 /\ riskRank(w.level) \in 1..5 /\ riskRank(level) # 5
  BY <1>5, <1>6, LevelNames, Ranks
<1>8. w.level # "blocked"
  BY <1>5, <1>7, Ranks
<1>9. ASSUME compareRisk(w.level, "high") >= 0 PROVE requiresApprovalLevel(level)
  BY <1>5, <1>6, <1>7, <1>9, Ranks DEF compareRisk, requiresApprovalLevel
<1> HIDE DEF j
<1> QED BY <1>1, <1>8, <1>9

(***************************************************************************)
(* The stages of finalizePlan: none touches what the plan is about.        *)
(***************************************************************************)
Kept(a, b) ==
    /\ DOMAIN b = PlanFields /\ DOMAIN b.meta = MetaFields
    /\ b.op = a.op /\ b.stmt = a.stmt /\ b.tables = a.tables /\ b.join = a.join
    /\ b.where = a.where /\ b.src = a.src /\ b.cols = a.cols /\ b.unverified = a.unverified

LEMMA KeptViews ==
  ASSUME NEW a, NEW b, Kept(a, b)
  PROVE  writeView(b) = writeView(a) /\ (comparableWriteView(b) <=> comparableWriteView(a))
BY DEF Kept, writeView, comparableWriteView

LEMMA KeptShape ==
  ASSUME NEW a, NEW b, Kept(a, b), PlanShape(a), b.evidence # <<>> => b.op \in {"update", "delete"}
  PROVE  PlanShape(b)
BY DEF Kept, PlanShape

LEMMA MetadataKeeps ==
  ASSUME NEW p, DOMAIN p = PlanFields, DOMAIN p.meta = MetaFields, NEW k
  PROVE  LET r == applyPolicyMetadata(p, k) IN
         Kept(p, r) /\ r.meta.required = k.required /\ r.evidence = p.evidence
<1> DEFINE r == applyPolicyMetadata(p, k)
           m == [p.meta EXCEPT !.required = k.required, !.policyTable = k.policy.table,
                               !.deleted = IF k.policy = NoPolicy THEN "" ELSE k.deleted]
<1>1. DOMAIN m = MetaFields /\ m.required = k.required
  BY DEF MetaFields
<1>2. DOMAIN r = PlanFields /\ r.meta = m
  BY DEF applyPolicyMetadata, PlanFields
<1>3. /\ r.op = p.op /\ r.stmt = p.stmt /\ r.tables = p.tables /\ r.join = p.join /\ r.where = p.where
      /\ r.src = p.src /\ r.cols = p.cols /\ r.unverified = p.unverified /\ r.evidence = p.evidence
  BY DEF applyPolicyMetadata, PlanFields
<1> HIDE DEF r, m
<1> QED BY <1>1, <1>2, <1>3 DEF Kept, r

LEMMA SealKeeps ==
  ASSUME NEW p, DOMAIN p = PlanFields, DOMAIN p.meta = MetaFields, NEW keys,
         p.evidence # <<>> => p.op \in {"update", "delete"}
  PROVE  LET r == sealWriteEvidence(p, keys) IN
         /\ Kept(p, r) /\ r.meta = p.meta
         /\ r.evidence # <<>> =>
              /\ r.op \in {"update", "delete"} /\ r.evidence[1].keys = keys
              /\ ~r.evidence[1].failed => r.evidence[1].view = writeView(r)
<1> DEFINE r == sealWriteEvidence(p, keys)
<1>1. CASE p.op \notin {"update", "delete"}
  BY <1>1 DEF sealWriteEvidence, Kept
<1>2. CASE p.op \in {"update", "delete"}
  <2> DEFINE e == [view |-> writeView(p), keys |-> keys, failed |-> ~comparableWriteView(p)]
  <2>1. r = [p EXCEPT !.evidence = <<e>>]
    BY <1>2 DEF sealWriteEvidence
  <2> HIDE DEF r, e
  <2>2. Kept(p, r) /\ r.meta = p.meta /\ r.evidence = <<e>>
    BY <2>1 DEF Kept, PlanFields
  <2>3. writeView(r) = writeView(p) /\ r.op = p.op
    BY <2>2, KeptViews DEF Kept
  <2>4. e.view = writeView(p) /\ e.keys = keys
    BY DEF e
  <2> QED BY <1>2, <2>2, <2>3, <2>4 DEF r
<1> QED BY <1>1, <1>2

LEMMA BlockedKeeps ==
  ASSUME NEW p, DOMAIN p = PlanFields, DOMAIN p.meta = MetaFields, NEW code
  PROVE  LET r == Blocked(p, code) IN
         /\ Kept(p, r) /\ r.blocked /\ r.meta = p.meta /\ r.evidence = p.evidence
         /\ r.tenantEvidence = p.tenantEvidence
         /\ r.requiredApproval = p.requiredApproval /\ r.approval = p.approval
BY DEF Blocked, Kept, PlanFields

\* The plan the rules see: with its scope.
Scoped(p) == IF p.op \in {"update", "delete"} THEN [p EXCEPT !.scope = AnalyzeWriteScope(p)] ELSE p
Findings(p, policy, s) ==
    CheckQuery(p, s.risk) \cup checkRequiredPredicates(p)
      \cup (IF s.strict THEN {} ELSE checkPolicies(p, policy, s.policies))

LEMMA ScopedKeeps ==
  ASSUME NEW p, DOMAIN p = PlanFields, DOMAIN p.meta = MetaFields
  PROVE  /\ Kept(p, Scoped(p)) /\ Scoped(p).meta = p.meta /\ Scoped(p).evidence = p.evidence
         /\ Scoped(p).tenantEvidence = p.tenantEvidence
BY DEF Scoped, Kept, PlanFields

Approving(j, approval) == [j EXCEPT !.approval = approval]

LEMMA JudgedFields ==
  \A p, s, ws, sups, approval :
     DOMAIN p = PlanFields /\ DOMAIN p.meta = MetaFields =>
        /\ Kept(p, Approving(Judged(p, s, ws, sups), approval))
        /\ Approving(Judged(p, s, ws, sups), approval).evidence = p.evidence
        /\ Approving(Judged(p, s, ws, sups), approval).blocked <=> Judged(p, s, ws, sups).blocked
        /\ Approving(Judged(p, s, ws, sups), approval).requiredApproval <=> Judged(p, s, ws, sups).requiredApproval
        /\ Approving(Judged(p, s, ws, sups), approval).approval = approval
BY DEF Judged, Kept, PlanFields, Approving

LEMMA KeptTrans ==
  ASSUME NEW a, NEW b, NEW c, Kept(a, b), Kept(b, c)
  PROVE  Kept(a, c)
BY DEF Kept

RawStrict(p, s) == s.strict /\ p.op = "raw"

LEMMA SettingsJudge ==
  ASSUME NEW p, DOMAIN p = PlanFields, DOMAIN p.meta = MetaFields,
         NEW approval, NEW sups, NEW policy, NEW s
  PROVE  LET r == finalizePlanWithSettings(p, approval, sups, policy, s)
             j == Judged(Scoped(p), s, Findings(Scoped(p), policy, s), sups) IN
         /\ Kept(p, r) /\ r.evidence = p.evidence
         /\ RawStrict(p, s) => r.tenantEvidence = <<[failed |-> TRUE, view |-> <<>>]>>
         /\ ~RawStrict(p, s) /\ ~r.blocked => /\ r.approval = approval /\ ~j.blocked
                                              /\ (r.requiredApproval <=> j.requiredApproval)
<1> DEFINE r == finalizePlanWithSettings(p, approval, sups, policy, s)
           j == Judged(Scoped(p), s, Findings(Scoped(p), policy, s), sups)
           e == <<[failed |-> TRUE, view |-> <<>>]>>
<1>1. CASE RawStrict(p, s)
  <2> DEFINE b == Blocked(p, "TENANT_POLICY_REJECTED")
  <2>1. r = [b EXCEPT !.tenantEvidence = e]
    BY <1>1 DEF finalizePlanWithSettings, RawStrict
  <2>2. Kept(p, b) /\ b.evidence = p.evidence
    BY BlockedKeeps
  <2> HIDE DEF r, e, b
  <2>3. Kept(b, r) /\ r.evidence = b.evidence /\ r.tenantEvidence = e
    BY <2>1, <2>2 DEF Kept, PlanFields
  <2>4. Kept(p, r)
    BY <2>2, <2>3, KeptTrans
  <2> QED BY <1>1, <2>2, <2>3, <2>4 DEF r, e
<1>2. CASE ~RawStrict(p, s) /\ s.err
  <2>1. r = Blocked(p, "UNSUPPORTED_RISK_ENGINE")
    BY <1>2 DEF finalizePlanWithSettings, RawStrict
  <2> HIDE DEF r
  <2>2. Kept(p, r) /\ r.evidence = p.evidence /\ r.blocked
    BY <2>1, BlockedKeeps
  <2> QED BY <1>2, <2>2 DEF r
<1>3. CASE ~RawStrict(p, s) /\ ~s.err
  <2>1. r = [j EXCEPT !.approval = approval]
    BY <1>3 DEF finalizePlanWithSettings, RawStrict, Scoped, Findings
  <2>2. Kept(p, Scoped(p)) /\ Scoped(p).meta = p.meta /\ Scoped(p).evidence = p.evidence
    BY ScopedKeeps
  <2>3. DOMAIN Scoped(p) = PlanFields /\ DOMAIN Scoped(p).meta = MetaFields
    BY <2>2 DEF Kept
  <2>4. /\ Kept(Scoped(p), r) /\ r.evidence = Scoped(p).evidence
        /\ (r.blocked <=> j.blocked) /\ (r.requiredApproval <=> j.requiredApproval) /\ r.approval = approval
    <3>1. r = Approving(j, approval)
      BY <2>1 DEF Approving
    <3> DEFINE sp == Scoped(p)
               ws == Findings(sp, policy, s)
    <3>2. DOMAIN sp = PlanFields /\ DOMAIN sp.meta = MetaFields
      BY <2>3
    <3>3. j = Judged(sp, s, ws, sups)
      OBVIOUS
    <3> HIDE DEF sp, ws, r, j
    <3>4. /\ Kept(sp, r) /\ r.evidence = sp.evidence
          /\ (r.blocked <=> j.blocked) /\ (r.requiredApproval <=> j.requiredApproval) /\ r.approval = approval
      <4> DEFINE i == Judged(sp, s, ws, sups)
      <4>1. /\ Kept(sp, Approving(i, approval)) /\ Approving(i, approval).evidence = sp.evidence
            /\ (Approving(i, approval).blocked <=> i.blocked)
            /\ (Approving(i, approval).requiredApproval <=> i.requiredApproval)
            /\ Approving(i, approval).approval = approval
        BY <3>2, JudgedFields
      <4>2. r = Approving(i, approval) /\ j = i
        BY <3>1, <3>3
      <4> HIDE DEF i
      <4> QED BY <4>1, <4>2
    <3> QED BY <3>4 DEF sp
  <2> HIDE DEF r, j
  <2>5. Kept(p, r)
    BY <2>2, <2>4, KeptTrans
  <2> QED BY <1>3, <2>2, <2>4, <2>5 DEF r, j
<1> QED BY <1>1, <1>2, <1>3

LEMMA FindingLevels ==
  ASSUME NEW k, QueryOK(k), NEW p, NEW policy
  PROVE  \A w \in Findings(p, policy, k.settings) : IsLevel(w.level)
<1>1. \A code \in DOMAIN k.settings.risk : k.settings.risk[code].severity \in {""} \cup Range(Levels)
  BY DEF QueryOK
<1>2. \A w \in CheckQuery(p, k.settings.risk) : IsLevel(w.level)
  BY <1>1, CheckQueryLevels
<1>3. \A w \in checkPolicies(p, policy, k.settings.policies) \cup checkRequiredPredicates(p) : IsLevel(w.level)
  BY CheckPolicyLevels
<1> QED BY <1>2, <1>3 DEF Findings

Settled(k, j, sups, code, level, supp) ==
    \/ LoweredIn(k, code, level)
    \/ j.requiredApproval /\ SeverityIn(k, code, level) # "blocked"
    \/ /\ \E i \in DOMAIN sups : sups[i].code = code /\ ~Expired(sups[i].expires, clock)
       /\ SuppressibleIn(k, code, supp)

\* A rule's finding on an unblocked plan: lowered by the settings, approved
\* of, or suppressed.
LEMMA FindingAnswered ==
  ASSUME NEW k, QueryOK(k), NEW p, DOMAIN p = PlanFields, NEW policy, NEW sups, IsSeq(sups),
         NEW j, j = Judged(p, k.settings, Findings(p, policy, k.settings), sups), ~j.blocked
  PROVE  \A code, level, supp : newWarning(code, level, supp) \in RiskRules(p) => Settled(k, j, sups, code, level, supp)
<1> SUFFICES ASSUME NEW code, NEW level, NEW supp, newWarning(code, level, supp) \in RiskRules(p)
             PROVE  \/ LoweredIn(k, code, level)
                    \/ j.requiredApproval /\ SeverityIn(k, code, level) # "blocked"
                    \/ /\ \E i \in DOMAIN sups : sups[i].code = code /\ ~Expired(sups[i].expires, clock)
                       /\ SuppressibleIn(k, code, supp)
  BY DEF Settled
<1> DEFINE config == k.settings.risk
           w == newWarning(code, level, supp)
           v == IF code \in DOMAIN config
                THEN newWarning(code, IF config[code].severity = "" THEN level ELSE config[code].severity,
                                Overridden(supp, config[code].supp))
                ELSE w
           ws == Findings(p, policy, k.settings)
<1>1. CASE ConfiguredIn(k, code) /\ ~k.settings.risk[code].enabled
  BY <1>1 DEF LoweredIn
<1>2. CASE ~(ConfiguredIn(k, code) /\ ~k.settings.risk[code].enabled)
  <2>0. w.code = code /\ w.level = level /\ w.supp = supp
    BY DEF newWarning
  <2>1. v \in CheckQuery(p, config)
    <3>1. w \in {x \in RiskRules(p) : x.code \in DOMAIN config => config[x.code].enabled}
      BY <1>2, <2>0 DEF ConfiguredIn
    <3>2. v = IF w.code \in DOMAIN config
              THEN newWarning(w.code, IF config[w.code].severity = "" THEN w.level ELSE config[w.code].severity,
                              Overridden(w.supp, config[w.code].supp))
              ELSE w
      BY <2>0
    <3> HIDE DEF v, w
    <3> QED BY <3>1, <3>2 DEF CheckQuery, applyRiskConfig
  <2>2. v.code = code /\ v.level = SeverityIn(k, code, level)
    BY <2>0 DEF SeverityIn, ConfiguredIn, newWarning
  <2>3. v.supp => SuppressibleIn(k, code, supp)
    BY <2>0 DEF ConfiguredIn, SuppressibleIn, newWarning
  <2> HIDE DEF v, w
  <2>4. v \in ws
    BY <2>1 DEF Findings
  <2>5. \A x \in ws : IsLevel(x.level)
    BY FindingLevels
  <2>6. \/ Fate(v, sups, clock) = "suppressed"
        \/ v.level # "blocked" /\ (compareRisk(v.level, "high") >= 0 => j.requiredApproval)
    <3> HIDE DEF ws
    <3>1. ~Judged(p, k.settings, ws, sups).blocked
      BY DEF ws
    <3>2. \/ Fate(v, sups, clock) = "suppressed"
          \/ v.level # "blocked"
             /\ (compareRisk(v.level, "high") >= 0 => Judged(p, k.settings, ws, sups).requiredApproval)
      BY <2>4, <2>5, <3>1, JudgedKeeps
    <3> QED BY <3>2 DEF ws
  <2>7. CASE Fate(v, sups, clock) = "suppressed"
    <3>1. v.supp /\ \E i \in DOMAIN sups : sups[i].code = v.code /\ ~Expired(sups[i].expires, clock)
      BY <2>7, SuppressedMeans
    <3> QED BY <3>1, <2>2, <2>3
  <2>8. CASE v.level # "blocked" /\ (compareRisk(v.level, "high") >= 0 => j.requiredApproval)
    <3>1. compareRisk(v.level, "high") \in Int
      BY <2>4, <2>5, LevelNames, Ranks DEF compareRisk
    <3>2. compareRisk(v.level, "high") >= 0 \/ compareRisk(v.level, "high") < 0
      BY <3>1
    <3> QED BY <3>2, <2>8, <2>2 DEF LoweredIn
  <2> QED BY <2>6, <2>7, <2>8
<1> QED BY <1>1, <1>2

LEMMA TenantPolicyKeeps ==
  ASSUME NEW p, DOMAIN p = PlanFields, DOMAIN p.meta = MetaFields, NEW s,
         NEW r, r = finalizeTenantPolicy(p, s)
  PROVE  /\ Kept(p, r) /\ r.evidence = p.evidence /\ r.approval = p.approval
         /\ r.requiredApproval <=> p.requiredApproval
         /\ ~r.blocked => ~p.blocked
         /\ s.strict => /\ r.tenantEvidence # <<>>
                        /\ ~r.tenantEvidence[1].failed =>
                             /\ r.tenantEvidence[1].view = writeView(r)
                             /\ strictPolicyCheck(p, s) /\ comparableWriteView(p)
<1> DEFINE ok == strictPolicyCheck(p, s) /\ comparableWriteView(p)
           e == [failed |-> ~ok, view |-> IF ok THEN writeView(p) ELSE <<>>]
           b == Blocked(p, "TENANT_POLICY_REJECTED")
           base == IF ok THEN p ELSE b
<1>1. CASE ~s.strict
  BY <1>1 DEF finalizeTenantPolicy, Kept
<1>2. CASE s.strict
  <2>1. r = [base EXCEPT !.tenantEvidence = <<e>>]
    BY <1>2 DEF finalizeTenantPolicy
  <2>2. /\ Kept(p, b) /\ b.evidence = p.evidence /\ b.approval = p.approval /\ b.blocked
        /\ b.requiredApproval <=> p.requiredApproval
    BY BlockedKeeps
  <2>3. Kept(p, p)
    BY DEF Kept
  <2>4. e.failed <=> ~ok
    OBVIOUS
  <2>5. ok => e.view = writeView(p)
    OBVIOUS
  <2>6. ok => strictPolicyCheck(p, s) /\ comparableWriteView(p)
    OBVIOUS
  <2> HIDE DEF ok, e, b
  <2>7. /\ Kept(p, base) /\ base.evidence = p.evidence /\ base.approval = p.approval
        /\ base.requiredApproval <=> p.requiredApproval
        /\ ~base.blocked => ~p.blocked
    BY <2>2, <2>3
  <2> HIDE DEF base
  <2>8. /\ Kept(base, r) /\ r.evidence = base.evidence /\ r.approval = base.approval
        /\ r.requiredApproval <=> base.requiredApproval
        /\ r.blocked <=> base.blocked
        /\ r.tenantEvidence = <<e>>
    BY <2>1, <2>7 DEF Kept, PlanFields
  <2>9. Kept(p, r)
    BY <2>7, <2>8, KeptTrans
  <2>10. writeView(r) = writeView(p)
    BY <2>9, KeptViews
  <2>11. r.tenantEvidence # <<>> /\ r.tenantEvidence[1] = e
    BY <2>8
  <2> QED BY <2>4, <2>5, <2>6, <2>7, <2>8, <2>9, <2>10, <2>11
<1> QED BY <1>1, <1>2

LEMMA StrictMeans ==
  ASSUME NEW p, NEW r, Kept(p, r), NEW k, p.op # "raw", strictPolicyCheck(p, k.settings), comparableWriteView(p)
  PROVE  TenantFacts(r, k)
<1> DEFINE s == k.settings
           ts == Targets(p.tables, s.policies)
<1>1. /\ ~TargetsFail(s, p.tables)
      /\ p.op # "select" => p.join = <<>>
      /\ \A i \in DOMAIN p.join : JoinKnown(p.join[i], ts)
      /\ p.op # "insert" => \A i \in DOMAIN ts : ts[i].policy.tenant # "" => BoundSomewhere(p, ts, i, s.tenant[2])
  BY Zenon DEF strictPolicyCheck
<1>2. comparableWriteView(r)
  BY KeptViews
<1>3. r.op = p.op /\ r.tables = p.tables /\ r.join = p.join /\ r.where = p.where
  BY DEF Kept
<1>4. \A i \in DOMAIN p.join : p.join[i].type \in {"inner", "left"}
  BY <1>1 DEF JoinKnown
<1>5. \A i, want : BoundSomewhere(r, ts, i, want) <=> BoundSomewhere(p, ts, i, want)
  BY <1>3 DEF BoundSomewhere
<1>6. ~TargetsFail(s, r.tables) /\ ts = Targets(r.tables, s.policies)
  BY <1>1, <1>3
<1> HIDE DEF ts
<1> QED BY <1>1, <1>2, <1>3, <1>4, <1>5, <1>6 DEF TenantFacts

(***************************************************************************)
(* What the rules find.                                                    *)
(***************************************************************************)

LEMMA RulesFind ==
  ASSUME NEW p, p.op = p.stmt.op, p.src = p.stmt.where
  PROVE  LET s == p.stmt IN
         /\ s.op = "update" /\ s.where = NoTree => newWarning("UPDATE_WITHOUT_WHERE", "blocked", FALSE) \in RiskRules(p)
         /\ s.op = "delete" /\ s.where = NoTree => newWarning("DELETE_WITHOUT_WHERE", "blocked", FALSE) \in RiskRules(p)
         /\ Weak(s) => newWarning("WEAK_PREDICATE", "high", TRUE) \in RiskRules(p)
         /\ s.op = "raw" => newWarning("RAW_SQL_USED", "high", TRUE) \in RiskRules(p)
         /\ s.raw = "drop" => newWarning("DESTRUCTIVE_SQL_DETECTED", "destructive", FALSE) \in RiskRules(p)
<1>1. p.stmt.where = NoTree => hasNoPredicate(p)
  BY DEF hasNoPredicate, inspectionPredicates
<1>2. Weak(p.stmt) => hasWeakPredicate(p)
  BY DEF Weak, hasWeakPredicate
<1>3. p.stmt.raw = "drop" => containsDangerousSQLToken(p)
  BY DEF containsDangerousSQLToken
<1> QED BY <1>1, <1>2, <1>3 DEF RiskRules, WriteRule

\* A policy's unanswered tenant column, seen by the tree's own leaves.
LEMMA PolicyFinds ==
  ASSUME NEW p, p.src = p.stmt.where, p.op = p.stmt.op, p.tables = p.stmt.tables,
         NEW k, OnePerTable(k.settings.policies), k.policy = PolicyForTable(k.settings.policies, "orders"),
         NEW policy \in k.settings.policies, policy.tenant # "",
         \E t \in Range(p.stmt.tables) : t.table = policy.table,
         \A t \in Range(p.stmt.tables) : t.table # "",
         policyAppliesToOperation(p.op), ~Mentions(p.stmt.where, policy.tenant)
  PROVE  \E code : newWarning(code, policyModeLevel(policy.tmode, "high"), FALSE)
                     \in checkPolicies(p, k.policy, k.settings.policies)
<1> DEFINE extra == k.policy
           policies == k.settings.policies
           byTable == {r \in policies : r.table # extra.table} \cup ({extra} \ {NoPolicy})
           touched == {r \in byTable : planTouchesTable(p, r.table)}
           amb == newPolicyCheckContext(touched)
<1>1. policy \in byTable
  <2>1. CASE policy.table = extra.table
    <3>1. policy.table # ""
      OBVIOUS
    <3>2. extra # NoPolicy
      <4>1. NoPolicy.table = ""
        BY DEF NoPolicy
      <4>2. extra.table # ""
        BY <2>1, <3>1
      <4> QED BY <4>1, <4>2
    <3>3. extra \in policies
      <4>1. {r \in policies : r.table = "orders"} # {}
        BY <3>2 DEF PolicyForTable
      <4>2. extra \in {r \in policies : r.table = "orders"}
        BY <4>1 DEF PolicyForTable
      <4> QED BY <4>2
    <3>4. extra = policy
      BY <2>1, <3>3 DEF OnePerTable
    <3> QED BY <3>2, <3>4
  <2>2. CASE policy.table # extra.table
    BY <2>2
  <2> QED BY <2>1, <2>2
<1>2. policy \in touched
  BY <1>1 DEF planTouchesTable
<1> HIDE DEF byTable, touched
<1>3. \A allow : ~hasPolicyPredicateColumn(p, policy.table, policy.tenant, allow)
  <2>1. inspectionPredicates(p.src) \subseteq LeavesOf(p.src)
    BY DEF inspectionPredicates
  <2>2. \A n \in LeavesOf(p.src) : \A c \in {n.col, n.vcol} :
           normalizeColumnName(c[2]) # normalizeColumnName(policy.tenant)
    BY DEF Mentions
  <2> QED BY <2>1, <2>2 DEF hasPolicyPredicateColumn, predicateColumnMatches
<1> DEFINE w == policyWarning("TENANT_FILTER_MISSING", policyModeLevel(policy.tmode, "high"), FALSE)
<1>4. w \in checkPolicyWithContext(p, policy, amb)
  <2> HIDE DEF amb
  <2> QED BY <1>3 DEF checkPolicyWithContext
<1>5. checkPolicyWithContext(p, policy, amb) \subseteq checkPolicies(p, extra, policies)
  BY <1>2 DEF checkPolicies, byTable, touched
<1>6. w = newWarning("TENANT_FILTER_MISSING", policyModeLevel(policy.tmode, "high"), FALSE)
  BY DEF policyWarning
<1> HIDE DEF w, amb
<1> QED BY <1>4, <1>5, <1>6

LEMMA RequiredFinds ==
  ASSUME NEW p, p.src = p.stmt.where, NEW r \in p.meta.required, ~Mentions(p.stmt.where, r[2])
  PROVE  newWarning("REQUIRED_PREDICATE_MISSING", "blocked", FALSE) \in checkRequiredPredicates(p)
<1>1. \A allow : ~hasPolicyPredicateColumn(p, r[1], r[2], allow)
  <2>1. inspectionPredicates(p.src) \subseteq LeavesOf(p.src)
    BY DEF inspectionPredicates
  <2>2. \A n \in LeavesOf(p.src) : \A c \in {n.col, n.vcol} :
           normalizeColumnName(c[2]) # normalizeColumnName(r[2])
    BY DEF Mentions
  <2> QED BY <2>1, <2>2 DEF hasPolicyPredicateColumn, predicateColumnMatches
<1>2. ~PlanHasPredicateColumn(p, r[1], r[2])
  BY <1>1 DEF PlanHasPredicateColumn
<1> QED BY <1>2 DEF checkRequiredPredicates, MissingRequiredPredicates

LEMMA NeverSilenced ==
  \A code, l, sups, now : Fate(newWarning(code, l, FALSE), sups, now) # "suppressed"
<1>1. \A code, l : ~newWarning(code, l, FALSE).supp
  BY DEF newWarning
<1>2. ASSUME NEW w, ~w.supp, NEW sups, NEW now PROVE Fate(w, sups, now) # "suppressed"
  BY <1>2 DEF Fate
<1> QED BY <1>1, <1>2

LEMMA TablesAre ==
  ASSUME NEW k, IsSeq(k.join)
  PROVE  /\ DOMAIN Tables(k) = 1..(1 + Len(k.join)) /\ Len(k.join) \in Nat
         /\ Tables(k)[1] = TableRef("orders", k.alias)
         /\ \A i \in DOMAIN k.join : Tables(k)[i + 1] = TableRef("users", "") /\ i + 1 \in DOMAIN Tables(k)
         /\ \A i \in DOMAIN Tables(k) : i # 1 => i - 1 \in DOMAIN k.join /\ Tables(k)[i] = TableRef("users", "")
         /\ \A t \in Range(Tables(k)) : t.table # ""
<1> DEFINE R == {TableRef("orders", k.alias), TableRef("users", "")}
           a == <<TableRef("orders", k.alias)>>
           b == [i \in DOMAIN k.join |-> TableRef("users", "")]
           n == Len(k.join)
<1>1. n \in Nat /\ DOMAIN k.join = 1..n
  BY DEF IsSeq
<1>2. a \in Seq(R) /\ b \in Seq(R) /\ Len(a) = 1 /\ Len(b) = n /\ a[1] = TableRef("orders", k.alias)
  <2> HIDE DEF n
  <2>1. b \in [1..n -> R] /\ DOMAIN b = 1..n
    BY <1>1
  <2>2. b \in Seq(R)
    BY <2>1, <1>1
  <2> HIDE DEF b, R
  <2>3. Len(b) = n
    BY <2>1, <2>2, <1>1
  <2>4. TableRef("orders", k.alias) \in R
    BY DEF R
  <2> QED BY <2>2, <2>3, <2>4
<1>3. \A i \in 1..n : b[i] = TableRef("users", "")
  BY <1>1
<1>4. Tables(k) = a \o b
  BY DEF Tables
<1>5. \A t \in R : t.table # ""
  <2>1. TableRef("orders", k.alias).table = "orders" /\ TableRef("users", "").table = "users"
    BY DEF TableRef
  <2>2. "orders" # "" /\ "users" # ""
    OBVIOUS
  <2> QED BY <2>1, <2>2
<1> HIDE DEF R, a, b, n
<1>6. DOMAIN Tables(k) = 1..(1 + n) /\ Tables(k)[1] = a[1] /\ \A i \in 1..(1 + n) : i # 1 => Tables(k)[i] = b[i - 1]
  <2>1. Len(a \o b) = 1 + n /\ a \o b \in Seq(R)
    BY <1>2, ConcatProperties
  <2>2. \A i \in 1..(1 + n) : (a \o b)[i] = IF i <= 1 THEN a[i] ELSE b[i - 1]
    <3>1. \A i \in 1..(Len(a) + Len(b)) : (a \o b)[i] = IF i <= Len(a) THEN a[i] ELSE b[i - Len(a)]
      BY <1>2, ConcatProperties
    <3> QED BY <1>2, <3>1
  <2>3. DOMAIN (a \o b) = 1..(1 + n)
    BY <2>1
  <2>4. 1 \in 1..(1 + n) /\ \A i \in 1..(1 + n) : i # 1 => ~(i <= 1)
    BY <1>1
  <2>5. (a \o b)[1] = a[1]
    <3>1. (a \o b)[1] = IF 1 <= 1 THEN a[1] ELSE b[1 - 1]
      BY <2>2, <2>4, Zenon
    <3> QED BY <3>1
  <2>6. \A i \in 1..(1 + n) : i # 1 => (a \o b)[i] = b[i - 1]
    BY <2>2, <2>4
  <2> QED BY <1>4, <2>3, <2>5, <2>6
<1>7. \A i \in 1..n : i + 1 \in 1..(1 + n) /\ i + 1 # 1 /\ (i + 1) - 1 = i
  BY <1>1
<1>8. \A i \in 1..(1 + n) : i # 1 => i - 1 \in 1..n
  BY <1>1
<1>9. \A t \in Range(Tables(k)) : t \in R
  <2>1. Tables(k) \in Seq(R)
    BY <1>2, <1>4
  <2> QED BY <2>1 DEF Range
<1>10. \A i \in 1..n : Tables(k)[i + 1] = TableRef("users", "")
  BY <1>3, <1>6, <1>7
<1>11. \A i \in 1..(1 + n) : i # 1 => Tables(k)[i] = TableRef("users", "")
  BY <1>3, <1>6, <1>8
<1> QED BY <1>1, <1>2, <1>5, <1>6, <1>7, <1>8, <1>9, <1>10, <1>11 DEF n

(***************************************************************************)
(* A plan that comes out of finalizePlan.                                  *)
(***************************************************************************)
\* The answers to every finding of an unblocked plan.
LEMMA AnswersFound ==
  ASSUME NEW k, QueryOK(k), NEW p, DOMAIN p = PlanFields, p.op = p.stmt.op, p.src = p.stmt.where,
         NEW policy, NEW sups, IsSeq(sups), \A i \in DOMAIN sups : i \in DOMAIN k.sups /\ sups[i] = k.sups[i],
         NEW j, j = Judged(p, k.settings, Findings(p, policy, k.settings), sups), ~j.blocked,
         NEW r, r.stmt = p.stmt, r.requiredApproval <=> j.requiredApproval, r.requiredApproval => r.approval.given
  PROVE  LET s == r.stmt IN
         /\ s.op = "update" /\ s.where = NoTree => AnsweredIn(r, k, clock, "UPDATE_WITHOUT_WHERE", "blocked", FALSE)
         /\ s.op = "delete" /\ s.where = NoTree => AnsweredIn(r, k, clock, "DELETE_WITHOUT_WHERE", "blocked", FALSE)
         /\ Weak(s) => AnsweredIn(r, k, clock, "WEAK_PREDICATE", "high", TRUE)
         /\ s.op = "raw" /\ sups = <<>> => ApprovedIn(r) \/ LoweredIn(k, "RAW_SQL_USED", "high")
         /\ s.raw = "drop" =>
              \/ ApprovedIn(r) \/ LoweredIn(k, "DESTRUCTIVE_SQL_DETECTED", "destructive")
              \/ sups # <<>>
<1>1. ASSUME NEW code, NEW level, NEW supp, newWarning(code, level, supp) \in RiskRules(p)
      PROVE  /\ AnsweredIn(r, k, clock, code, level, supp)
             /\ sups = <<>> => ApprovedIn(r) \/ LoweredIn(k, code, level)
  <2>1. Settled(k, j, sups, code, level, supp)
    BY <1>1, FindingAnswered
  <2>2. j.requiredApproval => ApprovedIn(r)
    BY DEF ApprovedIn
  <2>3. (\E i \in DOMAIN sups : sups[i].code = code /\ ~Expired(sups[i].expires, clock))
          => sups # <<>> /\ SuppressedIn(k, code, clock)
    BY DEF SuppressedIn
  <2> QED BY <2>1, <2>2, <2>3 DEF AnsweredIn, Settled
<1>2. /\ p.stmt.op = "update" /\ p.stmt.where = NoTree => newWarning("UPDATE_WITHOUT_WHERE", "blocked", FALSE) \in RiskRules(p)
      /\ p.stmt.op = "delete" /\ p.stmt.where = NoTree => newWarning("DELETE_WITHOUT_WHERE", "blocked", FALSE) \in RiskRules(p)
      /\ Weak(p.stmt) => newWarning("WEAK_PREDICATE", "high", TRUE) \in RiskRules(p)
      /\ p.stmt.op = "raw" => newWarning("RAW_SQL_USED", "high", TRUE) \in RiskRules(p)
      /\ p.stmt.raw = "drop" => newWarning("DESTRUCTIVE_SQL_DETECTED", "destructive", FALSE) \in RiskRules(p)
  BY RulesFind
<1> QED BY <1>1, <1>2

LEMMA PoliciesEnforced ==
  ASSUME NEW k, QueryOK(k), NEW p, DOMAIN p = PlanFields, p.op = p.stmt.op, p.src = p.stmt.where,
         p.tables = p.stmt.tables, p.stmt.tables = Tables(k), p.meta.required = k.required,
         NEW j, j = Judged(p, k.settings, Findings(p, k.policy, k.settings), k.sups), ~j.blocked,
         NEW r, r.stmt = p.stmt, r.requiredApproval <=> j.requiredApproval, r.requiredApproval => r.approval.given
  PROVE  PolicyFacts(r, k)
<1> DEFINE ws == Findings(p, k.policy, k.settings)
<1>1. \A w \in ws : IsLevel(w.level)
  BY FindingLevels
<1>2. ASSUME NEW code, NEW level, newWarning(code, level, FALSE) \in ws
      PROVE  level # "blocked" /\ (compareRisk(level, "high") >= 0 => j.requiredApproval)
  <2> DEFINE w == newWarning(code, level, FALSE)
  <2>1. Fate(w, k.sups, clock) # "suppressed"
    BY NeverSilenced
  <2>2. w.level = level
    BY DEF newWarning
  <2>3. w \in ws
    BY <1>2
  <2> HIDE DEF w, ws
  <2>4. j = Judged(p, k.settings, ws, k.sups) /\ ~Judged(p, k.settings, ws, k.sups).blocked
    BY DEF ws
  <2>5. \/ Fate(w, k.sups, clock) = "suppressed"
        \/ /\ w.level # "blocked"
           /\ compareRisk(w.level, "high") >= 0 => Judged(p, k.settings, ws, k.sups).requiredApproval
    BY <1>1, <2>3, <2>4, JudgedKeeps
  <2> QED BY <2>1, <2>2, <2>4, <2>5
<1> SUFFICES ASSUME ~k.settings.strict, r.stmt.op \in {"select", "update", "delete"}
             PROVE  /\ \A policy \in k.settings.policies :
                         (/\ policy.tenant # "" /\ \E t \in Range(r.stmt.tables) : t.table = policy.table
                          /\ ~Mentions(r.stmt.where, policy.tenant))
                         => policy.tmode # "block" /\ ApprovedIn(r)
                    /\ \A c \in k.required : Mentions(r.stmt.where, c[2])
  BY DEF PolicyFacts
<1>3. ASSUME NEW policy \in k.settings.policies, policy.tenant # "",
             \E t \in Range(r.stmt.tables) : t.table = policy.table, ~Mentions(r.stmt.where, policy.tenant)
      PROVE  policy.tmode # "block" /\ ApprovedIn(r)
  <2>1. \A t \in Range(p.stmt.tables) : t.table # ""
    BY TablesAre, ZenonT(60) DEF QueryOK
  <2>2. policyAppliesToOperation(p.op)
    BY DEF policyAppliesToOperation
  <2>3. OnePerTable(k.settings.policies) /\ k.policy = PolicyForTable(k.settings.policies, "orders")
    BY DEF QueryOK
  <2>4. /\ \E t \in Range(p.stmt.tables) : t.table = policy.table
        /\ ~Mentions(p.stmt.where, policy.tenant)
    BY <1>3
  <2>5. \E code : newWarning(code, policyModeLevel(policy.tmode, "high"), FALSE)
                     \in checkPolicies(p, k.policy, k.settings.policies)
    BY <1>3, <2>1, <2>2, <2>3, <2>4, PolicyFinds
  <2>6. \E code : newWarning(code, policyModeLevel(policy.tmode, "high"), FALSE) \in ws
    BY <2>5 DEF Findings
  <2> HIDE DEF ws
  <2>7. /\ policyModeLevel(policy.tmode, "high") # "blocked"
        /\ compareRisk(policyModeLevel(policy.tmode, "high"), "high") >= 0 => j.requiredApproval
    BY <1>2, <2>6
  <2>8. policy.tmode # "block" /\ policyModeLevel(policy.tmode, "high") = "high"
    BY <2>7, PolicyLevels
  <2>9. compareRisk("high", "high") >= 0
    BY Ranks DEF compareRisk
  <2> QED BY <2>7, <2>8, <2>9 DEF ApprovedIn
<1>4. ASSUME NEW c \in k.required, ~Mentions(r.stmt.where, c[2])
      PROVE  FALSE
  <2>1. newWarning("REQUIRED_PREDICATE_MISSING", "blocked", FALSE) \in checkRequiredPredicates(p)
    BY <1>4, RequiredFinds
  <2>2. newWarning("REQUIRED_PREDICATE_MISSING", "blocked", FALSE) \in ws
    BY <2>1 DEF Findings
  <2> QED BY <1>2, <2>2
<1> QED BY <1>3, <1>4

LEMMA FinalizeOK ==
  ASSUME NEW k, QueryOK(k), NEW p0, PlanShape(p0), p0.op # "raw", StatementOK(p0.stmt, k)
  PROVE  PlanOK(finalizePlan(p0, k), k)
<1> DEFINE s == k.settings
           p1 == applyPolicyMetadata(p0, k)
           p2 == sealWriteEvidence(p1, k.keys)
           p3 == finalizePlanWithSettings(p2, k.approval, k.sups, k.policy, s)
           p4 == finalizeTenantPolicy(p3, s)
           x == sealExecution(p4, s)
           p == Scoped(p2)
           j == Judged(p, s, Findings(p, k.policy, s), k.sups)
<1>1. finalizePlan(p0, k) = x
  BY DEF finalizePlan
<1>2. DOMAIN p0 = PlanFields /\ DOMAIN p0.meta = MetaFields
  BY DEF PlanShape
<1>3. Kept(p0, p1) /\ p1.meta.required = k.required /\ p1.evidence = p0.evidence
  BY <1>2, MetadataKeeps
<1> HIDE DEF p1
<1>4. /\ DOMAIN p1 = PlanFields /\ DOMAIN p1.meta = MetaFields /\ p1.op = p0.op
      /\ p1.evidence # <<>> => p1.op \in {"update", "delete"}
  BY <1>3 DEF Kept, PlanShape
<1>5. /\ Kept(p1, p2) /\ p2.meta = p1.meta
      /\ p2.evidence # <<>> =>
           /\ p2.op \in {"update", "delete"} /\ p2.evidence[1].keys = k.keys
           /\ ~p2.evidence[1].failed => p2.evidence[1].view = writeView(p2)
  BY <1>4, SealKeeps
<1> HIDE DEF p2
<1>6. Kept(p0, p2) /\ p2.op # "raw"
  <2>1. Kept(p0, p2)
    BY <1>3, <1>5, KeptTrans
  <2> QED BY <2>1 DEF Kept
<1>7. DOMAIN p2 = PlanFields /\ DOMAIN p2.meta = MetaFields
  BY <1>6 DEF Kept
<1>8. ~RawStrict(p2, s)
  BY <1>6 DEF RawStrict
<1>9. /\ Kept(p2, p3) /\ p3.evidence = p2.evidence
      /\ ~p3.blocked => p3.approval = k.approval /\ ~j.blocked /\ (p3.requiredApproval <=> j.requiredApproval)
  BY <1>7, <1>8, SettingsJudge
<1>10. Kept(p2, p) /\ p.meta = p2.meta
  BY <1>7, ScopedKeeps
<1> HIDE DEF p, p3
<1>11. DOMAIN p3 = PlanFields /\ DOMAIN p3.meta = MetaFields
  BY <1>9 DEF Kept
<1>12. /\ Kept(p3, p4) /\ p4.evidence = p3.evidence /\ p4.approval = p3.approval
       /\ p4.requiredApproval <=> p3.requiredApproval
       /\ ~p4.blocked => ~p3.blocked
       /\ s.strict => /\ p4.tenantEvidence # <<>>
                      /\ ~p4.tenantEvidence[1].failed =>
                           /\ p4.tenantEvidence[1].view = writeView(p4)
                           /\ strictPolicyCheck(p3, s) /\ comparableWriteView(p3)
  BY <1>11, TenantPolicyKeeps
<1> HIDE DEF p4
<1>13. Kept(p0, p3) /\ Kept(p0, p4) /\ Kept(p0, p)
  BY <1>6, <1>9, <1>10, <1>12, KeptTrans
<1>14. p4.evidence # <<>> =>
         /\ p4.op \in {"update", "delete"} /\ p4.evidence[1].keys = k.keys
         /\ ~p4.evidence[1].failed => p4.evidence[1].view = writeView(p4)
  <2>1. Kept(p2, p4)
    BY <1>9, <1>12, KeptTrans
  <2>2. p4.op = p2.op /\ writeView(p4) = writeView(p2) /\ p4.evidence = p2.evidence
    BY <2>1, <1>9, <1>12, KeptViews DEF Kept
  <2> QED BY <2>2, <1>5
<1>15. PlanShape(p4)
  BY <1>13, <1>14, KeptShape
<1>16. EvidenceFacts(p4, k)
  <2>1. ASSUME s.strict, ~p4.tenantEvidence[1].failed PROVE TenantFacts(p4, k)
    <3>1. strictPolicyCheck(p3, k.settings) /\ comparableWriteView(p3) /\ Kept(p3, p4)
      BY <2>1, <1>12
    <3>2. p3.op # "raw"
      BY <1>13 DEF Kept
    <3> QED BY <3>1, <3>2, StrictMeans
  <2> QED BY <2>1, <1>12, <1>14 DEF EvidenceFacts
<1>17. /\ x.pub = p4 /\ x.inspection = p4 /\ x.stmt = p4.stmt /\ x.at = clock
       /\ x.gate => ensurePlanExecutable(p4)
       /\ x.expires = IF p4.requiredApproval THEN p4.approval.expires ELSE 0
       /\ DOMAIN x = SealFields
  BY DEF sealExecution, SealFields
<1> HIDE DEF x
<1>18. ASSUME x.gate
       PROVE  checkTenantEvidence(p4) /\ RiskFacts(p4, k, clock) /\ PolicyFacts(p4, k)
  <2>1. checkTenantEvidence(p4) /\ ~p4.blocked /\ (p4.requiredApproval => p4.approval.given)
    BY <1>17, <1>18 DEF ensurePlanExecutable
  <2>2. ~j.blocked /\ (p4.requiredApproval <=> j.requiredApproval)
    BY <2>1, <1>9, <1>12
  <2>3. /\ DOMAIN p = PlanFields /\ p.op = p.stmt.op /\ p.src = p.stmt.where
        /\ p.tables = p.stmt.tables /\ p.stmt = p0.stmt /\ p4.stmt = p.stmt
        /\ p.stmt.tables = Tables(k) /\ p.meta.required = k.required
    BY <1>3, <1>5, <1>10, <1>13, ZenonT(60) DEF Kept, PlanShape, StatementOK
  <2>4. IsSeq(k.sups) /\ \A i \in DOMAIN k.sups : i \in DOMAIN k.sups /\ k.sups[i] = k.sups[i]
    BY DEF QueryOK
  <2>5. /\ p4.stmt.op = "update" /\ p4.stmt.where = NoTree => AnsweredIn(p4, k, clock, "UPDATE_WITHOUT_WHERE", "blocked", FALSE)
        /\ p4.stmt.op = "delete" /\ p4.stmt.where = NoTree => AnsweredIn(p4, k, clock, "DELETE_WITHOUT_WHERE", "blocked", FALSE)
        /\ Weak(p4.stmt) => AnsweredIn(p4, k, clock, "WEAK_PREDICATE", "high", TRUE)
    <3> HIDE DEF j
    <3>1. j = Judged(p, k.settings, Findings(p, k.policy, k.settings), k.sups)
      BY DEF j
    <3> QED BY <2>1, <2>2, <2>3, <2>4, <3>1, AnswersFound
  <2>6. PolicyFacts(p4, k)
    <3> HIDE DEF j
    <3>1. j = Judged(p, k.settings, Findings(p, k.policy, k.settings), k.sups)
      BY DEF j
    <3> QED BY <2>1, <2>2, <2>3, <3>1, PoliciesEnforced
  <2>7. p4.stmt.op # "raw" /\ p4.stmt.raw = ""
    BY <2>3 DEF PlanShape, StatementOK
  <2>8. RiskFacts(p4, k, clock)
    BY <2>5, <2>7 DEF RiskFacts
  <2> QED BY <2>1, <2>6, <2>8
<1>19. p4.stmt = p0.stmt /\ DOMAIN p4 = PlanFields
  BY <1>13 DEF Kept
<1>20. PlanOK(x, k)
  BY <1>15, <1>16, <1>17, <1>18, <1>19 DEF PlanOK
<1> QED BY <1>1, <1>20

(***************************************************************************)
(* Building a query.                                                       *)
(***************************************************************************)
LEMMA SeqIsSeq ==
  ASSUME NEW S, NEW s \in Seq(S)
  PROVE  IsSeq(s)
<1>1. DOMAIN s = 1..Len(s) /\ Len(s) \in Nat
  OBVIOUS
<1>2. \A i \in 1..Len(s) : s[i] \in Range(s)
  BY <1>1 DEF Range
<1>3. s \in [1..Len(s) -> Range(s)]
  <2>1. s = [i \in 1..Len(s) |-> s[i]]
    OBVIOUS
  <2> QED BY <1>2, <2>1
<1> QED BY <1>1, <1>3 DEF IsSeq

LEMMA AppendIsSeq ==
  ASSUME NEW s, IsSeq(s), NEW e
  PROVE  IsSeq(Append(s, e))
<1> DEFINE S == Range(s) \cup {e}
<1>1. s \in Seq(S) /\ e \in S
  BY DEF IsSeq
<1>2. Append(s, e) \in Seq(S)
  <2> HIDE DEF S
  <2> QED BY <1>1
<1> QED BY <1>2, SeqIsSeq

LEMMA SmallSeqs == IsSeq(<<>>) /\ \A e : IsSeq(<<e>>)
<1>1. <<>> \in Seq({})
  OBVIOUS
<1>2. ASSUME NEW e PROVE <<e>> \in Seq({e})
  OBVIOUS
<1> QED BY <1>1, <1>2, SeqIsSeq

LEMMA PolicyFound ==
  ASSUME NEW policies, OnePerTable(policies), NEW p \in policies, p.table = "orders"
  PROVE  PolicyForTable(policies, "orders") = p
<1> DEFINE hits == {x \in policies : x.table = "orders"}
<1>1. hits = {p}
  BY DEF OnePerTable
<1>2. PolicyForTable(policies, "orders") = IF hits = {} THEN NoPolicy ELSE CHOOSE x \in hits : TRUE
  BY DEF PolicyForTable
<1> HIDE DEF hits
<1> QED BY <1>1, <1>2

\* A new query takes the registry and the assumptions on the settings with it.
LEMMA NewQueryOK ==
  ASSUME NEW s \in SettingsSet, OnePerTable(registry)
  PROVE  /\ QueryOK(NewQueryRecord(SnapshotDefaultSettings(s)))
         /\ NewQueryRecord(SnapshotDefaultSettings(s)).settings.dbkeys = s.dbkeys
<1> DEFINE t == SnapshotDefaultSettings(s)
           k == NewQueryRecord(t)
<1>1. /\ DOMAIN s = {"strict", "auto", "dialect", "tenant", "schema", "risk", "err", "policies", "dbkeys", "alias"}
      /\ s.strict \in BOOLEAN /\ s.dbkeys \subseteq Seq(DOMAIN Columns("orders"))
      /\ \A code \in DOMAIN s.risk : s.risk[code].severity \in {""} \cup Range(Levels)
  BY GateAssumption DEF SettingsAssumption
<1>2. /\ t.strict = s.strict /\ t.dbkeys = s.dbkeys /\ t.risk = s.risk /\ t.policies = registry
  BY <1>1 DEF SnapshotDefaultSettings
<1> HIDE DEF t
<1>3. /\ k.settings = t /\ k.policy = PolicyForTable(t.policies, "orders") /\ k.conds = <<>> /\ k.sups = <<>>
      /\ k.join = <<>> /\ k.options = 0 /\ k.keys = {} /\ DOMAIN k = QueryFields
  BY DEF NewQueryRecord, QueryFields
<1> HIDE DEF k
<1>4. k.options \in Nat /\ IsSeq(k.conds) /\ IsSeq(k.sups) /\ IsSeq(k.join)
  BY <1>3, SmallSeqs
<1>5. QueryOK(k)
  BY <1>1, <1>2, <1>3, <1>4 DEF QueryOK
<1>6. k.settings.dbkeys = s.dbkeys
  BY <1>2, <1>3
<1> QED BY <1>5, <1>6 DEF k, t

LEMMA QueryKeeps ==
  ASSUME NEW k, QueryOK(k), NEW m, DOMAIN m = DOMAIN k, m.settings = k.settings, m.policy = k.policy,
         IsSeq(m.conds), IsSeq(m.sups), IsSeq(m.join), m.options \in Nat,
         m.keys \subseteq {Key(c) : c \in k.settings.dbkeys}
  PROVE  QueryOK(m)
BY DEF QueryOK

\* No step of a builder changes what the query was made with.
LEMMA BuildStep ==
  ASSUME IInv, Building, NEW k, QueryOK(k), k.settings = q.settings, query' = <<k>>,
         UNCHANGED <<registry, clock, plan, db, ran, events>>
  PROVE  IInv'
<1>1. plan = <<>> /\ ran = <<>> /\ query # <<>>
  BY DEF Building, IInv
<1>2. query' # <<>> /\ q' = k
  BY DEF q
<1>3. /\ OnePerTable(registry)' /\ plan' = <<>> /\ ran' = <<>>
      /\ \A r \in db' : DOMAIN r = DOMAIN Columns("orders")
  BY <1>1 DEF IInv
<1>4. \A c \in k.settings.dbkeys : Unique(db', c)
  BY <1>1 DEF IInv
<1>5. TenantIsolation' /\ RiskIsGoverned'
  BY <1>3 DEF TenantIsolation, RiskIsGoverned, RiskAnsweredFor, PolicyIsEnforced
<1> QED BY <1>2, <1>3, <1>4, <1>5 DEF IInv

\* The setters and the conditions.
LEMMA BuildActions ==
  ASSUME IInv
  PROVE  /\ \A leaf, or : AddCondition(leaf, or) => IInv'
         /\ \A given : RequireApproval(given) => IInv'
         /\ \A code, expires : SuppressWarning(code, expires) => IInv'
         /\ \A table, col : RequirePredicates(table, col) => IInv'
         /\ WithDeleted => IInv'
         /\ OnlyDeleted => IInv'
         /\ WithWriteKeyContext(q.settings.dbkeys) => IInv'
         /\ \A cols : Select(cols) => IInv'
         /\ \A type, on : JoinTable(type, on) => IInv'
<1>1. Building => /\ QueryOK(q) /\ DOMAIN q = QueryFields
                  /\ IsSeq(q.conds) /\ IsSeq(q.sups) /\ IsSeq(q.join) /\ q.options \in Nat
                  /\ q.keys \subseteq {Key(c) : c \in q.settings.dbkeys}
  BY DEF IInv, Building, QueryOK
<1>2. ASSUME Building, NEW m, DOMAIN m = QueryFields, m.settings = q.settings, m.policy = q.policy,
             m.conds = q.conds, IsSeq(m.sups), m.join = q.join, m.options = q.options, m.keys = q.keys,
             Option(m)
      PROVE  IInv'
  <2> DEFINE k == [m EXCEPT !.options = @ + 1]
  <2>1. /\ DOMAIN k = QueryFields /\ k.settings = q.settings /\ k.policy = q.policy /\ k.conds = q.conds
        /\ k.sups = m.sups /\ k.join = q.join /\ k.options = q.options + 1 /\ k.keys = q.keys
    BY <1>2 DEF QueryFields
  <2>2. query' = <<k>> /\ UNCHANGED <<registry, clock, plan, db, ran, events>>
    BY <1>2 DEF Option, Change
  <2> HIDE DEF k
  <2>3. /\ DOMAIN k = DOMAIN q /\ IsSeq(k.conds) /\ IsSeq(k.sups) /\ IsSeq(k.join) /\ k.options \in Nat
        /\ k.keys \subseteq {Key(c) : c \in q.settings.dbkeys}
    BY <1>1, <1>2, <2>1
  <2>4. QueryOK(k)
    BY <1>1, <1>2, <2>1, <2>3, QueryKeeps
  <2> QED BY <1>2, <2>1, <2>2, <2>4, BuildStep
<1>3. ASSUME NEW leaf, NEW or, AddCondition(leaf, or) PROVE IInv'
  <2> DEFINE k == [q EXCEPT !.conds = Append(@, [leaf |-> leaf, or |-> or])]
  <2>1. Building /\ query' = <<k>> /\ UNCHANGED <<registry, clock, plan, db, ran, events>>
    BY <1>3 DEF AddCondition, Change
  <2>2. /\ DOMAIN k = DOMAIN q /\ k.settings = q.settings /\ k.policy = q.policy
        /\ k.conds = Append(q.conds, [leaf |-> leaf, or |-> or])
        /\ k.sups = q.sups /\ k.join = q.join /\ k.options = q.options /\ k.keys = q.keys
    BY <1>1, <2>1 DEF QueryFields
  <2> HIDE DEF k
  <2>3. IsSeq(k.conds) /\ IsSeq(k.sups) /\ IsSeq(k.join) /\ k.options \in Nat
        /\ k.keys \subseteq {Key(c) : c \in q.settings.dbkeys}
    BY <1>1, <2>1, <2>2, AppendIsSeq
  <2>4. QueryOK(k)
    BY <1>1, <2>1, <2>2, <2>3, QueryKeeps
  <2> QED BY <2>1, <2>2, <2>4, BuildStep
<1>4. ASSUME NEW given, RequireApproval(given) PROVE IInv'
  <2> DEFINE m == IF given THEN [q EXCEPT !.approval = [given |-> TRUE, expires |-> 0]] ELSE [q EXCEPT !.err = TRUE]
  <2>1. Option(m) /\ Building
    BY <1>4 DEF RequireApproval, Option
  <2>2. /\ DOMAIN m = QueryFields /\ m.settings = q.settings /\ m.policy = q.policy /\ m.conds = q.conds
        /\ m.sups = q.sups /\ m.join = q.join /\ m.options = q.options /\ m.keys = q.keys
    BY <1>1, <2>1 DEF QueryFields
  <2> HIDE DEF m
  <2> QED BY <1>1, <1>2, <2>1, <2>2
<1>5. ASSUME NEW code, NEW expires, SuppressWarning(code, expires) PROVE IInv'
  <2> DEFINE m == [q EXCEPT !.sups = Append(@, [code |-> code, expires |-> expires])]
  <2>1. Option(m) /\ Building
    BY <1>5 DEF SuppressWarning, Option
  <2>2. /\ DOMAIN m = QueryFields /\ m.settings = q.settings /\ m.policy = q.policy /\ m.conds = q.conds
        /\ m.sups = Append(q.sups, [code |-> code, expires |-> expires])
        /\ m.join = q.join /\ m.options = q.options /\ m.keys = q.keys
    BY <1>1, <2>1 DEF QueryFields
  <2> HIDE DEF m
  <2>3. IsSeq(m.sups)
    BY <1>1, <2>1, <2>2, AppendIsSeq
  <2> QED BY <1>1, <1>2, <2>1, <2>2, <2>3
<1>6. ASSUME NEW m, Option(m),
             \E e : \E f \in {"required", "deleted", "cols"} : m = [q EXCEPT ![f] = e]
      PROVE  IInv'
  <2>1. Building
    BY <1>6 DEF Option
  <2>2. /\ DOMAIN m = QueryFields /\ m.settings = q.settings /\ m.policy = q.policy /\ m.conds = q.conds
        /\ m.sups = q.sups /\ m.join = q.join /\ m.options = q.options /\ m.keys = q.keys
    BY <1>1, <1>6, <2>1 DEF QueryFields
  <2> QED BY <1>1, <1>2, <1>6, <2>1, <2>2
<1>7. ASSUME NEW table, NEW col, RequirePredicates(table, col) PROVE IInv'
  <2>1. Option([q EXCEPT !["required"] = @ \cup {<<table, col>>}])
    BY <1>7 DEF RequirePredicates
  <2> QED BY <1>6, <2>1
<1>8. WithDeleted => IInv'
  BY <1>6 DEF WithDeleted
<1>9. OnlyDeleted => IInv'
  BY <1>6 DEF OnlyDeleted
<1>10. ASSUME NEW cols, Select(cols) PROVE IInv'
  BY <1>6, <1>10 DEF Select
<1>11. ASSUME WithWriteKeyContext(q.settings.dbkeys) PROVE IInv'
  <2> DEFINE k == [q EXCEPT !.keys = {Key(c) : c \in q.settings.dbkeys}]
  <2>1. Building /\ query' = <<k>> /\ UNCHANGED <<registry, clock, plan, db, ran, events>>
    BY <1>11 DEF WithWriteKeyContext, Change
  <2>2. /\ DOMAIN k = DOMAIN q /\ k.settings = q.settings /\ k.policy = q.policy /\ k.conds = q.conds
        /\ k.sups = q.sups /\ k.join = q.join /\ k.options = q.options
        /\ k.keys \subseteq {Key(c) : c \in q.settings.dbkeys}
    BY <1>1, <2>1 DEF QueryFields
  <2> HIDE DEF k
  <2>3. QueryOK(k)
    BY <1>1, <2>1, <2>2, QueryKeeps
  <2> QED BY <2>1, <2>2, <2>3, BuildStep
<1>12. ASSUME NEW type, NEW on, JoinTable(type, on) PROVE IInv'
  <2> DEFINE k == [q EXCEPT !.join = <<[type |-> type, on |-> on]>>]
  <2>1. Building /\ query' = <<k>> /\ UNCHANGED <<registry, clock, plan, db, ran, events>>
    BY <1>12 DEF JoinTable, Change
  <2>2. /\ DOMAIN k = DOMAIN q /\ k.settings = q.settings /\ k.policy = q.policy /\ k.conds = q.conds
        /\ k.sups = q.sups /\ k.join = <<[type |-> type, on |-> on]>> /\ k.options = q.options /\ k.keys = q.keys
    BY <1>1, <2>1 DEF QueryFields
  <2> HIDE DEF k
  <2>3. IsSeq(k.conds) /\ IsSeq(k.sups) /\ IsSeq(k.join) /\ k.options \in Nat
        /\ k.keys \subseteq {Key(c) : c \in q.settings.dbkeys}
    BY <1>1, <2>1, <2>2, SmallSeqs
  <2>4. QueryOK(k)
    BY <1>1, <2>1, <2>2, <2>3, QueryKeeps
  <2> QED BY <2>1, <2>2, <2>4, BuildStep
<1> QED BY <1>3, <1>4, <1>5, <1>7, <1>8, <1>9, <1>10, <1>11, <1>12

(***************************************************************************)
(* Planning.                                                               *)
(***************************************************************************)
LEMMA PlanStep ==
  ASSUME IInv, query # <<>>, ran = <<>>, NEW x, PlanOK(x, q), Planned(x)
  PROVE  IInv'
<1>1. /\ plan' = <<x>> /\ query' = query /\ registry' = registry /\ db' = db /\ ran' = <<>>
  BY DEF Planned
<1>2. q' = q /\ plan'[1] = x /\ plan' # <<>>
  BY <1>1 DEF q
<1>3. /\ OnePerTable(registry)' /\ query' # <<>>
      /\ \A r \in db' : DOMAIN r = DOMAIN Columns("orders")
  BY <1>1 DEF IInv
<1>4. \A c \in q'.settings.dbkeys : Unique(db', c)
  BY <1>1, <1>2 DEF IInv
<1>5. QueryOK(q')
  BY <1>2 DEF IInv
<1>6. TenantIsolation' /\ RiskIsGoverned'
  BY <1>1 DEF TenantIsolation, RiskIsGoverned, RiskAnsweredFor, PolicyIsEnforced
<1> QED BY <1>1, <1>2, <1>3, <1>4, <1>5, <1>6 DEF IInv

LEMMA NewPlanShape ==
  \A op, stmt, cols :
     stmt.op = op =>
        /\ PlanShape(newQueryPlan(op, stmt, cols)) /\ newQueryPlan(op, stmt, cols).op = op
        /\ newQueryPlan(op, stmt, cols).stmt = stmt /\ newQueryPlan(op, stmt, cols).evidence = <<>>
<1> SUFFICES ASSUME NEW op, NEW stmt, stmt.op = op, NEW cols
             PROVE  /\ PlanShape(newQueryPlan(op, stmt, cols)) /\ newQueryPlan(op, stmt, cols).op = op
                    /\ newQueryPlan(op, stmt, cols).stmt = stmt
                    /\ newQueryPlan(op, stmt, cols).evidence = <<>>
  OBVIOUS
<1> DEFINE p == newQueryPlan(op, stmt, cols)
<1>1. /\ p.op = op /\ p.stmt = stmt /\ p.tables = stmt.tables /\ p.join = stmt.join
      /\ p.where = stmt.where /\ p.src = stmt.where /\ p.evidence = <<>>
  BY DEF newQueryPlan
<1>2. DOMAIN p = PlanFields /\ DOMAIN p.meta = MetaFields
  BY DEF newQueryPlan, PlanFields, MetaFields
<1> HIDE DEF p
<1>3. PlanShape(p)
  BY <1>1, <1>2 DEF PlanShape
<1> QED BY <1>1, <1>3 DEF p

LEMMA PlanMade ==
  ASSUME IInv, Building, NEW op, op # "raw", NEW stmt, stmt.op = op, StatementOK(stmt, q), NEW cols,
         Planned(finalizePlan(newQueryPlan(op, stmt, cols), q))
  PROVE  IInv'
<1>1. query # <<>> /\ ran = <<>> /\ QueryOK(q)
  BY DEF IInv, Building
<1> DEFINE p0 == newQueryPlan(op, stmt, cols)
<1>2. PlanShape(p0) /\ p0.op = op /\ p0.stmt = stmt
  <2>1. stmt.op = op
    OBVIOUS
  <2> HIDE DEF p0
  <2>2. p0 = newQueryPlan(op, stmt, cols)
    BY DEF p0
  <2> QED BY <2>1, <2>2, NewPlanShape
<1> HIDE DEF p0
<1>3. PlanOK(finalizePlan(p0, q), q)
  BY <1>1, <1>2, FinalizeOK
<1>4. Planned(finalizePlan(p0, q))
  BY DEF p0
<1> QED BY <1>1, <1>3, <1>4, PlanStep

StatementFields == {"op", "tables", "join", "where", "rows", "conflict", "raw"}
LEMMA StatementIs ==
  \A op, k, tree :
     /\ Statement(op, k, tree).op = op /\ Statement(op, k, tree).tables = Tables(k)
     /\ Statement(op, k, tree).join = k.join /\ Statement(op, k, tree).raw = ""
     /\ DOMAIN Statement(op, k, tree) = StatementFields
BY DEF Statement, StatementFields

LEMMA SelectUpdateDelete ==
  ASSUME IInv
  PROVE  /\ PlanSelect => IInv'
         /\ \A col : PlanUpdate(col) => IInv'
         /\ PlanDelete => IInv'
<1>1. ASSUME PlanSelect PROVE IInv'
  <2> DEFINE stmt == Statement("select", q, Tree(policyBuilder(q)))
             cols == IF q.cols = {} THEN {<<"", "*">>} ELSE q.cols
  <2>1. Building /\ Planned(finalizePlan(newQueryPlan("select", stmt, cols), q))
    BY <1>1 DEF PlanSelect
  <2>2. stmt.op = "select" /\ stmt.tables = Tables(q) /\ stmt.join = q.join /\ stmt.raw = ""
    BY StatementIs, ZenonT(120)
  <2> HIDE DEF stmt, cols
  <2>3. StatementOK(stmt, q)
    BY <2>2 DEF StatementOK
  <2> QED BY <2>1, <2>2, <2>3, PlanMade
<1>2. ASSUME NEW col, PlanUpdate(col) PROVE IInv'
  <2> DEFINE base == Statement("update", q, Tree(policyBuilder(q)))
             stmt == [base EXCEPT !.rows = <<[c \in {col} |-> Number(9)]>>]
  <2>1. /\ Building /\ Planned(finalizePlan(newQueryPlan("update", stmt, {<<"", col>>}), q))
        /\ q.settings.strict => tenantWriteColumn(q.policy, col, TRUE)
    BY <1>2 DEF PlanUpdate
  <2>2. /\ base.op = "update" /\ base.tables = Tables(q) /\ base.join = q.join /\ base.raw = ""
        /\ DOMAIN base = StatementFields
    BY StatementIs, ZenonT(120)
  <2> HIDE DEF base
  <2>3. /\ stmt.op = "update" /\ stmt.tables = Tables(q) /\ stmt.join = q.join /\ stmt.raw = ""
        /\ DOMAIN stmt.rows[1] = {col}
    BY <2>2 DEF StatementFields
  <2>4. q.settings.strict => q.policy.tenant \notin {col}
    BY <2>1 DEF tenantWriteColumn
  <2> HIDE DEF stmt
  <2>5. StatementOK(stmt, q)
    BY <2>3, <2>4 DEF StatementOK
  <2> QED BY <2>1, <2>3, <2>5, PlanMade
<1>3. ASSUME PlanDelete PROVE IInv'
  <2> DEFINE stmt == Statement("delete", q, Tree(policyBuilder(q)))
  <2>1. Building /\ Planned(finalizePlan(newQueryPlan("delete", stmt, {}), q))
    BY <1>3 DEF PlanDelete
  <2>2. stmt.op = "delete" /\ stmt.tables = Tables(q) /\ stmt.join = q.join /\ stmt.raw = ""
    BY StatementIs, ZenonT(120)
  <2> HIDE DEF stmt
  <2>3. StatementOK(stmt, q)
    BY <2>2 DEF StatementOK
  <2> QED BY <2>1, <2>2, <2>3, PlanMade
<1> QED BY <1>1, <1>2, <1>3

LEMMA InsertOK ==
  ASSUME IInv, NEW ins \in Inserts, PlanInsert(ins)
  PROVE  IInv'
<1> DEFINE filled == [i \in DOMAIN ins.rows |-> Filled(q, ins.rows[i])]
           rows == IF q.settings.strict THEN filled ELSE ins.rows
           base == Statement("insert", q, NoTree)
           stmt == [base EXCEPT !.rows = rows, !.conflict = ins.conflict,
                                !.join = <<>>, !.tables = SubSeq(@, 1, 1)]
           cols == {<<"", c>> : c \in DOMAIN rows[1]}
<1>1. /\ Building /\ q.join = <<>>
      /\ q.settings.strict => tenantRows(q, rows, ins.conflict)
      /\ Planned(finalizePlan(newQueryPlan("insert", stmt, cols), q))
  BY DEF PlanInsert
<1>2. IsSeq(ins.rows) /\ IsSeq(ins.conflict)
  BY GateAssumption DEF InsertAssumption, IsSeq
<1>3. IsSeq(rows)
  <2>1. IsSeq(filled)
    <3>1. DOMAIN ins.rows = 1..Len(ins.rows) /\ Len(ins.rows) \in Nat
      BY <1>2 DEF IsSeq
    <3> DEFINE S == {filled[i] : i \in DOMAIN ins.rows}
    <3>2. filled \in Seq(S)
      BY <3>1
    <3> HIDE DEF S, filled
    <3> QED BY <3>2, SeqIsSeq
  <2> QED BY <1>2, <2>1
<1> HIDE DEF rows
<1>4. /\ base.op = "insert" /\ base.tables = Tables(q) /\ base.join = q.join /\ base.raw = ""
      /\ DOMAIN base = StatementFields
  BY StatementIs, ZenonT(60)
<1> HIDE DEF base
<1>5. SubSeq(Tables(q), 1, 1) = Tables(q)
  <2>3. Tables(q) = <<TableRef("orders", q.alias)>>
    <3>1. q.join = <<>> => [i \in DOMAIN q.join |-> TableRef("users", "")] = <<>>
      OBVIOUS
    <3>2. \A t : <<t>> \o <<>> = <<t>>
      OBVIOUS
    <3> QED BY <1>1, <3>1, <3>2 DEF Tables
  <2>4. ASSUME NEW t PROVE SubSeq(<<t>>, 1, 1) = <<t>>
    <3>1. <<t>> \in Seq({t}) /\ 1 \in 1..(Len(<<t>>) + 1) /\ 1 \in 0..Len(<<t>>)
      OBVIOUS
    <3>2. SubSeq(<<t>>, 1, 1) \in Seq({t}) /\ Len(SubSeq(<<t>>, 1, 1)) = 1
      BY <3>1, SubSeqProperties
    <3>3. \A s \in Seq({t}) : Len(s) = 1 => s = <<t>>
      OBVIOUS
    <3> QED BY <3>2, <3>3
  <2> QED BY <2>3, <2>4
<1>6. /\ stmt.op = "insert" /\ stmt.tables = Tables(q) /\ stmt.join = q.join /\ stmt.raw = ""
      /\ stmt.rows = rows /\ stmt.conflict = ins.conflict
  BY <1>1, <1>4, <1>5 DEF StatementFields
<1> HIDE DEF stmt, cols
<1>7. StatementOK(stmt, q)
  BY <1>1, <1>2, <1>3, <1>6 DEF StatementOK
<1> QED BY <1>1, <1>6, <1>7, PlanMade

\* RETURNING: the inspected plan is judged again under the same query.
LEMMA ReturningOK ==
  ASSUME IInv, NEW col, PlanReturning(col)
  PROVE  IInv'
<1> DEFINE p == plan[1].inspection
           m == [p.meta EXCEPT !.returning = {<<"", col>>}]
           p0 == [p EXCEPT !.meta.returning = {<<"", col>>},
                           !.warnings = {}, !.level = "low", !.approval = NoApproval]
<1>1. /\ plan # <<>> /\ ran = <<>> /\ plan[1].stmt.op \in {"insert", "update", "delete"}
      /\ Planned(finalizePlan(p0, q))
  BY DEF PlanReturning
<1>2. query # <<>> /\ QueryOK(q) /\ PlanOK(plan[1], q)
  BY <1>1 DEF IInv
<1>3. PlanShape(p) /\ StatementOK(p.stmt, q) /\ plan[1].stmt = p.stmt
  BY <1>2 DEF PlanOK
<1> HIDE DEF p
<1>4. DOMAIN p = PlanFields /\ DOMAIN p.meta = MetaFields
  BY <1>3 DEF PlanShape
<1>5. Kept(p, p0) /\ p0.evidence = p.evidence
  <2>1. DOMAIN m = MetaFields
    BY <1>4
  <2>2. p0.meta = m /\ DOMAIN p0 = PlanFields
    BY <1>4 DEF PlanFields
  <2>3. /\ p0.op = p.op /\ p0.stmt = p.stmt /\ p0.tables = p.tables /\ p0.join = p.join /\ p0.where = p.where
        /\ p0.src = p.src /\ p0.cols = p.cols /\ p0.unverified = p.unverified /\ p0.evidence = p.evidence
    BY <1>4 DEF PlanFields
  <2> HIDE DEF p0, m
  <2> QED BY <2>1, <2>2, <2>3 DEF Kept
<1> HIDE DEF p0
<1>6. PlanShape(p0)
  <2>1. p0.evidence # <<>> => p0.op \in {"update", "delete"}
    BY <1>3, <1>5 DEF PlanShape, Kept
  <2> QED BY <1>3, <1>5, <2>1, KeptShape
<1>7. p0.stmt = p.stmt /\ p0.op # "raw"
  BY <1>1, <1>3, <1>5 DEF Kept, PlanShape
<1>8. PlanOK(finalizePlan(p0, q), q)
  BY <1>2, <1>3, <1>6, <1>7, FinalizeOK
<1> QED BY <1>1, <1>2, <1>8, PlanStep

LEMMA RawOK ==
  ASSUME IInv, NEW text, NEW approval, PlanRaw(text, approval)
  PROVE  IInv'
<1> DEFINE s == q.settings
           base == Statement("raw", q, NoTree)
           stmt == [base EXCEPT !.raw = text, !.join = <<>>]
           p0 == newQueryPlan("raw", stmt, {})
           r == finalizePlanWithSettings(p0, NoApproval, <<>>, NoPolicy, s)
           p == Approving(r, approval)
           x == sealExecution(p, s)
           sp == Scoped(p0)
           j == Judged(sp, s, Findings(sp, NoPolicy, s), <<>>)
<1>1. Building /\ Size(q) = 0 /\ Planned(x)
  BY DEF PlanRaw, Approving
<1>2. query # <<>> /\ ran = <<>> /\ QueryOK(q)
  BY <1>1 DEF IInv, Building
<1>3. q.join = <<>>
  <2>1. IsSeq(q.conds) /\ IsSeq(q.join) /\ q.options \in Nat
    BY <1>2 DEF QueryOK
  <2>2. Len(q.conds) \in Nat /\ Len(q.join) \in Nat
    BY <2>1 DEF IsSeq
  <2>3. Len(q.join) = 0
    <3>1. Len(q.conds) + Len(q.join) + q.options = 0
      BY <1>1 DEF Size
    <3>2. \A a, b, c \in Nat : a + b + c = 0 => b = 0
      OBVIOUS
    <3> QED BY <2>1, <2>2, <3>1, <3>2, Zenon
  <2> QED BY <2>1, <2>3 DEF IsSeq
<1>4. /\ base.op = "raw" /\ base.tables = Tables(q) /\ base.join = q.join /\ DOMAIN base = StatementFields
  BY StatementIs, ZenonT(60)
<1> HIDE DEF base
<1>5. stmt.op = "raw" /\ stmt.tables = Tables(q) /\ stmt.join = q.join
  BY <1>3, <1>4 DEF StatementFields
<1> HIDE DEF stmt
<1>6. StatementOK(stmt, q)
  BY <1>5 DEF StatementOK
<1>7. PlanShape(p0) /\ p0.op = "raw" /\ p0.stmt = stmt /\ p0.evidence = <<>>
  BY <1>5, NewPlanShape
<1> HIDE DEF p0
<1>8. DOMAIN p0 = PlanFields /\ DOMAIN p0.meta = MetaFields
  BY <1>7 DEF PlanShape
<1>9. /\ Kept(p0, r) /\ r.evidence = p0.evidence
      /\ s.strict => r.tenantEvidence = <<[failed |-> TRUE, view |-> <<>>]>>
      /\ ~s.strict /\ ~r.blocked => ~j.blocked /\ (r.requiredApproval <=> j.requiredApproval)
  <2>1. RawStrict(p0, s) <=> s.strict
    BY <1>7 DEF RawStrict
  <2> QED BY <1>8, <2>1, SettingsJudge
<1>10. Kept(p0, sp)
  BY <1>8, ScopedKeeps
<1> HIDE DEF r, sp
<1>11. /\ Kept(r, p) /\ p.evidence = r.evidence /\ p.tenantEvidence = r.tenantEvidence /\ p.approval = approval
       /\ p.blocked <=> r.blocked
       /\ p.requiredApproval <=> r.requiredApproval
  BY <1>9 DEF Kept, Approving, PlanFields
<1> HIDE DEF p
<1>12. Kept(p0, p)
  BY <1>9, <1>11, KeptTrans
<1>13. PlanShape(p) /\ p.evidence = <<>>
  <2>1. p.evidence = <<>>
    BY <1>7, <1>9, <1>11
  <2> QED BY <1>7, <1>12, <2>1, KeptShape
<1>14. p.stmt = stmt
  BY <1>7, <1>12 DEF Kept
<1>15. EvidenceFacts(p, q)
  <2>1. s.strict => p.tenantEvidence # <<>> /\ p.tenantEvidence[1].failed
    BY <1>9, <1>11
  <2> QED BY <1>13, <2>1 DEF EvidenceFacts
<1>16. /\ x.pub = p /\ x.inspection = p /\ x.stmt = p.stmt /\ x.at = clock
       /\ x.gate => ensurePlanExecutable(p)
       /\ x.expires = IF p.requiredApproval THEN p.approval.expires ELSE 0
       /\ DOMAIN x = SealFields
  BY DEF sealExecution, SealFields
<1> HIDE DEF x
<1>17. ASSUME x.gate
       PROVE  checkTenantEvidence(p) /\ RiskFacts(p, q, clock) /\ PolicyFacts(p, q)
  <2>1. checkTenantEvidence(p) /\ ~p.blocked /\ (p.requiredApproval => p.approval.given)
    BY <1>16, <1>17 DEF ensurePlanExecutable
  <2>2. ~s.strict
    BY <2>1, <1>9, <1>11 DEF checkTenantEvidence
  <2>3. ~j.blocked /\ (p.requiredApproval <=> j.requiredApproval)
    BY <2>1, <2>2, <1>9, <1>11
  <2>4. DOMAIN sp = PlanFields /\ sp.op = sp.stmt.op /\ sp.src = sp.stmt.where /\ p.stmt = sp.stmt
    BY <1>7, <1>10, <1>14 DEF Kept, PlanShape
  <2> DEFINE none == <<>>
  <2>5. IsSeq(none) /\ \A i \in DOMAIN none : i \in DOMAIN q.sups /\ none[i] = q.sups[i]
    BY SmallSeqs
  <2>6. /\ Weak(p.stmt) => AnsweredIn(p, q, clock, "WEAK_PREDICATE", "high", TRUE)
        /\ p.stmt.op = "raw" => ApprovedIn(p) \/ LoweredIn(q, "RAW_SQL_USED", "high")
        /\ p.stmt.raw = "drop" => ApprovedIn(p) \/ LoweredIn(q, "DESTRUCTIVE_SQL_DETECTED", "destructive")
    <3>1. j = Judged(sp, q.settings, Findings(sp, NoPolicy, q.settings), none)
      OBVIOUS
    <3> HIDE DEF j
    <3> QED BY <1>2, <2>1, <2>3, <2>4, <2>5, <3>1, AnswersFound
  <2>7. p.stmt.op = "raw"
    BY <1>5, <1>14
  <2>8. RiskFacts(p, q, clock)
    BY <2>2, <2>6, <2>7 DEF RiskFacts
  <2>9. PolicyFacts(p, q)
    BY <2>7 DEF PolicyFacts
  <2> QED BY <2>1, <2>8, <2>9
<1>18. DOMAIN p = PlanFields
  BY <1>12 DEF Kept
<1>19. PlanOK(x, q)
  BY <1>6, <1>13, <1>14, <1>15, <1>16, <1>17, <1>18 DEF PlanOK
<1> QED BY <1>1, <1>2, <1>19, PlanStep

(***************************************************************************)
(* The registry, the clock, other sessions and edits of the public plan.   *)
(***************************************************************************)
LEMMA NothingRan ==
  ASSUME ran' = <<>>
  PROVE  TenantIsolation' /\ RiskIsGoverned'
BY DEF TenantIsolation, RiskIsGoverned, RiskAnsweredFor, PolicyIsEnforced

LEMMA RegistryOK ==
  ASSUME IInv
  PROVE  /\ \A p \in PolicySet : RegisterTablePolicy(p) => IInv'
         /\ ResetPolicyRegistry => IInv'
         /\ \A s \in SettingsSet : New(s) => IInv'
<1>1. ASSUME NEW p \in PolicySet, RegisterTablePolicy(p) PROVE IInv'
  <2> DEFINE n == normalizeTablePolicy(p)
  <2>1. n.table = p.table
    <3>1. DOMAIN p = DOMAIN NoPolicy
      BY GateAssumption DEF PolicyAssumption
    <3>2. "table" \in DOMAIN NoPolicy
      BY DEF NoPolicy
    <3> QED BY <3>1, <3>2 DEF normalizeTablePolicy
  <2>2. /\ registry' = {r \in registry : r.table # p.table} \cup {n} /\ query = <<>>
        /\ UNCHANGED <<clock, query, plan, db, ran, events>>
    BY <1>1 DEF RegisterTablePolicy
  <2> HIDE DEF n
  <2>3. OnePerTable(registry)'
    BY <2>1, <2>2 DEF OnePerTable, IInv
  <2>4. plan = <<>> /\ ran = <<>>
    BY <2>2 DEF IInv
  <2>5. TenantIsolation' /\ RiskIsGoverned'
    BY <2>2, <2>4, NothingRan
  <2>6. query' = <<>> /\ plan' = <<>> /\ ran' = <<>> /\ db' = db
    BY <2>2, <2>4
  <2>7. \A r \in db' : DOMAIN r = DOMAIN Columns("orders")
    BY <2>4, <2>6 DEF IInv
  <2> QED BY <2>3, <2>5, <2>6, <2>7 DEF IInv
<1>2. ASSUME ResetPolicyRegistry PROVE IInv'
  <2>1. registry' = {} /\ ran = <<>> /\ UNCHANGED <<clock, query, plan, db, ran>>
    BY <1>2 DEF ResetPolicyRegistry, Happens
  <2>2. OnePerTable(registry)' /\ q' = q
    BY <2>1 DEF OnePerTable, q
  <2>3. TenantIsolation' /\ RiskIsGoverned'
    BY <2>1, NothingRan
  <2>4. (plan' # <<>> => query' # <<>>) /\ (ran' # <<>> => plan' # <<>>)
    BY <2>1 DEF IInv
  <2>5. /\ \A r \in db' : DOMAIN r = DOMAIN Columns("orders")
        /\ query' # <<>> => QueryOK(q') /\ \A c \in q'.settings.dbkeys : Unique(db', c)
        /\ plan' # <<>> => PlanOK(plan'[1], q')
    BY <2>1, <2>2 DEF IInv
  <2> QED BY <2>2, <2>3, <2>4, <2>5 DEF IInv
<1>3. ASSUME NEW s \in SettingsSet, New(s) PROVE IInv'
  <2> DEFINE k == NewQueryRecord(SnapshotDefaultSettings(s))
  <2>1. /\ query = <<>> /\ query' = <<k>> /\ \A c \in s.dbkeys : Unique(db, c)
        /\ UNCHANGED <<registry, clock, plan, db, ran, events>>
    BY <1>3 DEF New
  <2>2. plan = <<>> /\ ran = <<>> /\ OnePerTable(registry)
    BY <2>1 DEF IInv
  <2>3. QueryOK(k) /\ k.settings.dbkeys = s.dbkeys
    BY <2>2, NewQueryOK
  <2> HIDE DEF k
  <2>4. q' = k /\ query' # <<>> /\ plan' = <<>> /\ ran' = <<>> /\ db' = db /\ OnePerTable(registry)'
    BY <2>1, <2>2 DEF q
  <2>5. TenantIsolation' /\ RiskIsGoverned'
    BY <2>4, NothingRan
  <2>6. \A r \in db' : DOMAIN r = DOMAIN Columns("orders")
    BY <2>2, <2>4 DEF IInv
  <2> QED BY <2>1, <2>3, <2>4, <2>5, <2>6 DEF IInv
<1> QED BY <1>1, <1>2, <1>3

\* Everything the invariant says of a plan is about what was sealed.
LEMMA EditKeeps ==
  ASSUME NEW x, NEW k, PlanOK(x, k), NEW e, DOMAIN e = PlanFields,
         e.approval = x.pub.approval, e.evidence = x.pub.evidence, e.tenantEvidence = x.pub.tenantEvidence
  PROVE  PlanOK([x EXCEPT !.pub = e], k)
<1> DEFINE y == [x EXCEPT !.pub = e]
<1>1. DOMAIN x = SealFields
  BY DEF PlanOK
<1>2. /\ DOMAIN y = SealFields /\ y.pub = e /\ y.inspection = x.inspection /\ y.stmt = x.stmt
      /\ y.at = x.at /\ y.expires = x.expires /\ (y.gate <=> x.gate)
  BY <1>1 DEF SealFields
<1> HIDE DEF y
<1>3. PlanOK(y, k)
  BY <1>2 DEF PlanOK
<1> QED BY <1>3 DEF y

LEMMA BetweenOK ==
  ASSUME IInv
  PROVE  /\ EditPlan => IInv'
         /\ Tick => IInv'
         /\ \A r \in OtherRows : OtherSession(r) => IInv'
<1>1. ASSUME EditPlan PROVE IInv'
  <2>1. /\ plan # <<>> /\ ran = <<>> /\ query # <<>>
        /\ UNCHANGED <<registry, clock, query, db, ran>>
    BY <1>1 DEF EditPlan, Happens, IInv
  <2>2. PICK e \in Edits(plan[1].pub) : plan' = <<[plan[1] EXCEPT !.pub = e]>>
    BY <1>1 DEF EditPlan
  <2> DEFINE pub == plan[1].pub
  <2>3. PlanOK(plan[1], q)
    BY <2>1 DEF IInv
  <2>4. /\ DOMAIN e = PlanFields /\ e.approval = pub.approval /\ e.evidence = pub.evidence
        /\ e.tenantEvidence = pub.tenantEvidence
    <3>1. DOMAIN pub = PlanFields
      BY <2>3 DEF PlanOK
    <3> HIDE DEF pub
    <3>2. e \in Edits(pub)
      BY DEF pub
    <3>3. CASE e = [pub EXCEPT !.blocked = FALSE, !.requiredApproval = FALSE, !.stmt.where = NoTree]
      BY <3>1, <3>3 DEF PlanFields
    <3>4. CASE e = [pub EXCEPT !.where = Equal(<<"", "id">>, Number(1))]
      BY <3>1, <3>4 DEF PlanFields
    <3> QED BY <3>2, <3>3, <3>4 DEF Edits
  <2>5. PlanOK([plan[1] EXCEPT !.pub = e], q)
    BY <2>3, <2>4, EditKeeps
  <2>6. q' = q /\ plan' # <<>> /\ plan'[1] = [plan[1] EXCEPT !.pub = e] /\ query' # <<>> /\ ran' = <<>> /\ db' = db
    BY <2>1, <2>2 DEF q
  <2>7. TenantIsolation' /\ RiskIsGoverned'
    BY <2>6, NothingRan
  <2>8. /\ OnePerTable(registry)' /\ QueryOK(q') /\ PlanOK(plan'[1], q')
        /\ \A r \in db' : DOMAIN r = DOMAIN Columns("orders")
        /\ \A c \in q'.settings.dbkeys : Unique(db', c)
    BY <2>1, <2>5, <2>6 DEF IInv
  <2> QED BY <2>6, <2>7, <2>8 DEF IInv
<1>2. ASSUME Tick PROVE IInv'
  <2>1. ran = <<>> /\ query # <<>> /\ UNCHANGED <<registry, query, plan, db, ran>>
    BY <1>2 DEF Tick, Happens
  <2>2. q' = q
    BY <2>1 DEF q
  <2>3. TenantIsolation' /\ RiskIsGoverned'
    BY <2>1, NothingRan
  <2>4. /\ OnePerTable(registry)' /\ QueryOK(q') /\ (plan' # <<>> => PlanOK(plan'[1], q'))
        /\ \A r \in db' : DOMAIN r = DOMAIN Columns("orders")
        /\ \A c \in q'.settings.dbkeys : Unique(db', c)
    BY <2>1, <2>2 DEF IInv
  <2> QED BY <2>1, <2>3, <2>4 DEF IInv
<1>3. ASSUME NEW r \in OtherRows, OtherSession(r) PROVE IInv'
  <2>1. /\ plan # <<>> /\ ran = <<>> /\ query # <<>> /\ db' = db \cup {r}
        /\ \A c \in q.settings.dbkeys : Unique(db \cup {r}, c)
        /\ UNCHANGED <<registry, clock, query, plan, ran>>
    BY <1>3 DEF OtherSession, Happens, IInv
  <2>2. q' = q
    BY <2>1 DEF q
  <2>3. TenantIsolation' /\ RiskIsGoverned'
    BY <2>1, NothingRan
  <2>4. DOMAIN r = DOMAIN Columns("orders")
    BY GateAssumption DEF RowAssumption
  <2>5. /\ OnePerTable(registry)' /\ QueryOK(q') /\ PlanOK(plan'[1], q')
        /\ \A o \in db' : DOMAIN o = DOMAIN Columns("orders")
        /\ \A c \in q'.settings.dbkeys : Unique(db', c)
    BY <2>1, <2>2, <2>4 DEF IInv
  <2> QED BY <2>1, <2>3, <2>5 DEF IInv
<1> QED BY <1>1, <1>2, <1>3

(***************************************************************************)
(* Running.                                                                *)
(***************************************************************************)
\* Rows a judged statement reaches belong to the tenant, in both tables.
LEMMA ReachedOwn ==
  ASSUME NEW k, QueryOK(k), NEW p, PlanShape(p), StatementOK(p.stmt, k), TenantFacts(p, k), p.op # "insert",
         NEW m \in Reached(p.stmt)
  PROVE  LET own == k.settings.tenant[2]
             orders == PolicyForTable(k.settings.policies, "orders").tenant
             users == PolicyForTable(k.settings.policies, "users").tenant IN
         /\ orders # "" => m[1][orders] = own
         /\ users # "" /\ m[2] # NullUser => m[2][users] = own
<1> DEFINE own == k.settings.tenant[2]
           policies == k.settings.policies
           ts == Targets(p.tables, policies)
           us == Targets(p.stmt.tables, {})
           join == p.stmt.join
           from == IF join = <<>> THEN {<<r, NullUser>> : r \in db} ELSE Joined(join[1], us)
<1>1. /\ p.tables = p.stmt.tables /\ p.join = join /\ p.where = p.stmt.where /\ p.op = p.stmt.op
      /\ p.stmt.tables = Tables(k) /\ join = k.join
  BY DEF PlanShape, StatementOK
<1>2. /\ p.op # "raw" /\ comparableWriteView(p)
      /\ \A i \in DOMAIN p.join : p.join[i].type \in {"inner", "left"}
      /\ \A i \in DOMAIN ts : ts[i].policy.tenant # "" => BoundSomewhere(p, ts, i, own)
  BY DEF TenantFacts
<1>3. p.stmt.raw = ""
  BY <1>1, <1>2 DEF StatementOK
<1>4. m \in from /\ Holds(p.stmt.where, us, m) = "t"
  BY <1>3 DEF Reached
<1>5. IsSeq(k.join)
  BY DEF QueryOK
<1>6. /\ DOMAIN Tables(k) = 1..(1 + Len(k.join)) /\ Len(k.join) \in Nat
      /\ Tables(k)[1] = TableRef("orders", k.alias)
      /\ \A i \in DOMAIN k.join : Tables(k)[i + 1] = TableRef("users", "") /\ i + 1 \in DOMAIN Tables(k)
  BY <1>5, TablesAre
<1>7. /\ 1 \in DOMAIN Tables(k) /\ Tables(k)[1].table = "orders"
      /\ k.join # <<>> => /\ 1 \in DOMAIN k.join /\ 2 \in DOMAIN Tables(k) /\ Tables(k)[2].table = "users"
  <2>1. TableRef("orders", k.alias).table = "orders" /\ TableRef("users", "").table = "users"
    BY DEF TableRef
  <2>2. k.join # <<>> => 1 \in DOMAIN k.join
    BY <1>5 DEF IsSeq
  <2>3. 1 \in DOMAIN Tables(k)
    <3>1. \A n \in Nat : 1 \in 1..(1 + n)
      OBVIOUS
    <3> QED BY <1>6, <3>1, Zenon
  <2>4. 1 + 1 = 2
    OBVIOUS
  <2> QED BY <1>6, <2>1, <2>2, <2>3, <2>4
<1>8. DOMAIN ts = DOMAIN Tables(k) /\ \A i \in DOMAIN ts : ts[i].policy = PolicyForTable(policies, Tables(k)[i].table)
  BY <1>1 DEF Targets, Target
<1>9. \A ref : tenantResolve(ref, ts) = tenantResolve(ref, us)
  BY <1>1, TargetsAgree
<1>10. p.where \in Trees /\ \A i \in DOMAIN p.join : p.join[i].on \in Trees
  BY <1>2 DEF comparableWriteView
<1>11. ASSUME NEW tree \in Trees, NEW i, tenantBound(tree, ts, i, own), Holds(tree, us, m) = "t"
       PROVE  m[i][ts[i].policy.tenant] = own
  <2> HIDE DEF ts, us, own
  <2> QED BY <1>9, <1>11, BoundHolds
<1>12. PolicyForTable(policies, "orders").tenant # "" => m[1][PolicyForTable(policies, "orders").tenant] = own
  <2>1. ts[1].policy = PolicyForTable(policies, "orders") /\ 1 \in DOMAIN ts
    BY <1>7, <1>8
  <2> HIDE DEF ts, us, own
  <2>2. ASSUME ts[1].policy.tenant # "" PROVE tenantBound(p.where, ts, 1, own)
    <3>1. BoundSomewhere(p, ts, 1, own)
      BY <1>2, <2>1, <2>2
    <3>2. ~(1 > 1)
      OBVIOUS
    <3> QED BY <3>1, <3>2, Zenon DEF BoundSomewhere
  <2> QED BY <1>1, <1>4, <1>10, <1>11, <2>1, <2>2
<1>13. ASSUME PolicyForTable(policies, "users").tenant # "", m[2] # NullUser
       PROVE  m[2][PolicyForTable(policies, "users").tenant] = own
  <2>1. join # <<>>
    <3>1. \A r : <<r, NullUser>>[2] = NullUser
      OBVIOUS
    <3> QED BY <1>4, <1>13, <3>1
  <2>2. 1 \in DOMAIN p.join /\ 2 \in DOMAIN ts /\ ts[2].policy = PolicyForTable(policies, "users")
    BY <1>1, <1>7, <1>8, <2>1
  <2>3. m \in Joined(join[1], us)
    BY <1>4, <2>1
  <2> HIDE DEF ts, us, own, from, join
  <2>4. join[1].type \in {"inner", "left"} /\ join[1].on \in Trees /\ p.join[1] = join[1]
    BY <1>1, <1>2, <1>10, <2>2
  <2>5. Holds(join[1].on, us, m) = "t"
    <3> DEFINE inner == {x \in db \X Users : Holds(join[1].on, us, x) = "t"}
               lone == {<<r, NullUser>> : r \in {r \in db : \A x \in inner : x[1] # r}}
    <3>1. m \in inner \/ m \in lone
      BY <2>3, <2>4 DEF Joined
    <3>2. ASSUME m \in lone PROVE FALSE
      <4>1. PICK r : m = <<r, NullUser>>
        BY <3>2
      <4> QED BY <4>1, <1>13
    <3>3. m \in inner
      BY <3>1, <3>2
    <3> QED BY <3>3
  <2>6. tenantBound(p.where, ts, 2, own) \/ tenantBound(join[1].on, ts, 2, own)
    <3>1. BoundSomewhere(p, ts, 2, own)
      BY <1>2, <1>13, <2>2
    <3>2. 2 - 1 = 1
      OBVIOUS
    <3> QED BY <3>1, <3>2, <2>4 DEF BoundSomewhere
  <2>7. CASE tenantBound(p.where, ts, 2, own)
    BY <1>1, <1>4, <1>10, <1>11, <2>2, <2>7
  <2>8. CASE tenantBound(join[1].on, ts, 2, own)
    BY <1>11, <2>2, <2>4, <2>5, <2>8
  <2> QED BY <2>6, <2>7, <2>8
<1> QED BY <1>12, <1>13

\* A statement that may run is one whose findings have an answer now.
LEMMA RiskRuns ==
  ASSUME IInv, Execute
  PROVE  RiskIsGoverned'
<1> DEFINE x == plan[1]
           p == x.inspection
<1>1. /\ plan # <<>> /\ x.gate /\ ~Expired(x.expires, clock)
      /\ UNCHANGED <<clock, query, plan>>
  BY DEF Execute
<1>2. PlanOK(x, q)
  BY <1>1 DEF IInv
<1> HIDE DEF p
<1>3. /\ x.stmt = p.stmt /\ x.pub.approval = p.approval
      /\ x.expires = IF p.requiredApproval THEN p.approval.expires ELSE 0
      /\ RiskFacts(p, q, x.at) /\ PolicyFacts(p, q)
  BY <1>1, <1>2 DEF PlanOK, p
<1>4. plan' = plan /\ q' = q /\ clock' = clock
  BY <1>1 DEF q
<1>5. ApprovedIn(p) => ApprovedNow'
  BY <1>1, <1>3, <1>4 DEF ApprovedIn, ApprovedNow
<1>6. \A code, level : /\ SeverityIn(q, code, level) = Severity(code, level)'
                       /\ LoweredIn(q, code, level) <=> Lowered(code, level)'
  BY <1>4 DEF SeverityIn, LoweredIn, ConfiguredIn, Severity, Lowered, Configured
<1>7. ASSUME NEW code, NEW level, NEW supp \in BOOLEAN, AnsweredIn(p, q, x.at, code, level, supp)
      PROVE  Answered(code, level, supp)'
  <2>1. CASE LoweredIn(q, code, level)
    BY <2>1, <1>6 DEF Answered
  <2>2. CASE ApprovedIn(p) /\ SeverityIn(q, code, level) # "blocked"
    BY <2>2, <1>5, <1>6 DEF Answered
  <2>3. CASE SuppressedIn(q, code, x.at) /\ SuppressibleIn(q, code, supp)
    <3>1. SuppressedAtPlanning(code)'
      BY <2>3, <1>4 DEF SuppressedIn, SuppressedAtPlanning
    <3>2. Suppressible(code, supp)'
      BY <2>3, <1>4 DEF ConfiguredIn, Configured, SuppressibleIn, Suppressible
    <3> QED BY <3>1, <3>2 DEF Answered
  <2> QED BY <1>7, <2>1, <2>2, <2>3 DEF AnsweredIn
<1>8. RiskAnsweredFor'
  <2> DEFINE s == p.stmt
  <2>1. /\ s.op = "update" /\ s.where = NoTree => Answered("UPDATE_WITHOUT_WHERE", "blocked", FALSE)'
        /\ s.op = "delete" /\ s.where = NoTree => Answered("DELETE_WITHOUT_WHERE", "blocked", FALSE)'
        /\ Weak(s) => Answered("WEAK_PREDICATE", "high", TRUE)'
    BY <1>3, <1>7 DEF RiskFacts
  <2>2. /\ s.op = "raw" => ~q.settings.strict /\ (ApprovedNow' \/ Lowered("RAW_SQL_USED", "high")')
        /\ s.raw = "drop" => ApprovedNow' \/ Lowered("DESTRUCTIVE_SQL_DETECTED", "destructive")'
    BY <1>3, <1>5, <1>6 DEF RiskFacts
  <2>3. plan'[1].stmt = s
    BY <1>3, <1>4
  <2> HIDE DEF s
  <2> QED BY <1>4, <2>1, <2>2, <2>3 DEF RiskAnsweredFor, Weak
<1>9. PolicyIsEnforced'
  BY <1>3, <1>4, <1>5 DEF PolicyFacts, PolicyIsEnforced
<1> QED BY <1>8, <1>9 DEF RiskIsGoverned

LEMMA FirstOf ==
  \A s : IsSeq(s) /\ s # <<>> => 1 \in DOMAIN s
<1> SUFFICES ASSUME NEW s, NEW R, s \in Seq(R), s # <<>> PROVE 1 \in DOMAIN s
  BY DEF IsSeq
<1> QED OBVIOUS

\* The rows of other tenants in two contents of a table.
Foreign(rows, col, own) == {r \in rows : r[col] # own}

\* What an insert has done to the table after some of its rows.
OwnSoFar(st, col, own) ==
    /\ \A e \in st.rows : e[col] = own
    /\ Foreign(st.after, col, own) = Foreign(db, col, own)
    /\ \A e \in st.after : DOMAIN e = DOMAIN Columns("orders")

\* A judged row creates, or on conflict changes, a row of the tenant only.
LEMMA InsertRowOwn ==
  ASSUME NEW stmt, NEW i \in DOMAIN stmt.rows, tenantRows(q, stmt.rows, stmt.conflict),
         IsSeq(stmt.conflict), q.policy.tenant # "",
         NEW st, OwnSoFar(st, q.policy.tenant, q.settings.tenant[2]),
         OwnSoFar(Untouched, q.policy.tenant, q.settings.tenant[2])
  PROVE  OwnSoFar(InsertRow(stmt, st, stmt.rows[i]), q.policy.tenant, q.settings.tenant[2])
<1> DEFINE col == q.policy.tenant
           own == q.settings.tenant[2]
           row == stmt.rows[i]
           r == InsertedRow(row)
           keys == q.settings.dbkeys
           met == {e \in st.after : \E key \in keys : SameKey(e, r, key)}
           free == \A key \in keys : (\E e \in st.after : SameKey(e, r, key)) => Covers(stmt, key)
           updates == stmt.conflict[1].updates
           merged(e) == [c \in DOMAIN e |-> IF c \in updates THEN r[c] ELSE e[c]]
           one == CHOOSE e \in met : TRUE
           changed == merged(one)
           first == IF updates = {} THEN {} ELSE {one}
           back == [Untouched EXCEPT !.ok = FALSE]
           refused == ~st.ok \/ r.id = NULL \/ r.tenant = NULL \/ ~free
           result == IF refused THEN back
                     ELSE IF met = {} THEN [ok |-> TRUE, rows |-> st.rows \cup {r}, after |-> st.after \cup {r}]
                     ELSE [ok |-> TRUE, rows |-> st.rows \cup first, after |-> (st.after \ {one}) \cup {changed}]
<1>1. InsertRow(stmt, st, row) = result
  BY DEF InsertRow
<1>2. RowFits(q, row) /\ \A j \in DOMAIN stmt.conflict : ConflictFits(q, stmt.conflict[j], stmt.rows)
  BY DEF tenantRows
<1>3. col \in DOMAIN row /\ col \in DOMAIN Columns("orders") /\ row[col][2] = own
  BY <1>2 DEF RowFits
<1>4. r[col] = own /\ DOMAIN r = DOMAIN Columns("orders")
  BY <1>3 DEF InsertedRow
<1>5. \A e \in st.after : DOMAIN e = DOMAIN Columns("orders")
  BY DEF OwnSoFar
<1>6. ASSUME free, met # {}
      PROVE  one \in st.after /\ one[col] = own /\ changed[col] = own /\ DOMAIN changed = DOMAIN one
  <2> HIDE DEF r
  <2>1. one \in met
    BY <1>6
  <2>2. PICK key \in keys : SameKey(one, r, key)
    <3> HIDE DEF one
    <3> QED BY <2>1
  <2>3. one \in st.after
    <3> HIDE DEF one
    <3> QED BY <2>1
  <2> HIDE DEF one, met
  <2>4. Covers(stmt, key)
    BY <1>6, <2>2, <2>3
  <2>5. 1 \in DOMAIN stmt.conflict
    <3>1. stmt.conflict # <<>>
      BY <2>4 DEF Covers
    <3> QED BY <3>1, FirstOf
  <2>6. ConflictFits(q, stmt.conflict[1], stmt.rows)
    BY <1>2, <2>5
  <2>7. KeyFits(q, key, stmt.conflict[1], stmt.rows) /\ col \notin updates
    BY <2>2, <2>6 DEF ConflictFits, tenantWriteColumn
  <2>8. col \in Range(key)
    BY <2>4, <2>7 DEF KeyFits, Covers
  <2>9. PICK j \in DOMAIN key : key[j] = col
    BY <2>8 DEF Range
  <2>10. one[col] = r[col]
    BY <2>2, <2>9 DEF SameKey
  <2>11. changed[col] = one[col] /\ DOMAIN changed = DOMAIN one
    BY <1>3, <1>5, <2>3, <2>7
  <2> QED BY <1>4, <2>3, <2>10, <2>11
<1> HIDE DEF r, free, met, one, changed, own, col, row
<1>7. \/ result.after = db /\ result.rows = {}
      \/ result.after = st.after \cup {r} /\ result.rows = st.rows \cup {r}
      \/ /\ one \in st.after /\ one[col] = own /\ changed[col] = own /\ DOMAIN changed = DOMAIN one
         /\ result.rows \subseteq st.rows \cup {one}
         /\ result.after = (st.after \ {one}) \cup {changed}
  <2>1. CASE refused
    <3>1. back.rows = {} /\ back.after = db
      BY DEF Untouched
    <3>2. result = back
      BY <2>1
    <3> HIDE DEF result, back
    <3> QED BY <3>1, <3>2
  <2> HIDE DEF back
  <2>2. CASE ~refused /\ met = {}
    BY <2>2
  <2>3. CASE ~refused /\ met # {}
    <3>1. one \in st.after /\ one[col] = own /\ changed[col] = own /\ DOMAIN changed = DOMAIN one
      BY <1>6, <2>3
    <3>2. result = [ok |-> TRUE, rows |-> st.rows \cup first, after |-> (st.after \ {one}) \cup {changed}]
      BY <2>3
    <3> HIDE DEF result
    <3>3. first \subseteq {one}
      OBVIOUS
    <3> HIDE DEF first
    <3> QED BY <3>1, <3>2, <3>3
  <2> QED BY <2>1, <2>2, <2>3
<1> HIDE DEF result
<1>8. OwnSoFar(st, col, own) /\ OwnSoFar(Untouched, col, own)
  BY DEF col, own
<1>9. OwnSoFar(result, col, own)
  <2>1. CASE result.after = db /\ result.rows = {}
    <3>1. Untouched.after = db
      BY DEF Untouched
    <3> QED BY <1>8, <2>1, <3>1 DEF OwnSoFar
  <2>2. CASE result.after = st.after \cup {r} /\ result.rows = st.rows \cup {r}
    BY <1>4, <1>8, <2>2 DEF OwnSoFar, Foreign
  <2>3. CASE /\ one \in st.after /\ one[col] = own /\ changed[col] = own /\ DOMAIN changed = DOMAIN one
             /\ result.rows \subseteq st.rows \cup {one}
             /\ result.after = (st.after \ {one}) \cup {changed}
    <3>1. \A e \in result.rows : e[col] = own
      BY <1>8, <2>3 DEF OwnSoFar
    <3>2. Foreign(result.after, col, own) = Foreign(st.after, col, own)
      BY <2>3 DEF Foreign
    <3>3. \A e \in result.after : DOMAIN e = DOMAIN Columns("orders")
      BY <1>5, <2>3
    <3> QED BY <1>8, <3>1, <3>2, <3>3 DEF OwnSoFar
  <2> QED BY <1>7, <2>1, <2>2, <2>3
<1> QED BY <1>1, <1>9 DEF col, own, row

\* f is the tables an insert goes through, up to row n.
Goes(stmt, n, f) ==
    f = [i \in 0..n |-> IF i = 0 THEN Untouched ELSE InsertRow(stmt, f[i - 1], stmt.rows[i])]

LEMMA GoesExists ==
  ASSUME NEW stmt, NEW m \in Nat
  PROVE  \E f : Goes(stmt, m, f)
<1> DEFINE S == {n \in 0..m : \E f : Goes(stmt, n, f)}
<1>1. 0 \in S
  <2> DEFINE f == [i \in 0..0 |-> Untouched]
  <2>1. Goes(stmt, 0, f)
    BY DEF Goes
  <2> HIDE DEF f
  <2> QED BY <2>1
<1>2. ASSUME NEW n \in 0..m, n \in S, n < m PROVE n + 1 \in S
  <2>1. PICK f : Goes(stmt, n, f)
    BY <1>2
  <2> DEFINE T(h, i) == IF i = 0 THEN Untouched ELSE InsertRow(stmt, h[i - 1], stmt.rows[i])
             g == [i \in 0..(n + 1) |-> T(f, i)]
  <2>2. \A i \in 0..n : f[i] = T(f, i)
    BY <2>1 DEF Goes
  <2>3. \A i \in 0..n : g[i] = f[i]
    <3>1. \A i \in 0..n : i \in 0..(n + 1)
      OBVIOUS
    <3> HIDE DEF T
    <3> QED BY <2>2, <3>1
  <2> HIDE DEF g
  <2>4. \A i \in 0..(n + 1) : i # 0 => g[i - 1] = f[i - 1]
    <3>1. \A i \in 0..(n + 1) : i # 0 => i - 1 \in 0..n
      OBVIOUS
    <3> QED BY <2>3, <3>1
  <2>5. \A i \in 0..(n + 1) : T(f, i) = T(g, i)
    BY <2>4
  <2>6. g = [i \in 0..(n + 1) |-> T(g, i)]
    <3> HIDE DEF T
    <3> QED BY <2>5 DEF g
  <2>7. Goes(stmt, n + 1, g)
    BY <2>6 DEF Goes
  <2>8. n + 1 \in 0..m
    BY <1>2
  <2> QED BY <2>7, <2>8
<1> HIDE DEF S
<1>3. \A n \in 0..m : n \in S
  BY <1>1, <1>2, InductTo
<1> QED BY <1>3 DEF S

LEMMA SeqDomain ==
  \A s : IsSeq(s) => Len(s) \in Nat /\ DOMAIN s = 1..Len(s)
<1> SUFFICES ASSUME NEW s, NEW R, s \in Seq(R) PROVE Len(s) \in Nat /\ DOMAIN s = 1..Len(s)
  BY DEF IsSeq
<1> QED OBVIOUS

LEMMA StepsTo ==
  \A n \in Nat : 0 \in 0..n /\ n \in 0..n /\ \A i \in 1..n : i \in 0..n /\ i # 0
OBVIOUS

LEMMA StepAfter ==
  \A n \in Nat : \A i \in 0..n : i < n => i + 1 \in 1..n /\ i + 1 \in 0..n /\ (i + 1) - 1 = i
OBVIOUS

\* An insert of judged rows creates, or on conflict changes, the tenant's rows only.
LEMMA InsertedOwn ==
  ASSUME IInv, query # <<>>, ran = <<>>, q.policy.tenant # "",
         NEW stmt, tenantRows(q, stmt.rows, stmt.conflict), IsSeq(stmt.rows), IsSeq(stmt.conflict)
  PROVE  LET col == q.policy.tenant
             own == q.settings.tenant[2] IN
         /\ \A r \in Inserted(stmt).rows : r[col] = own
         /\ Foreign(Inserted(stmt).after, col, own) = Foreign(db, col, own)
<1> DEFINE col == q.policy.tenant
           own == q.settings.tenant[2]
           n == Len(stmt.rows)
           f == CHOOSE f : Goes(stmt, n, f)
           S == {i \in 0..n : OwnSoFar(f[i], col, own)}
<1>1. n \in Nat /\ DOMAIN stmt.rows = 1..n
  BY SeqDomain
<1>2. Inserted(stmt) = f[n]
  BY DEF Inserted, Goes
<1>3. Goes(stmt, n, f)
  <2> HIDE DEF n
  <2> QED BY <1>1, GoesExists
<1> HIDE DEF f, n
<1>4. f[0] = Untouched /\ \A i \in 1..n : f[i] = InsertRow(stmt, f[i - 1], stmt.rows[i])
  <2> DEFINE T(i) == IF i = 0 THEN Untouched ELSE InsertRow(stmt, f[i - 1], stmt.rows[i])
  <2>1. \A i \in 0..n : f[i] = T(i)
    BY <1>3 DEF Goes
  <2>2. 0 \in 0..n /\ \A i \in 1..n : i \in 0..n /\ i # 0
    BY <1>1, StepsTo
  <2>3. T(0) = Untouched /\ \A i : i # 0 => T(i) = InsertRow(stmt, f[i - 1], stmt.rows[i])
    OBVIOUS
  <2> HIDE DEF T
  <2> QED BY <2>1, <2>2, <2>3
<1>5. OwnSoFar(Untouched, col, own)
  <2>1. \A e \in db : DOMAIN e = DOMAIN Columns("orders")
    BY DEF IInv
  <2> QED BY <2>1 DEF OwnSoFar, Untouched
<1> HIDE DEF col, own
<1>6. 0 \in S
  <2>1. 0 \in 0..n /\ OwnSoFar(f[0], col, own)
    BY <1>1, <1>4, <1>5, StepsTo
  <2> QED BY <2>1
<1>7. ASSUME NEW i \in 0..n, i \in S, i < n PROVE i + 1 \in S
  <2>1. OwnSoFar(f[i], col, own)
    BY <1>7
  <2>2. i + 1 \in 1..n /\ i + 1 \in 0..n /\ (i + 1) - 1 = i
    BY <1>1, <1>7, StepAfter
  <2>3. f[i + 1] = InsertRow(stmt, f[i], stmt.rows[i + 1]) /\ i + 1 \in DOMAIN stmt.rows
    BY <1>1, <1>4, <2>2
  <2>4. OwnSoFar(InsertRow(stmt, f[i], stmt.rows[i + 1]), col, own)
    BY <1>5, <2>1, <2>3, InsertRowOwn DEF col, own
  <2> QED BY <2>2, <2>3, <2>4
<1> HIDE DEF S
<1>8. n \in S
  <2>1. \A i \in 0..n : i \in S /\ i < n => i + 1 \in S
    BY <1>7
  <2>2. n \in Nat /\ n \in 0..n
    BY <1>1, StepsTo
  <2>3. \A i \in 0..n : i \in S
    BY <1>6, <2>1, <2>2, InductTo, Zenon
  <2> QED BY <2>2, <2>3
<1>9. OwnSoFar(Inserted(stmt), col, own)
  BY <1>2, <1>8 DEF S
<1> QED BY <1>9 DEF OwnSoFar, col, own

LEMMA TargetFirst ==
  \A k : IsSeq(k.join) => 1 \in DOMAIN Tables(k) /\ Tables(k)[1].table = "orders"
<1> SUFFICES ASSUME NEW k, IsSeq(k.join) PROVE 1 \in DOMAIN Tables(k) /\ Tables(k)[1].table = "orders"
  OBVIOUS
<1>1. DOMAIN Tables(k) = 1..(1 + Len(k.join)) /\ Len(k.join) \in Nat /\ Tables(k)[1] = TableRef("orders", k.alias)
  BY TablesAre
<1>2. \A n \in Nat : 1 \in 1..(1 + n)
  OBVIOUS
<1>3. TableRef("orders", k.alias).table = "orders"
  BY DEF TableRef
<1> QED BY <1>1, <1>2, <1>3, Zenon

\* Without a join the target's rows are the table's.
LEMMA ReachedStored ==
  ASSUME NEW stmt, stmt.join = <<>>, NEW m \in Reached(stmt)
  PROVE  m[1] \in db /\ m[2] = NullUser
<1>1. m \in {<<r, NullUser>> : r \in db}
  BY DEF Reached
<1>2. PICK r \in db : m = <<r, NullUser>>
  BY <1>1
<1> QED BY <1>2

\* What a judged SELECT, UPDATE or DELETE leaves of the other tenants' rows.
LEMMA AfterOwn ==
  ASSUME NEW k, QueryOK(k), NEW p, PlanShape(p), StatementOK(p.stmt, k), TenantFacts(p, k), p.op # "insert",
         k.settings.strict, k.policy.tenant # "", \A r \in db : DOMAIN r = DOMAIN Columns("orders")
  PROVE  LET col == k.policy.tenant
             own == k.settings.tenant[2] IN
         Foreign(After(p.stmt), col, own) = Foreign(db, col, own)
<1> DEFINE col == k.policy.tenant
           own == k.settings.tenant[2]
           stmt == p.stmt
           hit == {m[1] : m \in Reached(stmt)} \cap db
<1>1. k.policy = PolicyForTable(k.settings.policies, "orders")
  BY DEF QueryOK
<1>2. \A r \in hit : r[col] = own
  BY <1>1, ReachedOwn, ZenonT(60)
<1>3. /\ stmt.op = p.op /\ p.op # "raw" /\ stmt.raw = ""
      /\ p.op # "select" => stmt.join = <<>>
      /\ stmt.op = "update" => col \notin DOMAIN stmt.rows[1]
  BY DEF PlanShape, TenantFacts, StatementOK
<1>4. stmt.op # "select" => hit \subseteq db
  <2>1. ASSUME stmt.op # "select", NEW m \in Reached(stmt) PROVE m[1] \in db
    BY <1>3, <2>1, ReachedStored
  <2> QED BY <2>1
<1> HIDE DEF hit, own
<1>5. CASE stmt.op = "update"
  <2>1. After(stmt) = (db \ hit) \cup {Assigned(stmt, r) : r \in hit}
    BY <1>3, <1>5 DEF After, hit
  <2>2. \A r \in hit : Assigned(stmt, r)[col] = own
    <3>1. col \in DOMAIN Columns("orders")
      <4> DEFINE ts == Targets(p.tables, k.settings.policies)
      <4>1. ~TargetsFail(k.settings, p.tables)
        BY DEF TenantFacts
      <4>2. p.tables = Tables(k) /\ IsSeq(k.join)
        BY DEF PlanShape, StatementOK, QueryOK
      <4>3. 1 \in DOMAIN Tables(k) /\ Tables(k)[1].table = "orders"
        BY <4>2, TargetFirst
      <4>4. 1 \in DOMAIN p.tables
        BY <4>2, <4>3
      <4>5. p.tables[1].table = "orders"
        BY <4>2, <4>3
      <4>6. /\ Target(p.tables[1], k.settings.policies).policy = k.policy
            /\ Target(p.tables[1], k.settings.policies).cols = Columns("orders")
        BY <1>1, <4>5 DEF Target
      <4>7. tenantColumn(Target(p.tables[1], k.settings.policies), col)
        BY <4>1, <4>4, <4>6 DEF TargetsFail
      <4> QED BY <4>6, <4>7 DEF tenantColumn
    <3>2. \A r \in hit : col \in DOMAIN r
      BY <1>4, <1>5, <3>1
    <3> QED BY <1>2, <1>3, <1>5, <3>2 DEF Assigned
  <2> QED BY <1>2, <2>1, <2>2 DEF Foreign, own
<1>6. CASE stmt.op = "delete"
  <2>1. After(stmt) = db \ hit
    BY <1>3, <1>6 DEF After, hit
  <2> QED BY <1>2, <2>1 DEF Foreign, own
<1>7. CASE stmt.op \notin {"update", "delete"}
  BY <1>3, <1>7 DEF After
<1> QED BY <1>5, <1>6, <1>7

\* An open gate under strict settings means a judged statement, unchanged since.
LEMMA StrictGate ==
  ASSUME NEW x, NEW k, PlanOK(x, k), x.gate, k.settings.strict
  PROVE  TenantFacts(x.inspection, k)
<1> DEFINE p == x.inspection
<1>1. checkTenantEvidence(p) /\ EvidenceFacts(p, k)
  BY DEF PlanOK
<1> HIDE DEF p
<1>2. p.tenantEvidence # <<>> /\ (~p.tenantEvidence[1].failed => TenantFacts(p, k))
  BY <1>1 DEF EvidenceFacts
<1>3. ~p.tenantEvidence[1].failed
  BY <1>1, <1>2 DEF checkTenantEvidence
<1>4. TenantFacts(p, k)
  BY <1>2, <1>3
<1> QED BY <1>4 DEF p

\* What runs reads, changes and creates rows of the tenant only.
LEMMA TenantRuns ==
  ASSUME IInv, Execute
  PROVE  TenantIsolation'
<1> DEFINE x == plan[1]
           p == x.inspection
           stmt == x.stmt
           policies == q.settings.policies
           own == q.settings.tenant[2]
           col == PolicyForTable(policies, "orders").tenant
           ucol == PolicyForTable(policies, "users").tenant
           mine == Reached(stmt)
           hit == {m[1] : m \in mine} \ {NullOrder}
           met == {m[2] : m \in mine} \ {NullUser}
           Safe(r, u, after) == /\ col # "" => /\ \A o \in r : o[col] = own
                                               /\ Foreign(after, col, own) = Foreign(db, col, own)
                                /\ ucol # "" => \A o \in u : o[ucol] = own
<1>1. /\ plan # <<>> /\ ran = <<>> /\ x.gate /\ UNCHANGED <<query, plan>>
      /\ stmt.op = "insert" => /\ ran' = <<[orders |-> Inserted(stmt).rows, users |-> {}, before |-> db]>>
                               /\ db' = Inserted(stmt).after
      /\ stmt.op # "insert" => /\ ran' = <<[orders |-> hit, users |-> met, before |-> db]>>
                               /\ db' = After(stmt)
  BY DEF Execute
<1>2. query # <<>> /\ QueryOK(q) /\ PlanOK(x, q) /\ \A r \in db : DOMAIN r = DOMAIN Columns("orders")
  BY <1>1 DEF IInv
<1> HIDE DEF x, hit, met
<1>3. q.policy = PolicyForTable(policies, "orders")
  BY <1>2 DEF QueryOK
<1>4. PlanShape(p) /\ StatementOK(p.stmt, q) /\ stmt = p.stmt /\ p.op = stmt.op
  BY <1>2 DEF PlanOK, PlanShape
<1>5. ASSUME q.settings.strict PROVE \E r, u, after : /\ Safe(r, u, after) /\ db' = after
                                                      /\ ran' = <<[orders |-> r, users |-> u, before |-> db]>>
  <2>1. TenantFacts(p, q)
    BY <1>1, <1>2, <1>5, StrictGate
  <2> HIDE DEF p
  <2>2. CASE stmt.op = "insert"
    <3>1. tenantRows(q, stmt.rows, stmt.conflict) /\ IsSeq(stmt.rows) /\ IsSeq(stmt.conflict)
      BY <1>4, <1>5, <2>2 DEF StatementOK
    <3>2. col # "" => /\ \A r \in Inserted(stmt).rows : r[col] = own
                      /\ Foreign(Inserted(stmt).after, col, own) = Foreign(db, col, own)
      BY <1>1, <1>2, <1>3, <3>1, InsertedOwn
    <3> HIDE DEF stmt, col, own, ucol
    <3>3. Safe(Inserted(stmt).rows, {}, Inserted(stmt).after)
      BY <3>2
    <3> HIDE DEF Safe
    <3> QED BY <1>1, <2>2, <3>3
  <2>3. CASE stmt.op # "insert"
    <3>1. ASSUME NEW m \in mine
          PROVE  (col # "" => m[1][col] = own) /\ (ucol # "" /\ m[2] # NullUser => m[2][ucol] = own)
      BY <1>2, <1>4, <2>1, <2>3, ReachedOwn
    <3>2. col # "" => Foreign(After(stmt), col, own) = Foreign(db, col, own)
      BY <1>2, <1>3, <1>4, <1>5, <2>1, <2>3, AfterOwn
    <3> HIDE DEF stmt, col, own, ucol, mine
    <3>3. Safe(hit, met, After(stmt))
      BY <3>1, <3>2 DEF hit, met
    <3> HIDE DEF Safe
    <3> QED BY <1>1, <2>3, <3>3
  <2> QED BY <2>2, <2>3
<1>6. q' = q
  BY <1>1 DEF q
<1>7. CASE q.settings.strict
  <2>1. PICK r, u, after : /\ Safe(r, u, after) /\ db' = after
                           /\ ran' = <<[orders |-> r, users |-> u, before |-> db]>>
    BY <1>5, <1>7
  <2>2. ran'[1].orders = r /\ ran'[1].users = u /\ ran'[1].before = db
    BY <2>1
  <2>3. TenantOf("orders")' = col /\ TenantOf("users")' = ucol /\ Own' = own
    BY <1>6 DEF TenantOf, Own
  <2> HIDE DEF col, ucol, own
  <2> QED BY <2>1, <2>2, <2>3 DEF TenantIsolation, Foreign
<1>8. CASE ~q.settings.strict
  BY <1>6, <1>8 DEF TenantIsolation
<1> QED BY <1>7, <1>8

LEMMA ExecuteOK ==
  ASSUME IInv, Execute
  PROVE  IInv'
<1>1. /\ plan # <<>> /\ ran' # <<>> /\ UNCHANGED <<registry, clock, query, plan, events>>
  <2>1. /\ plan # <<>> /\ UNCHANGED <<registry, clock, query, plan, events>>
    BY DEF Execute
  <2>2. ran' # <<>>
    BY DEF Execute
  <2> QED BY <2>1, <2>2
<1>2. q' = q
  BY <1>1 DEF q
<1>3. TenantIsolation' /\ RiskIsGoverned'
  BY TenantRuns, RiskRuns
<1>4. OnePerTable(registry)' /\ query' # <<>> /\ plan' # <<>> /\ QueryOK(q') /\ PlanOK(plan'[1], q')
  BY <1>1, <1>2 DEF IInv
<1> QED BY <1>1, <1>3, <1>4 DEF IInv

LEMMA InvInit == Init => IInv
<1> SUFFICES ASSUME Init PROVE IInv
  OBVIOUS
<1>1. /\ registry = {} /\ query = <<>> /\ plan = <<>> /\ ran = <<>> /\ db \in Databases
  BY DEF Init
<1>2. \A r \in db : DOMAIN r = DOMAIN Columns("orders")
  BY <1>1, GateAssumption DEF RowAssumption
<1>3. TenantIsolation /\ RiskIsGoverned
  BY <1>1 DEF TenantIsolation, RiskIsGoverned, RiskAnsweredFor, PolicyIsEnforced
<1> QED BY <1>1, <1>2, <1>3 DEF IInv, OnePerTable

LEMMA InvStutters ==
  ASSUME IInv, UNCHANGED vars
  PROVE  IInv'
<1>1. UNCHANGED <<registry, clock, query, plan, db, ran, events>>
  BY DEF vars
<1>2. q' = q
  BY <1>1 DEF q
<1>3. TenantIsolation'
  BY <1>1, <1>2 DEF IInv, TenantIsolation, TenantOf, Own
<1>4. \A code, level, supp : Answered(code, level, supp)' <=> Answered(code, level, supp)
  BY <1>1, <1>2 DEF Answered, Suppressible, ApprovedNow, SuppressedAtPlanning, Lowered, Severity, Configured
<1>5. (ApprovedNow' <=> ApprovedNow) /\ \A code, level : Lowered(code, level)' <=> Lowered(code, level)
  BY <1>1, <1>2 DEF ApprovedNow, Lowered, Severity, Configured
<1>6. RiskAnsweredFor' /\ PolicyIsEnforced'
  BY <1>1, <1>2, <1>4, <1>5 DEF IInv, RiskIsGoverned, RiskAnsweredFor, PolicyIsEnforced
<1> QED BY <1>1, <1>2, <1>3, <1>6 DEF IInv, RiskIsGoverned

LEMMA InvStep ==
  ASSUME IInv, [Next]_vars
  PROVE  IInv'
<1>1. ASSUME NEW p \in PolicySet, RegisterTablePolicy(p) PROVE IInv'
  BY <1>1, RegistryOK
<1>2. CASE ResetPolicyRegistry
  BY <1>2, RegistryOK
<1>3. ASSUME NEW s \in SettingsSet, New(s) PROVE IInv'
  BY <1>3, RegistryOK
<1>4. ASSUME NEW c \in Conditions, AddCondition(c, FALSE) \/ AddCondition(c, TRUE) PROVE IInv'
  BY <1>4, BuildActions
<1>5. ASSUME NEW given \in BOOLEAN, RequireApproval(given) PROVE IInv'
  BY <1>5, BuildActions
<1>6. ASSUME NEW code \in Suppressions, SuppressWarning(code, 2) PROVE IInv'
  BY <1>6, BuildActions
<1>7. CASE RequirePredicates("orders", "tenant")
  BY <1>7, BuildActions
<1>8. CASE WithDeleted \/ OnlyDeleted
  BY <1>8, BuildActions
<1>9. CASE WithWriteKeyContext(q.settings.dbkeys)
  BY <1>9, BuildActions
<1>10. ASSUME NEW cols \in Projections, Select(cols) PROVE IInv'
  BY <1>10, BuildActions
<1>11. ASSUME NEW j \in JoinClauses, JoinTable(j.type, j.on) PROVE IInv'
  BY <1>11, BuildActions
<1>12. CASE PlanSelect \/ PlanDelete
  BY <1>12, SelectUpdateDelete
<1>13. ASSUME NEW c \in {"x", "tenant"}, PlanUpdate(c) PROVE IInv'
  BY <1>13, SelectUpdateDelete
<1>14. ASSUME NEW ins \in Inserts, PlanInsert(ins) PROVE IInv'
  BY <1>14, InsertOK
<1>15. CASE PlanReturning("del")
  BY <1>15, ReturningOK
<1>16. ASSUME NEW text \in {"read", "weak", "drop"}, NEW e \in {0, 2},
              PlanRaw(text, NoApproval) \/ PlanRaw(text, [given |-> TRUE, expires |-> e])
       PROVE  IInv'
  BY <1>16, RawOK
<1>17. CASE EditPlan
  BY <1>17, BetweenOK
<1>18. CASE Tick
  BY <1>18, BetweenOK
<1>19. ASSUME NEW r \in OtherRows, OtherSession(r) PROVE IInv'
  BY <1>19, BetweenOK
<1>20. CASE Execute
  BY <1>20, ExecuteOK
<1>21. CASE UNCHANGED vars
  BY <1>21, InvStutters
<1> HIDE DEF IInv
<1> QED
  BY <1>1, <1>2, <1>3, <1>4, <1>5, <1>6, <1>7, <1>8, <1>9, <1>10, <1>11, <1>12, <1>13, <1>14,
     <1>15, <1>16, <1>17, <1>18, <1>19, <1>20, <1>21 DEF Next

\* What the gate lets run was judged, and its findings answered, in every state.
THEOREM Inductive == Spec => []IInv
<1>1. IInv /\ [Next]_vars => IInv'
  BY InvStep
<1> QED BY <1>1, InvInit, PTL DEF Spec

\* Under strict settings a statement that runs (execute in query/execution.go)
\* reads, changes and creates rows of the current tenant only, in the target
\* and in a joined table: for any conditions, joins, conflict clauses, edits of
\* the public plan and rows other sessions insert.
THEOREM TenantIsolated == Spec => []TenantIsolation
<1>1. IInv => TenantIsolation
  BY DEF IInv
<1> QED BY <1>1, Inductive, PTL

\* No finding of the risk engine or of a policy (CheckQuery, checkPolicies)
\* is lost between the analysis and checkExecution: what runs was lowered,
\* suppressed when it was planned or approved and not expired.
THEOREM RiskGoverned == Spec => []RiskIsGoverned
<1>1. IInv => RiskIsGoverned
  BY DEF IInv
<1> QED BY <1>1, Inductive, PTL

(***************************************************************************)
(* Write scope.  The bindings of a tree are true of every row it reaches.  *)
(***************************************************************************)
LEMMA LeavesUnfold ==
  \A n \in Trees :
     LeavesOf(n) = IF n.ch = <<>> THEN {n} ELSE UNION {LeavesOf(n.ch[i]) : i \in DOMAIN n.ch}
<1> DEFINE V == SUBSET Trees
           B(m, ch) == IF ch = <<>> THEN {m} ELSE UNION Range(ch)
           step == [p \in Trees \X Seq(V) |-> B(p[1], p[2])]
           Eq(f) == f = [m \in Trees |-> B(m, [i \in DOMAIN m.ch |-> f[m.ch[i]]])]
           g == CHOOSE f : Eq(f)
<1>0. \A m \in Trees, ch \in Seq(V) : B(m, ch) \in V
  <2> SUFFICES ASSUME NEW m \in Trees, NEW ch \in Seq(V) PROVE B(m, ch) \in V
    OBVIOUS
  <2>1. Range(ch) \subseteq V
    BY DEF Range
  <2> QED BY <2>1
<1>1. {} \in V /\ step \in [Trees \X Seq(V) -> V]
  <2>1. {} \in V
    OBVIOUS
  <2> HIDE DEF B, V
  <2> QED BY <1>0, <2>1
<1> HIDE DEF V
<1>2. PICK f \in [Trees -> V] : \A m \in Trees : f[m] = step[<<m, Below(m, f)>>]
  <2> HIDE DEF step
  <2> QED BY <1>1, WalkExists
<1>3. \A m \in Trees : f[m] = B(m, Below(m, f))
  <2> HIDE DEF B
  <2>1. \A m \in Trees : Below(m, f) \in Seq(V)
    BY BelowType
  <2> QED BY <1>2, <2>1
<1>4. Eq(f)
  <2> HIDE DEF B
  <2> QED BY <1>3 DEF Below
<1>5. Eq(g)
  <2> HIDE DEF Eq
  <2> QED BY <1>4
<1>6. \A m : LeavesOf(m) = g[m]
  BY DEF LeavesOf, Walk
<1>7. \A m \in Trees : g[m] = B(m, [i \in DOMAIN m.ch |-> g[m.ch[i]]])
  <2> HIDE DEF B, g
  <2> QED BY <1>5
<1> HIDE DEF g
<1> TAKE n \in Trees
<1> DEFINE below == [i \in DOMAIN n.ch |-> LeavesOf(n.ch[i])]
<1>8. LeavesOf(n) = B(n, below)
  <2>1. below = [i \in DOMAIN n.ch |-> g[n.ch[i]]]
    BY <1>6
  <2> HIDE DEF B, below
  <2> QED BY <1>6, <1>7, <2>1
<1>9. DOMAIN below = DOMAIN n.ch /\ Range(below) = {LeavesOf(n.ch[i]) : i \in DOMAIN n.ch}
  BY DEF Range
<1>10. below = <<>> <=> n.ch = <<>>
  <2>1. n.ch \in Seq(Trees)
    BY TreeChildren
  <2>2. n.ch = <<>> => below = <<>>
    OBVIOUS
  <2>3. n.ch # <<>> => 1 \in DOMAIN n.ch
    BY <2>1
  <2>4. DOMAIN (<<>>) = {}
    OBVIOUS
  <2> HIDE DEF below
  <2> QED BY <1>9, <2>2, <2>3, <2>4
<1> HIDE DEF below
<1> QED BY <1>8, <1>9, <1>10

\* The bindings a walk passes on: a name with its value.
Bindings == [unknown : BOOLEAN, map : SUBSET (STRING \X Int)]

LEMMA NodeBindingsType ==
  ASSUME NEW k, NEW target, NEW n \in Trees, NEW ch \in Seq(Bindings)
  PROVE  NodeBindings(n, ch, k, target) \in Bindings
<1>1. Unknown \in Bindings /\ \A map \in SUBSET (STRING \X Int) : Bound(map) \in Bindings
  BY DEF Unknown, Bound, Bindings
<1>2. UNION {p.map : p \in Range(ch)} \in SUBSET (STRING \X Int)
  <2>1. ASSUME NEW p \in Range(ch) PROVE p.map \in SUBSET (STRING \X Int)
    <3>1. \A i \in DOMAIN ch : ch[i] \in Bindings
      OBVIOUS
    <3>2. p \in Bindings
      BY <3>1 DEF Range
    <3> QED BY <3>2 DEF Bindings
  <2> QED BY <2>1
<1>3. Conjoin(Range(ch)) \in Bindings
  BY <1>1, <1>2 DEF Conjoin
<1>4. Disjoin(ch, Len(k.cols)) \in Bindings
  <2> DEFINE common == {b \in UNION {p.map : p \in Range(ch)} : \A i \in DOMAIN ch : b \in ch[i].map}
  <2>1. common \in SUBSET (STRING \X Int) /\ {} \in SUBSET (STRING \X Int)
    BY <1>2
  <2>2. Disjoin(ch, Len(k.cols)) = Bound(IF Cardinality(common) = Len(k.cols) THEN common ELSE {})
    BY DEF Disjoin
  <2> HIDE DEF common
  <2> QED BY <1>1, <2>1, <2>2
<1>5. LeafBindings(n, k, target) \in Bindings
  <2>1. /\ n.col \in STRING \X STRING /\ n.vals \in Seq(STRING \X Int)
    BY TreeChildren DEF Columned, Value
  <2>2. Len(n.vals) = 1 => {<<n.col[2], n.vals[1][2]>>} \in SUBSET (STRING \X Int)
    <3>1. Len(n.vals) = 1 => n.vals[1] \in STRING \X Int
      BY <2>1
    <3> QED BY <2>1, <3>1
  <2>3. {} \in SUBSET (STRING \X Int)
    OBVIOUS
  <2> DEFINE L == LeafBindings(n, k, target)
             one == Bound({<<n.col[2], n.vals[1][2]>>})
  <2>4. L \in {Unknown, Bound({})} \/ (Len(n.vals) = 1 /\ L = one)
    BY DEF LeafBindings
  <2> HIDE DEF L
  <2> QED BY <1>1, <2>2, <2>3, <2>4 DEF L
<1>6. Bound({}) \in Bindings
  BY <1>1
<1> DEFINE N == NodeBindings(n, ch, k, target)
<1>7. N \in {Unknown, Bound({}), LeafBindings(n, k, target), Conjoin(Range(ch)), Disjoin(ch, Len(k.cols))}
  BY DEF NodeBindings
<1> HIDE DEF N
<1> QED BY <1>1, <1>3, <1>4, <1>5, <1>6, <1>7 DEF N

LEMMA BindingsUnfold ==
  ASSUME NEW k, NEW target
  PROVE  \A n \in Trees :
           /\ scopeBindings(n, k, target) \in Bindings
           /\ scopeBindings(n, k, target)
                = NodeBindings(n, [i \in DOMAIN n.ch |-> scopeBindings(n.ch[i], k, target)], k, target)
<1> DEFINE B(m, ch) == NodeBindings(m, ch, k, target)
           step == [p \in Trees \X Seq(Bindings) |-> B(p[1], p[2])]
           Eq(f) == f = [m \in Trees |-> B(m, [i \in DOMAIN m.ch |-> f[m.ch[i]]])]
           g == CHOOSE f : Eq(f)
<1>1. Unknown \in Bindings /\ step \in [Trees \X Seq(Bindings) -> Bindings]
  <2>1. Unknown \in Bindings
    BY DEF Unknown, Bindings
  <2>2. \A m \in Trees, ch \in Seq(Bindings) : B(m, ch) \in Bindings
    BY NodeBindingsType
  <2> HIDE DEF B
  <2> QED BY <2>1, <2>2
<1>2. PICK f \in [Trees -> Bindings] : \A m \in Trees : f[m] = step[<<m, Below(m, f)>>]
  <2> HIDE DEF step
  <2> QED BY <1>1, WalkExists
<1>3. \A m \in Trees : f[m] = B(m, Below(m, f))
  <2> HIDE DEF B
  <2>1. \A m \in Trees : Below(m, f) \in Seq(Bindings)
    BY BelowType
  <2> QED BY <1>2, <2>1
<1>4. Eq(f)
  <2> HIDE DEF B
  <2> QED BY <1>3 DEF Below
<1>5. Eq(g)
  <2> HIDE DEF Eq
  <2> QED BY <1>4
<1>6. \A m : scopeBindings(m, k, target) = g[m]
  BY DEF scopeBindings, Walk
<1>7. \A m \in Trees : g[m] = B(m, [i \in DOMAIN m.ch |-> g[m.ch[i]]])
  <2> HIDE DEF B, g
  <2> QED BY <1>5
<1>9. g \in [Trees -> Bindings]
  <2>1. \A m \in Trees : g[m] \in Bindings
    <3> DEFINE S == {m \in Trees : g[m] \in Bindings}
    <3>1. ASSUME NEW m \in Trees, \A i \in DOMAIN m.ch : m.ch[i] \in S PROVE m \in S
      <4> HIDE DEF g, B
      <4>1. \A i \in DOMAIN m.ch : g[m.ch[i]] \in Bindings
        BY <3>1
      <4>2. m.ch \in Seq(Trees)
        BY TreeChildren
      <4>3. [i \in DOMAIN m.ch |-> g[m.ch[i]]] \in Seq(Bindings)
        <5>1. DOMAIN m.ch = 1..Len(m.ch) /\ Len(m.ch) \in Nat
          BY <4>2
        <5> QED BY <4>1, <5>1
      <4>4. B(m, [i \in DOMAIN m.ch |-> g[m.ch[i]]]) \in Bindings
        BY <4>3, NodeBindingsType DEF B
      <4> QED BY <1>7, <4>4
    <3>2. \A m \in Trees : m \in S
      <4> HIDE DEF S
      <4> QED BY <3>1, TreeInduction
    <3> QED BY <3>2
  <2>2. g = [m \in Trees |-> B(m, [i \in DOMAIN m.ch |-> g[m.ch[i]]])]
    <3> HIDE DEF B, g
    <3> QED BY <1>5
  <2> HIDE DEF g, B
  <2> QED BY <2>1, <2>2
<1> HIDE DEF g
<1>8. \A n \in Trees : g[n] = B(n, [i \in DOMAIN n.ch |-> scopeBindings(n.ch[i], k, target)])
  <2> HIDE DEF B
  <2> QED BY <1>6, <1>7
<1> QED BY <1>6, <1>8, <1>9

\* A column the analysis places is one of the targets'.
LEMMA ResolvedIn ==
  \A ref, ts : tenantResolve(ref, ts) # 0 => tenantResolve(ref, ts) \in DOMAIN ts
<1> SUFFICES ASSUME NEW ref, NEW ts, tenantResolve(ref, ts) # 0 PROVE tenantResolve(ref, ts) \in DOMAIN ts
  OBVIOUS
<1> DEFINE fits == {i \in DOMAIN ts : ref[1] \in {"", ts[i].name} /\ tenantColumn(ts[i], ref[2])}
<1>1. Cardinality(fits) = 1 /\ tenantResolve(ref, ts) = CHOOSE i \in fits : TRUE
  BY DEF tenantResolve
<1>2. fits # {}
  <2> HIDE DEF fits
  <2> QED BY <1>1, FS_EmptySet
<1>3. (CHOOSE i \in fits : TRUE) \in fits
  <2> HIDE DEF fits
  <2> QED BY <1>2
<1> QED BY <1>1, <1>3

\* The bindings a leaf passes on, when it is true of the row.
BindsRow(b, k, row) == b = <<b[1], row[b[1]]>> /\ \E i \in DOMAIN k.cols : k.cols[i].name = b[1]

LEMMA LeafBinds ==
  ASSUME NEW k, NEW target, NEW us, DOMAIN us = {1}, NEW rows
  PROVE  \A n \in Trees : \A ch, b :
            (/\ n.kind \notin {"none", "opaque"} => tenantResolve(n.col, us) # 0
             /\ NodeHolds(n, ch, us, rows) = "t"
             /\ ~LeafBindings(n, k, target).unknown /\ b \in LeafBindings(n, k, target).map)
            => BindsRow(b, k, rows[1])
<1> SUFFICES ASSUME NEW n \in Trees, NEW ch, NEW b,
                    n.kind \notin {"none", "opaque"} => tenantResolve(n.col, us) # 0,
                    NodeHolds(n, ch, us, rows) = "t",
                    ~LeafBindings(n, k, target).unknown, b \in LeafBindings(n, k, target).map
             PROVE  b = <<b[1], rows[1][b[1]]>> /\ \E i \in DOMAIN k.cols : k.cols[i].name = b[1]
  BY DEF BindsRow
<1> DEFINE L == LeafBindings(n, k, target)
           keys == {i \in DOMAIN k.cols : k.cols[i].name = n.col[2]}
           v == n.vals[1]
<1>1. L # Unknown /\ L # Bound({})
  BY SMTT(60) DEF Unknown, Bound
<1>2. /\ n.kind \in {"comparison", "in", "between"} /\ keys # {} /\ Len(n.vals) = 1 /\ v # Nil
      /\ <<n.kind, n.op>> \in {<<"comparison", "=">>, <<"in", "IN">>}
      /\ L = Bound({<<n.col[2], v[2]>>})
  BY <1>1 DEF LeafBindings
<1>3. b = <<n.col[2], v[2]>>
  BY <1>2 DEF Bound
<1> HIDE DEF L, keys, v
<1>4. tenantResolve(n.col, us) = 1
  <2>1. tenantResolve(n.col, us) # 0
    BY <1>2
  <2> QED BY <2>1, ResolvedIn
<1>5. Compares(rows[1][n.col[2]], "=", SqlValue(v)) = "t"
  <2>1. CASE n.kind = "comparison" /\ n.op = "="
    BY <1>4, <2>1 DEF NodeHolds, v
  <2>2. CASE n.kind = "in" /\ n.op = "IN"
    <3> DEFINE vs == {Compares(rows[1][n.col[2]], "=", SqlValue(n.vals[i])) : i \in DOMAIN n.vals}
    <3>1. NodeHolds(n, ch, us, rows) = Some(vs)
      BY <1>4, <2>2 DEF NodeHolds
    <3>2. "t" \in vs
      <4> HIDE DEF vs
      <4> QED BY <3>1 DEF Some
    <3>3. DOMAIN n.vals = {1}
      <4>1. n.vals \in Seq(Value)
        BY TreeChildren
      <4>2. DOMAIN n.vals = 1..1
        BY <1>2, <4>1
      <4> QED BY <4>2
    <3> QED BY <3>2, <3>3 DEF v
  <2> QED BY <1>2, <2>1, <2>2
<1>6. rows[1][n.col[2]] = v[2]
  BY <1>2, <1>5, EqualMeans
<1>7. \E i \in DOMAIN k.cols : k.cols[i].name = n.col[2]
  BY <1>2 DEF keys
<1> QED BY <1>3, <1>6, <1>7

\* The bindings of a tree hold of every row the tree is true of.
LEMMA ScopeBinds ==
  ASSUME NEW k, NEW target, NEW us, DOMAIN us = {1}, NEW rows
  PROVE  \A n \in Trees :
           (~scopeBindings(n, k, target).unknown /\ Resolves(n, us) /\ Holds(n, us, rows) = "t") =>
             \A b \in scopeBindings(n, k, target).map : BindsRow(b, k, rows[1])
<1> DEFINE bs(n) == scopeBindings(n, k, target)
           holds(n) == Holds(n, us, rows)
           Fits(b) == BindsRow(b, k, rows[1])
           Claim(n) == ~bs(n).unknown /\ Resolves(n, us) /\ holds(n) = "t" => \A b \in bs(n).map : Fits(b)
           S == {n \in Trees : Claim(n)}
<1>1. ASSUME NEW n \in Trees, \A i \in DOMAIN n.ch : n.ch[i] \in S,
             ~bs(n).unknown, Resolves(n, us), holds(n) = "t", NEW b \in bs(n).map
      PROVE  Fits(b)
  <2> DEFINE cs == [i \in DOMAIN n.ch |-> bs(n.ch[i])]
             hs == [i \in DOMAIN n.ch |-> holds(n.ch[i])]
  <2>1. bs(n) = NodeBindings(n, cs, k, target)
    BY BindingsUnfold
  <2>2. NodeHolds(n, Range(hs), us, rows) = "t"
    BY <1>1, HoldsUnfolds
  <2>3. \A i \in DOMAIN n.ch : n.ch[i] \in Trees /\ Claim(n.ch[i])
    BY <1>1
  <2>4. DOMAIN hs = DOMAIN n.ch /\ DOMAIN cs = DOMAIN n.ch /\ n.ch \in Seq(Trees)
    BY TreeChildren
  <2>5. \A i \in DOMAIN n.ch : cs[i] = bs(n.ch[i]) /\ hs[i] = holds(n.ch[i]) /\ hs[i] \in Truths
    BY <2>3, HoldsUnfolds
  <2>6. Generated(n)
    BY <1>1, <2>1 DEF NodeBindings, Unknown
  <2>7. CASE n.kind \notin Branches
    <3>1. bs(n) = LeafBindings(n, k, target)
      BY <2>1, <2>6, <2>7 DEF NodeBindings
    <3>2. n.ch = <<>>
      BY <2>7, TreeChildren
    <3>3. n.kind \notin {"none", "opaque"} => tenantResolve(n.col, us) # 0
      BY <1>1, <3>2, LeavesUnfold DEF Resolves
    <3>4. ~LeafBindings(n, k, target).unknown /\ b \in LeafBindings(n, k, target).map
      BY <1>1, <3>1
    <3> DEFINE ch == Range(hs)
    <3>5. NodeHolds(n, ch, us, rows) = "t"
      BY <2>2
    <3> HIDE DEF ch, bs, holds
    <3> QED BY <3>3, <3>4, <3>5, LeafBinds
  <2>8. CASE n.kind \in Branches
    <3>1. \A i \in DOMAIN n.ch : Resolves(n.ch[i], us)
      <4>1. \A i \in DOMAIN n.ch : LeavesOf(n.ch[i]) \subseteq LeavesOf(n)
        <5>1. DOMAIN n.ch # {} => n.ch # <<>>
          OBVIOUS
        <5> QED BY <5>1, LeavesUnfold
      <4> QED BY <1>1, <4>1 DEF Resolves
    <3> HIDE DEF bs, holds, Fits
    <3>2. \A i \in DOMAIN n.ch : ~cs[i].unknown
      BY <1>1, <2>1, <2>4, <2>6, <2>8 DEF NodeBindings, Unknown
    <3>3. \A i \in DOMAIN n.ch : hs[i] = "t" => \A c \in cs[i].map : Fits(c)
      BY <2>3, <2>5, <3>1, <3>2
    <3>4. Range(hs) = {hs[i] : i \in DOMAIN n.ch} /\ Range(cs) = {cs[i] : i \in DOMAIN n.ch}
      BY <2>4 DEF Range
    <3> HIDE DEF hs, cs
    <3>5. CASE n.kind = "not"
      <4>1. bs(n) = Bound({})
        BY <2>1, <2>4, <2>6, <2>8, <3>2, <3>5 DEF NodeBindings
      <4> QED BY <1>1, <4>1 DEF Bound
    <3>6. CASE n.kind = "or"
      <4> DEFINE common == {c \in UNION {p.map : p \in Range(cs)} : \A i \in DOMAIN cs : c \in cs[i].map}
      <4>1. bs(n) = Disjoin(cs, Len(k.cols))
        BY <2>1, <2>4, <2>6, <2>8, <3>2, <3>6 DEF NodeBindings
      <4>2. bs(n).map \subseteq common
        BY <4>1 DEF Disjoin, Bound
      <4>3. Some(Range(hs)) = "t"
        BY <2>2, <3>6 DEF NodeHolds
      <4>4. \E i \in DOMAIN n.ch : hs[i] = "t"
        BY <3>4, <4>3 DEF Some
      <4>5. \A i \in DOMAIN n.ch : b \in cs[i].map
        BY <1>1, <2>4, <4>2
      <4> QED BY <3>3, <4>4, <4>5
    <3>7. CASE n.kind \in {"and", "group"}
      <4> DEFINE all == UNION {p.map : p \in Range(cs)}
      <4>1. bs(n) = Conjoin(Range(cs))
        BY <2>1, <2>4, <2>6, <2>8, <3>2, <3>7 DEF NodeBindings
      <4>2. bs(n).map = all
        BY <1>1, <4>1 DEF Conjoin, Bound, Unknown
      <4>3. All(Range(hs)) = "t"
        BY <2>2, <3>7 DEF NodeHolds
      <4>4. \A i \in DOMAIN n.ch : hs[i] = "t"
        BY <2>5, <3>4, <4>3 DEF All, Truths
      <4>5. PICK i \in DOMAIN n.ch : b \in cs[i].map
        BY <1>1, <3>4, <4>2
      <4> QED BY <3>3, <4>4, <4>5
    <3> QED BY <2>8, <3>5, <3>6, <3>7 DEF Branches
  <2> QED BY <2>7, <2>8
<1>2. \A n \in Trees : (\A i \in DOMAIN n.ch : n.ch[i] \in S) => n \in S
  <2> HIDE DEF bs, holds, Fits
  <2> QED BY <1>1
<1>3. \A n \in Trees : n \in S
  <2> HIDE DEF S
  <2> QED BY <1>2, TreeInduction
<1> QED BY <1>3

LEMMA UpTo ==
  \A n \in Nat : IsFiniteSet(1..n) /\ Cardinality(1..n) = n
<1> SUFFICES ASSUME NEW n \in Nat PROVE IsFiniteSet(1..n) /\ Cardinality(1..n) = n
  OBVIOUS
<1>1. IsFiniteSet(1..n) /\ Cardinality(1..n) = IF 1 > n THEN 0 ELSE n - 1 + 1
  BY FS_Interval
<1>2. (IF 1 > n THEN 0 ELSE n - 1 + 1) = n
  OBVIOUS
<1> QED BY <1>1, <1>2

\* A key bound completely is bound to the key of every row reached.
LEMMA BoundKey ==
  ASSUME NEW c, NEW row, NEW map, c \in Seq(DOMAIN Columns("orders")),
         \A b \in map : BindsRow(b, Key(c), row), Cardinality(map) = Len(Key(c).cols)
  PROVE  map = {<<c[i], row[c[i]]>> : i \in DOMAIN c}
<1> DEFINE M == {<<c[i], row[c[i]]>> : i \in DOMAIN c}
           f == [i \in DOMAIN c |-> <<c[i], row[c[i]]>>]
<1>1. DOMAIN c = 1..Len(c) /\ Len(c) \in Nat
  OBVIOUS
<1>2. \A i \in DOMAIN c : Columns("orders")[c[i]].name = c[i]
  BY DEF Columns, KeyColumn
<1>3. Key(c).cols = [i \in DOMAIN c |-> Columns("orders")[c[i]]]
  BY DEF Key
<1>4. DOMAIN Key(c).cols = DOMAIN c /\ \A i \in DOMAIN c : Key(c).cols[i].name = c[i]
  BY <1>2, <1>3
<1>5. Cardinality(map) = Len(c)
  <2>1. Len(Key(c).cols) = Len(c)
    BY <1>1, <1>3
  <2> QED BY <2>1
<1>6. IsFiniteSet(M) /\ Cardinality(M) <= Len(c)
  <2>1. IsFiniteSet(1..Len(c)) /\ Cardinality(1..Len(c)) = Len(c)
    BY <1>1, UpTo
  <2>2. f \in Surjection(1..Len(c), M)
    BY <1>1 DEF Surjection
  <2> HIDE DEF f, M
  <2> QED BY <2>1, <2>2, FS_Surjection
<1>7. map \in SUBSET M
  <2> SUFFICES ASSUME NEW b \in map PROVE b \in M
    OBVIOUS
  <2>1. PICK i \in DOMAIN c : c[i] = b[1] /\ b = <<b[1], row[b[1]]>>
    BY <1>4 DEF BindsRow
  <2> QED BY <2>1
<1> HIDE DEF M
<1>8. Cardinality(map) <= Cardinality(M) /\ Cardinality(M) \in Nat
  BY <1>6, <1>7, FS_Subset, FS_CardinalityType
<1>9. Cardinality(M) = Cardinality(map)
  BY <1>1, <1>5, <1>6, <1>8
<1>10. M = map
  BY <1>6, <1>7, <1>9, FS_Subset
<1> QED BY <1>10 DEF M

\* Two rows that agree on a bound key are one row.
LEMMA AtMostOne ==
  ASSUME IInv, plan # <<>>, ran = <<>>, AnalyzeWriteScope(plan[1].pub) = "at_most_one",
         Accepted(plan[1].pub.stmt)
  PROVE  Cardinality(Reached(plan[1].pub.stmt)) <= 1
<1> DEFINE x == plan[1]
           pub == x.pub
           p == x.inspection
           stmt == pub.stmt
           us == Targets(stmt.tables, {})
           target == Target(pub.tables[1], {}).name
           mine == Reached(stmt)
<1>1. query # <<>> /\ QueryOK(q) /\ PlanOK(x, q) /\ \A c \in q.settings.dbkeys : Unique(db, c)
  BY DEF IInv
<1>2. PlanShape(p) /\ StatementOK(p.stmt, q) /\ pub.evidence = p.evidence /\ EvidenceFacts(p, q)
  BY <1>1 DEF PlanOK
<1>3. /\ pub.evidence # <<>> /\ ~pub.evidence[1].failed /\ comparableWriteView(pub)
      /\ writeView(pub) = pub.evidence[1].view /\ pub.join = <<>>
      /\ KeyScope(pub.where, pub.evidence[1].keys, target) = "at_most_one"
  BY DEF AnalyzeWriteScope
<1> HIDE DEF pub, p
<1>4. pub.evidence[1].keys = q.keys /\ writeView(pub) = writeView(p)
  BY <1>2, <1>3 DEF EvidenceFacts
<1>5. pub.stmt = p.stmt /\ pub.tables = p.tables /\ pub.join = p.join /\ pub.where = p.where
  BY <1>4 DEF writeView
<1>6. /\ stmt.join = <<>> /\ stmt.raw = "" /\ pub.where = stmt.where /\ stmt.where \in Trees
      /\ pub.tables = stmt.tables /\ stmt.tables = Tables(q)
  <2>1. p.op \in {"update", "delete"}
    BY <1>2, <1>3 DEF PlanShape
  <2>2. p.op = p.stmt.op /\ p.join = p.stmt.join /\ p.where = p.stmt.where /\ p.tables = p.stmt.tables
    BY <1>2 DEF PlanShape
  <2>3. pub.where \in Trees
    BY <1>3 DEF comparableWriteView
  <2> QED BY <1>2, <1>3, <1>5, <2>1, <2>2, <2>3 DEF StatementOK
<1>7. DOMAIN us = {1}
  <2>1. q.join = <<>>
    BY <1>2, <1>5, <1>6 DEF StatementOK
  <2>2. Tables(q) = <<TableRef("orders", q.alias)>>
    BY <2>1 DEF Tables
  <2>3. DOMAIN Tables(q) = {1}
    BY <2>2
  <2> QED BY <1>6, <2>3 DEF Targets
<1>8. PICK k \in q.keys : /\ ~scopeBindings(stmt.where, k, target).unknown
                          /\ Cardinality(scopeBindings(stmt.where, k, target).map) = Len(k.cols)
  BY <1>3, <1>4, <1>6 DEF KeyScope
<1>9. PICK c \in q.settings.dbkeys : k = Key(c)
  BY <1>1 DEF QueryOK
<1>10. c \in Seq(DOMAIN Columns("orders")) /\ Unique(db, c)
  BY <1>1 DEF QueryOK
<1> DEFINE map == scopeBindings(stmt.where, k, target).map
<1>11. ASSUME NEW m \in mine
       PROVE  map = {<<c[i], m[1][c[i]]>> : i \in DOMAIN c} /\ m[1] \in db /\ m = <<m[1], NullUser>>
  <2>1. PICK r \in db : m = <<r, NullUser>>
    BY <1>6 DEF Reached
  <2>2. Holds(stmt.where, us, m) = "t"
    BY <1>6 DEF Reached
  <2>3. Resolves(stmt.where, us)
    BY DEF Accepted, pub
  <2> HIDE DEF us, target, mine, stmt
  <2>4. \A b \in map : BindsRow(b, k, m[1])
    <3> DEFINE tree == stmt.where
    <3>1. tree \in Trees /\ ~scopeBindings(tree, k, target).unknown /\ Resolves(tree, us) /\ Holds(tree, us, m) = "t"
      BY <1>6, <1>8, <2>2, <2>3
    <3> HIDE DEF tree
    <3>2. \A b \in scopeBindings(tree, k, target).map : BindsRow(b, k, m[1])
      BY <1>7, <3>1, ScopeBinds
    <3> QED BY <3>2 DEF tree
  <2>5. Cardinality(map) = Len(Key(c).cols)
    BY <1>8, <1>9
  <2> HIDE DEF map
  <2> DEFINE row == m[1]
  <2>6. \A b \in map : BindsRow(b, Key(c), row)
    BY <1>9, <2>4
  <2> HIDE DEF row
  <2>7. map = {<<c[i], row[c[i]]>> : i \in DOMAIN c}
    BY <1>10, <2>5, <2>6, BoundKey
  <2>8. m[1] \in db /\ m = <<m[1], NullUser>>
    BY <2>1
  <2> QED BY <2>7, <2>8 DEF row
<1> HIDE DEF mine, map
<1>12. ASSUME NEW m \in mine, NEW n \in mine PROVE m = n
  <2>1. \A i \in DOMAIN c : m[1][c[i]] = n[1][c[i]]
    <3> SUFFICES ASSUME NEW i \in DOMAIN c PROVE m[1][c[i]] = n[1][c[i]]
      OBVIOUS
    <3>1. <<c[i], m[1][c[i]]>> \in map
      BY <1>11
    <3>2. PICK j \in DOMAIN c : <<c[i], m[1][c[i]]>> = <<c[j], n[1][c[j]]>>
      BY <1>11, <3>1
    <3> QED BY <3>2
  <2>2. m[1] = n[1]
    BY <1>10, <1>11, <2>1 DEF Unique
  <2> QED BY <1>11, <2>2
<1>13. Cardinality(mine) <= 1
  <2>1. CASE mine = {}
    BY <2>1, FS_EmptySet
  <2>2. ASSUME NEW m \in mine PROVE Cardinality(mine) <= 1
    <3>1. mine = {m}
      BY <1>12
    <3>2. Cardinality({m}) = 1
      BY FS_Singleton
    <3> QED BY <3>1, <3>2
  <2> QED BY <2>1, <2>2
<1> QED BY <1>13 DEF mine, pub

\* A plan strict settings let pass still is the plan they judged.
LEMMA EvidenceHolds ==
  ASSUME IInv
  PROVE  EvidenceCoversStatement
<1> SUFFICES ASSUME plan # <<>>, ran = <<>>, q.settings.strict, TenantOf("orders") # "",
                    ensurePlanExecutable(plan[1].pub), plan[1].pub.op # "insert",
                    NEW m \in Reached(plan[1].pub.stmt)
             PROVE  m[1][TenantOf("orders")] = Own
  BY DEF EvidenceCoversStatement
<1> DEFINE pub == plan[1].pub
           p == plan[1].inspection
<1>1. QueryOK(q) /\ PlanOK(plan[1], q)
  BY DEF IInv
<1>2. /\ PlanShape(p) /\ StatementOK(p.stmt, q) /\ pub.tenantEvidence = p.tenantEvidence
      /\ EvidenceFacts(p, q)
  BY <1>1 DEF PlanOK
<1>3. checkTenantEvidence(pub)
  BY DEF ensurePlanExecutable
<1> HIDE DEF pub, p
<1>4. p.tenantEvidence # <<>>
  BY <1>2 DEF EvidenceFacts
<1>5. ~p.tenantEvidence[1].failed /\ writeView(pub) = p.tenantEvidence[1].view
  BY <1>2, <1>3, <1>4 DEF checkTenantEvidence
<1>6. writeView(pub) = writeView(p) /\ TenantFacts(p, q)
  BY <1>2, <1>5 DEF EvidenceFacts
<1>7. pub.op = p.op /\ pub.stmt = p.stmt
  BY <1>6 DEF writeView
<1>8. m \in Reached(p.stmt) /\ p.op # "insert"
  BY <1>7 DEF pub
<1>9. PolicyForTable(q.settings.policies, "orders").tenant # ""
  BY DEF TenantOf
<1>10. m[1][PolicyForTable(q.settings.policies, "orders").tenant] = q.settings.tenant[2]
  BY <1>1, <1>2, <1>6, <1>8, <1>9, ReachedOwn
<1> QED BY <1>10 DEF TenantOf, Own

\* What the gate believes of a statement (AnalyzeWriteScope, the evidence
\* ensurePlanExecutable checks) is true of it: at_most_one is at most one row
\* under any keys the database enforces, and a public plan that passes reaches
\* the current tenant's rows only, however the caller edited it.
THEOREM ScopeProven == Spec => []ScopeIsProven
<1>1. IInv => ScopeIsSound
  BY AtMostOne DEF ScopeIsSound
<1>2. IInv => EvidenceCoversStatement
  BY EvidenceHolds
<1>3. IInv => ScopeIsProven
  BY <1>1, <1>2 DEF ScopeIsProven
<1> QED BY <1>3, Inductive, PTL
=============================================================================
