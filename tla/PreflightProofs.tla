--------------------------- MODULE PreflightProofs ---------------------------
(***************************************************************************)
(* Proofs about Preflight: for any plans, collectors, settings and number  *)
(* of generations, a satisfied verdict rests on the newest attempt of its  *)
(* collector, is recent, is true of the time of the collection, and leaves *)
(* no step of the plan unobserved.                                         *)
(***************************************************************************)
EXTENDS Preflight, FiniteSetTheorems, SequenceTheorems, WellFoundedInduction, TLAPS

(***************************************************************************)
(* Induction.  The least element of a set of numbers replaces an induction *)
(* rule with an operator as its parameter.                                 *)
(***************************************************************************)
LEMMA Least ==
  ASSUME NEW T \in SUBSET Nat, T # {}
  PROVE  \E x \in T : \A y \in T : x <= y
<1> DEFINE R == OpToRel(<, Nat)
<1>1. IsWellFoundedOn(R, Nat)
  BY NatLessThanWellFounded
<1>2. PICK x \in T : \A y \in T : ~(<<y, x>> \in R)
  <2> HIDE DEF R
  <2> QED BY <1>1, WFMin
<1>3. \A y \in T : y < x => <<y, x>> \in R
  BY DEF OpToRel
<1>4. \A y \in T : ~(y < x)
  <2> HIDE DEF R
  <2> QED BY <1>2, <1>3, Zenon
<1>5. x \in T
  BY <1>2
<1> HIDE DEF R
<1> QED BY <1>4, <1>5

LEMMA Induct ==
  ASSUME NEW S \in SUBSET Nat, 0 \in S, \A n \in S : n + 1 \in S
  PROVE  S = Nat
<1>1. SUFFICES ASSUME S # Nat PROVE FALSE
  OBVIOUS
<1>2. Nat \ S # {} /\ Nat \ S \in SUBSET Nat
  BY <1>1
<1>3. PICK x \in Nat \ S : \A y \in Nat \ S : x <= y
  BY <1>2, Least
<1>4. x # 0 /\ x - 1 \in Nat /\ x - 1 \in S
  BY <1>3
<1> QED BY <1>4, <1>3

(***************************************************************************)
(* The requirements of a plan.                                             *)
(***************************************************************************)
RequirementCodes ==
  {"PREFLIGHT_MISSING", "PREFLIGHT_EXTERNAL_WORK", "PREFLIGHT_UNSUPPORTED", "PREFLIGHT_DEFINITION",
   "PREFLIGHT_PHASE", "PREFLIGHT_COMPATIBILITY", "PREFLIGHT_DEPENDENCY"}
RequirementType ==
  [kind : {"unknown", "null_count", "duplicate_count", "orphan_count"},
   status : {"pending", "unknown", "unsupported"}, code : RequirementCodes,
   target : Tables, reference : Tables,
   scoped : BOOLEAN, refScoped : BOOLEAN, queryable : BOOLEAN]

Has(s, r) == \E k \in 1..Len(s) : s[k] = r

LEMMA HasJoin ==
  ASSUME NEW S, NEW s \in Seq(S), NEW t \in Seq(S), NEW r
  PROVE  /\ s \o t \in Seq(S)
         /\ Has(s, r) => Has(s \o t, r)
         /\ Has(t, r) => Has(s \o t, r)
<1>1. /\ s \o t \in Seq(S) /\ Len(s) \in Nat /\ Len(t) \in Nat /\ Len(s \o t) = Len(s) + Len(t)
      /\ \A i \in 1..Len(s) + Len(t) : (s \o t)[i] = IF i <= Len(s) THEN s[i] ELSE t[i - Len(s)]
  BY ConcatProperties, LenProperties
<1>2. ASSUME Has(s, r) PROVE Has(s \o t, r)
  <2>1. PICK k \in 1..Len(s) : s[k] = r
    BY <1>2 DEF Has
  <2>2. k \in 1..Len(s \o t) /\ (s \o t)[k] = r
    BY <1>1, <2>1
  <2> QED BY <2>2 DEF Has
<1>3. ASSUME Has(t, r) PROVE Has(s \o t, r)
  <2>1. PICK k \in 1..Len(t) : t[k] = r
    BY <1>3 DEF Has
  <2>2. Len(s) + k \in 1..Len(s \o t) /\ (s \o t)[Len(s) + k] = r
    BY <1>1, <2>1
  <2> QED BY <2>2 DEF Has
<1> QED BY <1>1, <1>2, <1>3

LEMMA WhenHas ==
  ASSUME NEW cond \in BOOLEAN, NEW S, NEW r \in S
  PROVE  When(cond, r) \in Seq(S) /\ (cond => Has(When(cond, r), r))
BY DEF When, Has

\* A requirement of a step has the step's tables and is not satisfied yet.
LEMMA RequirementOK ==
  \A s \in StepType, kind \in {"unknown", "null_count", "duplicate_count", "orphan_count"},
     status \in {"pending", "unknown", "unsupported"}, code \in RequirementCodes :
    Requirement(s, kind, status, code) \in RequirementType
BY DEF Requirement, RequirementType, StepType

LEMMA UnknownOK ==
  \A s \in StepType, code \in RequirementCodes :
    Unknown(s, code) \in RequirementType /\ Unknown(s, code).status = "unknown"
<1> SUFFICES ASSUME NEW s \in StepType, NEW code \in RequirementCodes
             PROVE  Unknown(s, code) \in RequirementType /\ Unknown(s, code).status = "unknown"
  OBVIOUS
<1>1. Unknown(s, code).status = "unknown"
  BY DEF Unknown, Requirement
<1> QED BY <1>1, RequirementOK DEF Unknown

LEMMA MeasuredOK ==
  \A s \in StepType, kind \in {"null_count", "duplicate_count", "orphan_count"},
     status \in {"unknown", "unsupported"}, code \in RequirementCodes :
    Measured(s, kind, status, code) \in RequirementType
BY RequirementOK DEF Measured, RequirementCodes

\* The requirements a type asks for, and what it cannot ask for.
Observable(s) ==
  /\ s.type \notin {"structure", "other"} /\ s.defined
  /\ s.type = "nullability" /\ s.demands => s.phase = "contract"

LEMMA TypeRequirementsOK ==
  ASSUME NEW s \in StepType
  PROVE  /\ TypeRequirements(s) \in Seq(RequirementType)
         /\ Observable(s) \/ \E r \in RequirementType : r.status # "pending" /\ Has(TypeRequirements(s), r)
<1> DEFINE S == RequirementType
<1> HIDE DEF S
<1>1. s.type \in StepTypes /\ s.defined \in BOOLEAN /\ s.demands \in BOOLEAN
  BY DEF StepType
<1>2. /\ Unknown(s, "PREFLIGHT_EXTERNAL_WORK") \in S /\ Unknown(s, "PREFLIGHT_EXTERNAL_WORK").status = "unknown"
      /\ Unknown(s, "PREFLIGHT_DEFINITION") \in S /\ Unknown(s, "PREFLIGHT_DEFINITION").status = "unknown"
      /\ Unknown(s, "PREFLIGHT_PHASE") \in S /\ Unknown(s, "PREFLIGHT_PHASE").status = "unknown"
  BY UnknownOK DEF S, RequirementCodes
<1>3. /\ Measured(s, "null_count", "unknown", "PREFLIGHT_DEFINITION") \in S
      /\ Measured(s, "duplicate_count", "unsupported", "PREFLIGHT_UNSUPPORTED") \in S
      /\ Measured(s, "orphan_count", "unsupported", "PREFLIGHT_UNSUPPORTED") \in S
  BY MeasuredOK DEF S, RequirementCodes
<1>4. PICK other : other = Requirement(s, "unknown", "unsupported", "PREFLIGHT_UNSUPPORTED")
  OBVIOUS
<1>5. other \in S /\ other.status = "unsupported"
  <2>1. other \in S
    BY <1>4, RequirementOK DEF S, RequirementCodes
  <2>2. other.status = "unsupported"
    BY <1>4 DEF Requirement
  <2> QED BY <2>1, <2>2
<1>6. \A r \in S : <<r>> \in Seq(S) /\ Has(<<r>>, r)
  BY DEF Has
<1>7. CASE s.type = "structure"
  <2>1. TypeRequirements(s) = <<Unknown(s, "PREFLIGHT_EXTERNAL_WORK")>>
    BY <1>7 DEF TypeRequirements
  <2> QED BY <2>1, <1>2, <1>6 DEF S
<1>8. CASE s.type = "other"
  <2>1. TypeRequirements(s) = <<other>>
    BY <1>8, <1>4 DEF TypeRequirements
  <2> QED BY <2>1, <1>5, <1>6 DEF S
<1>9. CASE s.type \notin {"structure", "other"} /\ ~s.defined
  <2>1. TypeRequirements(s) = <<Unknown(s, "PREFLIGHT_DEFINITION")>>
    BY <1>9 DEF TypeRequirements
  <2> QED BY <2>1, <1>2, <1>6 DEF S
<1>10. CASE s.type = "nullability" /\ s.defined
  <2>1. CASE ~s.demands
    <3>1. TypeRequirements(s) = <<>>
      BY <1>10, <2>1 DEF TypeRequirements
    <3> QED BY <3>1, <1>10, <2>1 DEF Observable
  <2>2. CASE s.demands
    <3> DEFINE a == When(s.phase # "contract", Unknown(s, "PREFLIGHT_PHASE"))
               b == <<Measured(s, "null_count", "unknown", "PREFLIGHT_DEFINITION")>>
    <3>1. TypeRequirements(s) = a \o b
      BY <1>10, <2>2 DEF TypeRequirements
    <3>2. a \in Seq(S) /\ (s.phase # "contract" => Has(a, Unknown(s, "PREFLIGHT_PHASE")))
      BY <1>2, WhenHas
    <3>3. b \in Seq(S)
      BY <1>3, <1>6
    <3> HIDE DEF a, b
    <3>4. /\ a \o b \in Seq(S)
          /\ Has(a, Unknown(s, "PREFLIGHT_PHASE")) => Has(a \o b, Unknown(s, "PREFLIGHT_PHASE"))
      BY <3>2, <3>3, HasJoin
    <3> QED BY <3>1, <3>2, <3>4, <1>2, <1>10 DEF S, Observable
  <2> QED BY <2>1, <2>2
<1>11. CASE s.type = "index" /\ s.defined
  <2>1. TypeRequirements(s)
          = When(s.demands, Measured(s, "duplicate_count", "unsupported", "PREFLIGHT_UNSUPPORTED"))
    BY <1>11 DEF TypeRequirements
  <2>2. When(s.demands, Measured(s, "duplicate_count", "unsupported", "PREFLIGHT_UNSUPPORTED")) \in Seq(S)
    BY <1>1, <1>3, WhenHas
  <2> QED BY <2>1, <2>2, <1>11 DEF S, Observable
<1>12. CASE s.type = "foreign_key" /\ s.defined
  <2>1. TypeRequirements(s) = <<Measured(s, "orphan_count", "unsupported", "PREFLIGHT_UNSUPPORTED")>>
    BY <1>12 DEF TypeRequirements
  <2> QED BY <2>1, <1>3, <1>6, <1>12 DEF S, Observable
<1> QED BY <1>1, <1>7, <1>8, <1>9, <1>10, <1>11, <1>12 DEF StepTypes

\* A requirement that no count can satisfy.
Blocks(reqs) == \E r \in RequirementType : r.status # "pending" /\ Has(reqs, r)

LEMMA BlocksJoin ==
  ASSUME NEW s \in Seq(RequirementType), NEW t \in Seq(RequirementType)
  PROVE  s \o t \in Seq(RequirementType) /\ (Blocks(s) \/ Blocks(t) => Blocks(s \o t))
<1>1. s \o t \in Seq(RequirementType)
  BY HasJoin
<1>2. \A r : Has(s, r) \/ Has(t, r) => Has(s \o t, r)
  BY HasJoin
<1> QED BY <1>1, <1>2 DEF Blocks

LEMMA WhenBlocks ==
  ASSUME NEW cond \in BOOLEAN, NEW s \in StepType, NEW code \in RequirementCodes
  PROVE  /\ When(cond, Unknown(s, code)) \in Seq(RequirementType)
         /\ cond => Blocks(When(cond, Unknown(s, code)))
<1>1. Unknown(s, code) \in RequirementType /\ Unknown(s, code).status = "unknown"
  BY UnknownOK
<1>2. /\ When(cond, Unknown(s, code)) \in Seq(RequirementType)
      /\ cond => Has(When(cond, Unknown(s, code)), Unknown(s, code))
  BY <1>1, WhenHas
<1> QED BY <1>1, <1>2 DEF Blocks

\* Step i of p can be observed as a whole.
Observed(p, i) ==
  LET s == p.steps[i] IN
  /\ ~p.incomplete /\ ~p.opaque
  /\ s.phase \in {"expand", "contract"} /\ s.compatible
  /\ ~s.sql /\ ~s.drifted /\ ~s.unknown
  /\ s.type \notin {"structure", "other"} /\ s.defined
  /\ s.phase = "contract" /\ i > 1 => s.deps # <<>>
  /\ s.type = "nullability" /\ s.demands => s.phase = "contract"

LEMMA StepBlocks ==
  ASSUME NEW p \in PlanType, NEW i \in 1..Len(p.steps)
  PROVE  /\ requirementsFor(p, i) \in Seq(RequirementType)
         /\ Observed(p, i) \/ Blocks(requirementsFor(p, i))
<1> DEFINE S == RequirementType
           s == p.steps[i]
           a1 == When(p.incomplete, Unknown(s, "PREFLIGHT_DEFINITION"))
           a2 == When(phaseRank(s.phase) = 0, Unknown(s, "PREFLIGHT_PHASE"))
           a3 == When(~s.compatible, Unknown(s, "PREFLIGHT_COMPATIBILITY"))
           a4 == When(i > 1 /\ s.phase = "contract" /\ s.deps = <<>>, Unknown(s, "PREFLIGHT_DEPENDENCY"))
           a5 == When(s.sql \/ p.opaque, Unknown(s, "PREFLIGHT_DEFINITION"))
           a6 == When(s.drifted, Unknown(s, "PREFLIGHT_DEFINITION"))
           a7 == When(s.phase = "backfill", Unknown(s, "PREFLIGHT_EXTERNAL_WORK"))
           ty == TypeRequirements(s)
           last == IF s.unknown THEN <<Unknown(s, "PREFLIGHT_DEFINITION")>> ELSE ty \o a7
<1>1. /\ p.steps \in Seq(StepType) /\ p.incomplete \in BOOLEAN /\ p.opaque \in BOOLEAN
      /\ i \in Nat
  BY DEF PlanType
<1>2. s \in StepType
  BY <1>1
<1>3. /\ s.phase \in Phases /\ s.compatible \in BOOLEAN /\ s.sql \in BOOLEAN /\ s.drifted \in BOOLEAN
      /\ s.unknown \in BOOLEAN
  BY <1>2 DEF StepType
<1>4. requirementsFor(p, i) = a1 \o a2 \o a3 \o a4 \o a5 \o a6 \o last
  BY DEF requirementsFor
<1>5. a1 \in Seq(S) /\ (p.incomplete => Blocks(a1))
  BY <1>1, <1>2, WhenBlocks DEF RequirementCodes
<1>6. a2 \in Seq(S) /\ (phaseRank(s.phase) = 0 => Blocks(a2))
  BY <1>2, WhenBlocks DEF RequirementCodes
<1>7. a3 \in Seq(S) /\ (~s.compatible => Blocks(a3))
  BY <1>2, <1>3, WhenBlocks DEF RequirementCodes
<1>8. a4 \in Seq(S) /\ (i > 1 /\ s.phase = "contract" /\ s.deps = <<>> => Blocks(a4))
  BY <1>2, WhenBlocks DEF RequirementCodes
<1>9. a5 \in Seq(S) /\ (s.sql \/ p.opaque => Blocks(a5))
  BY <1>1, <1>2, <1>3, WhenBlocks DEF RequirementCodes
<1>10. a6 \in Seq(S) /\ (s.drifted => Blocks(a6))
  BY <1>2, <1>3, WhenBlocks DEF RequirementCodes
<1>11. a7 \in Seq(S) /\ (s.phase = "backfill" => Blocks(a7))
  BY <1>2, WhenBlocks DEF RequirementCodes
<1>12. ty \in Seq(S) /\ (Observable(s) \/ Blocks(ty))
  BY <1>2, TypeRequirementsOK DEF Blocks
<1>13. last \in Seq(S) /\ (s.unknown \/ s.phase = "backfill" \/ ~Observable(s) => Blocks(last))
  <2>1. ASSUME s.unknown
        PROVE  <<Unknown(s, "PREFLIGHT_DEFINITION")>> \in Seq(S) /\ Blocks(<<Unknown(s, "PREFLIGHT_DEFINITION")>>)
    <3>1. /\ When(TRUE, Unknown(s, "PREFLIGHT_DEFINITION")) \in Seq(S)
          /\ Blocks(When(TRUE, Unknown(s, "PREFLIGHT_DEFINITION")))
      BY <1>2, WhenBlocks DEF RequirementCodes
    <3>2. When(TRUE, Unknown(s, "PREFLIGHT_DEFINITION")) = <<Unknown(s, "PREFLIGHT_DEFINITION")>>
      BY DEF When
    <3> QED BY <3>1, <3>2
  <2>2. ty \o a7 \in Seq(S) /\ (s.phase = "backfill" \/ ~Observable(s) => Blocks(ty \o a7))
    BY <1>11, <1>12, BlocksJoin
  <2> HIDE DEF s, ty, a7, S
  <2> QED BY <2>1, <2>2
<1> HIDE DEF a1, a2, a3, a4, a5, a6, a7, ty, last
<1> DEFINE b2 == a1 \o a2
           b3 == b2 \o a3
           b4 == b3 \o a4
           b5 == b4 \o a5
           b6 == b5 \o a6
           b7 == b6 \o last
<1>14. requirementsFor(p, i) = b7
  BY <1>4
<1> HIDE DEF b2, b3, b4, b5, b6, b7
<1>15. b2 \in Seq(S) /\ (Blocks(a1) \/ Blocks(a2) => Blocks(b2))
  BY <1>5, <1>6, BlocksJoin DEF b2
<1>16. b3 \in Seq(S) /\ (Blocks(b2) \/ Blocks(a3) => Blocks(b3))
  BY <1>15, <1>7, BlocksJoin DEF b3
<1>17. b4 \in Seq(S) /\ (Blocks(b3) \/ Blocks(a4) => Blocks(b4))
  BY <1>16, <1>8, BlocksJoin DEF b4
<1>18. b5 \in Seq(S) /\ (Blocks(b4) \/ Blocks(a5) => Blocks(b5))
  BY <1>17, <1>9, BlocksJoin DEF b5
<1>19. b6 \in Seq(S) /\ (Blocks(b5) \/ Blocks(a6) => Blocks(b6))
  BY <1>18, <1>10, BlocksJoin DEF b6
<1>20. b7 \in Seq(S) /\ (Blocks(b6) \/ Blocks(last) => Blocks(b7))
  BY <1>19, <1>13, BlocksJoin DEF b7
<1>21. phaseRank(s.phase) # 0 /\ s.phase # "backfill" => s.phase \in {"expand", "contract"}
  BY <1>3 DEF phaseRank, Phases
<1>22. ASSUME ~Blocks(b7) PROVE Observed(p, i)
  <2>1. /\ ~p.incomplete /\ ~p.opaque /\ s.compatible /\ ~s.sql /\ ~s.drifted /\ ~s.unknown
        /\ s.phase \in {"expand", "contract"} /\ Observable(s)
        /\ ~(i > 1 /\ s.phase = "contract" /\ s.deps = <<>>)
    BY <1>5, <1>6, <1>7, <1>8, <1>9, <1>10, <1>13, <1>15, <1>16, <1>17, <1>18, <1>19, <1>20, <1>21, <1>22
  <2> QED BY <2>1 DEF Observed, Observable
<1> QED BY <1>14, <1>20, <1>22

LEMMA RequirementsToExists ==
  ASSUME NEW p
  PROVE  \A k \in Nat : \E f : f = [n \in 0..k |-> IF n = 0 THEN <<>> ELSE f[n-1] \o requirementsFor(p, n)]
<1> DEFINE T == {k \in Nat : \E f : f = [n \in 0..k |-> IF n = 0 THEN <<>> ELSE f[n-1] \o requirementsFor(p, n)]}
<1>1. 0 \in T
  <2>1. [n \in 0..0 |-> <<>>] = [n \in 0..0 |-> IF n = 0 THEN <<>> ELSE [m \in 0..0 |-> <<>>][n-1] \o requirementsFor(p, n)]
    OBVIOUS
  <2> QED BY <2>1
<1>2. ASSUME NEW k \in T PROVE k + 1 \in T
  <2>1. PICK f : f = [n \in 0..k |-> IF n = 0 THEN <<>> ELSE f[n-1] \o requirementsFor(p, n)]
    OBVIOUS
  <2>2. k \in Nat
    OBVIOUS
  <2> HIDE DEF T
  <2> DEFINE last == f[k] \o requirementsFor(p, k + 1)
             g == [n \in 0..k+1 |-> IF n = k + 1 THEN last ELSE f[n]]
  <2>3. \A n \in 0..k+1 : g[n] = IF n = 0 THEN <<>> ELSE g[n-1] \o requirementsFor(p, n)
    <3>1. ASSUME NEW n \in 0..k PROVE f[n] = IF n = 0 THEN <<>> ELSE f[n-1] \o requirementsFor(p, n)
      BY <2>1
    <3>2. ASSUME NEW n \in 0..k+1 PROVE g[n] = IF n = 0 THEN <<>> ELSE g[n-1] \o requirementsFor(p, n)
      <4>1. CASE n = k + 1
        <5>1. g[n] = last /\ g[n-1] = f[k] /\ n # 0
          BY <4>1, <2>2
        <5> QED BY <5>1, <4>1
      <4>2. CASE n # k + 1
        <5>1. n \in 0..k
          BY <4>2, <2>2
        <5>2. g[n] = f[n] /\ (n # 0 => g[n-1] = f[n-1])
          BY <5>1, <2>2
        <5> HIDE DEF g
        <5> QED BY <3>1, <5>1, <5>2
      <4> QED BY <4>1, <4>2
    <3> QED BY <3>2
  <2>4. g = [n \in 0..k+1 |-> IF n = 0 THEN <<>> ELSE g[n-1] \o requirementsFor(p, n)]
    <3>1. g = [n \in 0..k+1 |-> g[n]]
      OBVIOUS
    <3> HIDE DEF g
    <3> QED BY <2>3, <3>1
  <2> HIDE DEF g
  <2>5. \E h : h = [n \in 0..k+1 |-> IF n = 0 THEN <<>> ELSE h[n-1] \o requirementsFor(p, n)]
    BY <2>4, Zenon
  <2>6. k + 1 \in Nat
    BY <2>2
  <2> QED BY <2>5, <2>6, Zenon DEF T
<1>3. T \in SUBSET Nat
  OBVIOUS
<1>4. T = Nat
  <2> HIDE DEF T
  <2> QED BY <1>1, <1>2, <1>3, Induct
<1> QED BY <1>4

\* The loop over the steps: what a step cannot have observed blocks the plan.
LEMMA RequirementsOK ==
  ASSUME NEW p \in PlanType
  PROVE  /\ Requirements(p) \in Seq(RequirementType)
         /\ \A i \in 1..Len(p.steps) : Observed(p, i) \/ Blocks(Requirements(p))
<1> DEFINE L == Len(p.steps)
<1>1. p.steps \in Seq(StepType) /\ L \in Nat
  BY DEF PlanType
<1> HIDE DEF L
<1>2. PICK f : f = RequirementsTo(p)
  BY SMTT(120)
<1>3. f = [n \in 0..L |-> IF n = 0 THEN <<>> ELSE f[n-1] \o requirementsFor(p, n)]
  <2>1. \E g : g = [n \in 0..L |-> IF n = 0 THEN <<>> ELSE g[n-1] \o requirementsFor(p, n)]
    BY <1>1, RequirementsToExists
  <2>2. f = CHOOSE g : g = [n \in 0..L |-> IF n = 0 THEN <<>> ELSE g[n-1] \o requirementsFor(p, n)]
    BY <1>2 DEF RequirementsTo, L
  <2> QED BY <2>1, <2>2
<1> DEFINE Fine(n) == f[n] \in Seq(RequirementType) /\ \A i \in 1..n : Observed(p, i) \/ Blocks(f[n])
           T == {n \in Nat : n <= L => Fine(n)}
<1>4. 0 \in T
  <2>1. f[0] = <<>>
    BY <1>1, <1>3
  <2>2. <<>> \in Seq(RequirementType) /\ \A i \in 1..0 : FALSE
    OBVIOUS
  <2> QED BY <2>1, <2>2
<1>5. ASSUME NEW n \in T PROVE n + 1 \in T
  <2>1. n \in Nat /\ (n <= L => Fine(n))
    OBVIOUS
  <2>2. ASSUME n + 1 <= L PROVE Fine(n + 1)
    <3>1. n + 1 \in 0..L /\ n + 1 \in 1..Len(p.steps) /\ n <= L
      BY <2>1, <2>2, <1>1 DEF L
    <3>2. f[n + 1] = f[n] \o requirementsFor(p, n + 1)
      <4>1. n + 1 # 0 /\ (n + 1) - 1 = n
        BY <2>1
      <4>2. f[n + 1] = IF n + 1 = 0 THEN <<>> ELSE f[(n + 1) - 1] \o requirementsFor(p, n + 1)
        BY <3>1, <1>3, Zenon
      <4> QED BY <4>1, <4>2, Zenon
    <3>3. /\ requirementsFor(p, n + 1) \in Seq(RequirementType)
          /\ Observed(p, n + 1) \/ Blocks(requirementsFor(p, n + 1))
      BY <3>1, StepBlocks
    <3>4. f[n] \in Seq(RequirementType) /\ \A i \in 1..n : Observed(p, i) \/ Blocks(f[n])
      BY <2>1, <3>1
    <3>5. /\ f[n + 1] \in Seq(RequirementType)
          /\ Blocks(f[n]) \/ Blocks(requirementsFor(p, n + 1)) => Blocks(f[n + 1])
      BY <3>2, <3>3, <3>4, BlocksJoin
    <3>6. \A i \in 1..(n + 1) : i \in 1..n \/ i = n + 1
      BY <2>1
    <3> QED BY <3>3, <3>4, <3>5, <3>6
  <2> QED BY <2>1, <2>2
<1>6. T = Nat
  <2>1. T \in SUBSET Nat
    OBVIOUS
  <2> HIDE DEF T
  <2> QED BY <1>4, <1>5, <2>1, Induct
<1>7. Fine(L)
  BY <1>1, <1>6
<1>8. Requirements(p) = f[L]
  BY <1>2 DEF Requirements, L
<1> QED BY <1>7, <1>8 DEF L

(***************************************************************************)
(* The inductive invariant.                                                *)
(***************************************************************************)
Verdicts == {"satisfied", "unsupported", "unknown"}
Codes == RequirementCodes \cup {"PREFLIGHT_OK", "PREFLIGHT_SCOPE", "PREFLIGHT_VISIBILITY"}
Observations ==
  [table : Tables, type : {"integer", "text", "unsupported", "none"}, coverage : Verdicts]
Results ==
  [requirement : Nat \X Nat, status : Verdicts, code : Codes, targets : Seq(Observations),
   completed : BOOLEAN, count : Nat \cup {None}]
Labels == {"before", "check", "recheck", "after"}
WorkType ==
  [plan : PlanType, attempt : Nat, started : Nat, at : Labels, read : Seq(Definitions),
   i : Nat \ {0}, obs : Seq(Observations), results : Seq(Results)]
LogType == [owner : Collectors, start : Nat, ddl : Nat, true : BOOLEAN]

LogOK ==
  /\ log \in Seq(LogType)
  /\ \A a \in DOMAIN log : log[a].ddl <= ddl

Newest(c, a) == \A b \in DOMAIN log : log[b].owner = c => b <= a
Own(c, a) == a \in DOMAIN log /\ log[a].owner = c
Started(a, time) == time <= log[a].start + Setting.maxSkew

\* Where a collection is in its requirements.
ProgressOK(w) ==
  /\ w.at \in {"before", "check"} => w.i = Len(w.results) + 1
  /\ w.at = "before" => w.results = <<>>
  /\ w.at = "check" => Len(w.results) <= Len(Requirements(w.plan))
  /\ w.at \in {"recheck", "after"} => Len(w.results) = Len(Requirements(w.plan))
  /\ w.obs # <<>> => w.at \in {"check", "recheck"} /\ Checking(w)
  /\ w.read # <<>> => w.at \in {"before", "after"}

\* The table that observation m of requirement r is of.
Tab(r, m) == IF m = 1 THEN r.target ELSE r.reference

\* Nothing was changed since the collection began: what it has seen is so.
Unmoved(w) ==
  /\ w.at = "before" => \A j \in 1..Len(w.read) : w.read[j] = schema[j]
  /\ w.at # "before" => schema = w.plan.schema
  /\ w.at = "check" => \A m \in 1..Len(w.obs) : w.obs[m] = inspectTable(Tab(Current(w), m))

\* A count was wrong or of another schema, and the second look will show it:
\* of the schema, or of the tables of a requirement.
SchemaShows(w) ==
  \E j \in Scopes : /\ schema[j] # w.plan.schema[j]
                    /\ j <= Len(w.read) => w.read[j] # w.plan.schema[j]
TableShows(w) ==
  /\ w.at \in {"check", "recheck"}
  /\ \E k \in 1..Len(w.results) :
       /\ Requirements(w.plan)[k].status = "pending"
       /\ w.at = "recheck" => w.i <= k
       /\ \E m \in 1..Len(w.results[k].targets) :
            LET seen == w.results[k].targets[m] IN
            /\ seen # inspectTable(Tab(Requirements(w.plan)[k], m))
            /\ w.at = "recheck" /\ w.i = k /\ m <= Len(w.obs) => w.obs[m] # seen

Truthful(w, l) ==
  /\ w.at = "before" => l.true
  /\ ddl = l.ddl => Unmoved(w)
  /\ ~l.true /\ ddl <= l.ddl + 1 => ddl = l.ddl + 1 /\ (SchemaShows(w) \/ TableShows(w))

WorkFine(c, w) ==
  /\ w \in WorkType /\ w.plan \in Setting.plans
  /\ Own(c, w.attempt) /\ Newest(c, w.attempt) /\ Started(w.attempt, w.started)
  /\ \A i \in DOMAIN docs : docs[i].receipt # None => docs[i].receipt.attempt # w.attempt
  /\ ProgressOK(w) /\ Truthful(w, log[w.attempt])
WorkOK(c) == work[c] # None => WorkFine(c, work[c])

\* The receipt of an artifact: of the generation of its collector, or of an
\* older one; and what a completed collection says of its time.
ReceiptOK(r) ==
  /\ r.owner \in Collectors /\ r.gen \in Nat /\ Own(r.owner, r.attempt)
  /\ ~closed[r.owner] => r.gen <= gen[r.owner]
  /\ ~closed[r.owner] /\ r.gen = gen[r.owner] => work[r.owner] = None /\ Newest(r.owner, r.attempt)
  /\ r.digest.started \in Nat /\ Started(r.attempt, r.digest.started)
  /\ r.digest.results \in Seq(Results)
  /\ r.digest.completed /\ ddl <= log[r.attempt].ddl + 1 => log[r.attempt].true

DocsOK ==
  /\ docs \in Seq({docs[i] : i \in DOMAIN docs})
  /\ \A i \in DOMAIN docs :
       /\ docs[i] = [plan |-> docs[i].plan, col |-> docs[i].col, receipt |-> docs[i].receipt]
       /\ docs[i].receipt # None => ReceiptOK(docs[i].receipt)

\* The collections and the receipts, and with them the verdicts.
CoreInv ==
  /\ TypeOK /\ LogOK /\ DocsOK /\ DOMAIN work = Collectors
  /\ \A c \in Collectors : WorkOK(c)
EvidenceInv ==
  CoreInv /\ SatisfiedIsCurrent /\ SatisfiedIsFresh /\ SatisfiedIsTrue /\ UnobservedBlocks

LEMMA SettingFacts ==
  ASSUME TypeOK
  PROVE  /\ Setting.plans \subseteq PlanType /\ Setting.collectors \subseteq Collectors
         /\ Setting.definitions \subseteq Definitions /\ Setting.shapes \subseteq Shapes
         /\ Setting.ages \subseteq Int
         /\ Setting.maxTime \in Nat /\ Setting.maxSkew \in Nat /\ Setting.maxDDL \in Nat
         /\ Setting.maxDML \in Nat /\ Setting.maxBad \in Nat
<1>1. Setting \in SettingType
  BY SettingsAssumption DEF TypeOK, Setting
<1> QED BY <1>1 DEF SettingType

LEMMA LogFacts ==
  ASSUME LogOK
  PROVE  /\ Len(log) \in Nat /\ DOMAIN log = 1..Len(log)
         /\ \A a \in DOMAIN log : log[a] \in LogType
BY DEF LogOK

LEMMA DocsFacts ==
  ASSUME DocsOK
  PROVE  Len(docs) \in Nat /\ DOMAIN docs = 1..Len(docs)
BY DEF DocsOK

\* The artifacts after another one was added.
LEMMA DocsAppend ==
  ASSUME DocsOK, NEW d, docs' = Append(docs, d)
  PROVE  /\ DOMAIN docs' = 1..(Len(docs) + 1) /\ docs'[Len(docs) + 1] = d
         /\ \A i \in DOMAIN docs' : (i \in DOMAIN docs /\ docs'[i] = docs[i]) \/ i = Len(docs) + 1
         /\ docs' \in Seq({docs'[i] : i \in DOMAIN docs'})
<1> DEFINE S == {docs[i] : i \in DOMAIN docs} \cup {d}
<1>1. docs \in Seq({docs[i] : i \in DOMAIN docs})
  BY DEF DocsOK
<1>2. docs \in Seq(S)
  BY <1>1
<1> HIDE DEF S
<1>3. /\ docs' \in Seq(S) /\ Len(docs') = Len(docs) + 1
      /\ \A i \in 1..Len(docs) : docs'[i] = docs[i]
      /\ docs'[Len(docs) + 1] = d
  <2>1. d \in S
    BY DEF S
  <2> QED BY <1>2, <2>1, AppendProperties
<1>4. Len(docs) \in Nat /\ DOMAIN docs = 1..Len(docs) /\ DOMAIN docs' = 1..Len(docs')
  BY <1>2, <1>3, LenProperties
<1>5. docs' \in Seq({docs'[i] : i \in DOMAIN docs'})
  BY <1>3
<1> QED BY <1>3, <1>4, <1>5

(***************************************************************************)
(* Frames: what a step that leaves a collection or a receipt alone keeps.  *)
(***************************************************************************)
LEMMA WorkKept ==
  ASSUME NEW c, NEW w, WorkFine(c, w), UNCHANGED <<env, schema, shape, ddl>>,
         w.attempt \in DOMAIN log', log'[w.attempt] = log[w.attempt],
         \A b \in DOMAIN log' : log'[b].owner = c => b \in DOMAIN log /\ log[b].owner = c,
         \A i \in DOMAIN docs' : docs'[i].receipt # None => docs'[i].receipt.attempt # w.attempt
  PROVE  WorkFine(c, w)'
<1>1. Own(c, w.attempt)' /\ Started(w.attempt, w.started)' /\ w.plan \in Setting.plans'
  BY DEF WorkFine, Own, Started, Setting
<1>2. Newest(c, w.attempt)'
  BY DEF WorkFine, Newest
<1>3. ProgressOK(w)'
  BY DEF WorkFine, ProgressOK, Checking
<1>4. Truthful(w, log[w.attempt])'
  <2>1. Truthful(w, log[w.attempt])
    BY DEF WorkFine
  <2>2. \A t : inspectTable(t)' = inspectTable(t)
    BY DEF inspectTable
  <2>3. Unmoved(w)' <=> Unmoved(w)
    BY <2>2 DEF Unmoved, Current, Tab
  <2>4. (SchemaShows(w)' <=> SchemaShows(w)) /\ (TableShows(w)' <=> TableShows(w))
    BY <2>2 DEF SchemaShows, TableShows, Tab
  <2> QED BY <2>1, <2>3, <2>4 DEF Truthful
<1> QED BY <1>1, <1>2, <1>3, <1>4 DEF WorkFine

LEMMA ReceiptKept ==
  ASSUME NEW r, ReceiptOK(r), UNCHANGED env, ddl <= ddl', ddl \in Nat, ddl' \in Nat, LogOK,
         closed'[r.owner] = FALSE => closed[r.owner] = FALSE, closed'[r.owner] \in BOOLEAN,
         gen'[r.owner] = gen[r.owner],
         work[r.owner] = None => work'[r.owner] = None,
         r.attempt \in DOMAIN log', log'[r.attempt] = log[r.attempt],
         \A b \in DOMAIN log' : log'[b].owner = r.owner => b \in DOMAIN log /\ log[b].owner = r.owner
  PROVE  ReceiptOK(r)'
<1>1. /\ r.owner \in Collectors /\ r.gen \in Nat /\ Own(r.owner, r.attempt)'
      /\ r.digest.started \in Nat /\ Started(r.attempt, r.digest.started)'
      /\ r.digest.results \in Seq(Results)
  BY DEF ReceiptOK, Own, Started, Setting
<1>2. ~closed'[r.owner] => r.gen <= gen'[r.owner]
  BY DEF ReceiptOK
<1>3. ~closed'[r.owner] /\ r.gen = gen'[r.owner] => work'[r.owner] = None /\ Newest(r.owner, r.attempt)'
  BY DEF ReceiptOK, Newest
<1>4. r.digest.completed /\ ddl' <= log'[r.attempt].ddl + 1 => log'[r.attempt].true
  <2>1. log[r.attempt].ddl \in Nat
    BY LogFacts DEF ReceiptOK, Own, LogType
  <2> QED BY <2>1 DEF ReceiptOK
<1> QED BY <1>1, <1>2, <1>3, <1>4 DEF ReceiptOK

\* A step that leaves no verdict behind.
LEMMA NoVerdict ==
  ASSUME view' = None
  PROVE  SatisfiedIsCurrent' /\ SatisfiedIsFresh' /\ SatisfiedIsTrue' /\ UnobservedBlocks'
BY DEF SatisfiedIsCurrent, SatisfiedIsFresh, SatisfiedIsTrue, UnobservedBlocks, Satisfied

\* The attempt of a collection under way is nobody else's.
LEMMA AttemptIsMine ==
  ASSUME CoreInv, NEW c \in Collectors, work[c] # None
  PROVE  /\ Own(c, work[c].attempt)
         /\ \A d \in Collectors : d # c /\ work[d] # None => work[d].attempt # work[c].attempt
         /\ \A i \in DOMAIN docs : docs[i].receipt # None => docs[i].receipt.attempt # work[c].attempt
BY DEF CoreInv, WorkOK, WorkFine, Own

\* A step of a collection that stays in Collect, and at most judges its own attempt.
LEMMA WorkStep ==
  ASSUME CoreInv, NEW c \in Collectors, work[c] # None, NEW w, w = work[c], NEW w2 \in WorkType,
         NEW l2 \in LogType,
         UNCHANGED <<databaseVars, timeVars, gen, closed, docs>>, view' = None,
         work' = [work EXCEPT ![c] = w2],
         log' = [log EXCEPT ![w.attempt] = l2],
         l2.owner = log[w.attempt].owner, l2.start = log[w.attempt].start, l2.ddl = log[w.attempt].ddl,
         w2.attempt = w.attempt, w2.started = w.started, w2.plan = w.plan,
         ProgressOK(w2), Truthful(w2, l2)
  PROVE  CoreInv'
<1>1. WorkFine(c, w) /\ w.attempt \in DOMAIN log
  BY DEF CoreInv, WorkOK, WorkFine, Own
<1>2. /\ DOMAIN log' = DOMAIN log /\ log'[w.attempt] = l2
      /\ \A b \in DOMAIN log : b # w.attempt => log'[b] = log[b]
      /\ \A b \in DOMAIN log : log'[b].owner = log[b].owner /\ log'[b].start = log[b].start
                               /\ log'[b].ddl = log[b].ddl
      /\ log' \in Seq(LogType)
  <2>1. log \in Seq(LogType)
    BY DEF CoreInv, LogOK
  <2>2. log' \in Seq(LogType)
    BY <1>1, <2>1
  <2> QED BY <1>1, <2>1, <2>2
<1>3. work'[c] = w2 /\ DOMAIN work' = Collectors /\ \A d \in Collectors : d # c => work'[d] = work[d]
  BY DEF CoreInv
<1>4. WorkFine(c, w2)'
  <2>1. /\ w2.plan \in Setting.plans'
        /\ Own(c, w2.attempt)' /\ Newest(c, w2.attempt)' /\ Started(w2.attempt, w2.started)'
        /\ \A i \in DOMAIN docs' : docs'[i].receipt # None => docs'[i].receipt.attempt # w2.attempt
    BY <1>1, <1>2 DEF WorkFine, Own, Newest, Started, Setting, databaseVars
  <2>2. ProgressOK(w2)'
    BY DEF ProgressOK, Checking
  <2>3. Truthful(w2, l2)'
    <3>1. UNCHANGED <<schema, shape, ddl>>
      BY DEF databaseVars
    <3>2. \A t : inspectTable(t)' = inspectTable(t)
      BY <3>1 DEF inspectTable
    <3>3. Unmoved(w2)' <=> Unmoved(w2)
      BY <3>1, <3>2, SMTT(30) DEF Unmoved, Current, Tab
    <3>4. (SchemaShows(w2)' <=> SchemaShows(w2)) /\ (TableShows(w2)' <=> TableShows(w2))
      BY <3>1, <3>2 DEF SchemaShows, TableShows, Tab
    <3> QED BY <3>1, <3>3, <3>4 DEF Truthful
  <2>4. Truthful(w2, log[w2.attempt])'
    BY <1>2, <2>3
  <2> QED BY <2>1, <2>2, <2>4 DEF WorkFine
<1>5. ASSUME NEW d \in Collectors PROVE WorkOK(d)'
  <2>1. CASE d = c
    BY <2>1, <1>3, <1>4 DEF WorkOK
  <2>2. CASE d # c /\ work[d] # None
    <3>1. PICK v : v = work[d]
      OBVIOUS
    <3>2. WorkFine(d, v) /\ v.attempt # w.attempt /\ v.attempt \in DOMAIN log
      BY <2>2, <3>1, AttemptIsMine DEF CoreInv, WorkOK, WorkFine, Own
    <3>3. UNCHANGED <<env, schema, shape, ddl>>
      BY DEF databaseVars
    <3>4. v.attempt \in DOMAIN log' /\ log'[v.attempt] = log[v.attempt]
      BY <3>2, <1>2
    <3>5. \A b \in DOMAIN log' : log'[b].owner = d => b \in DOMAIN log /\ log[b].owner = d
      BY <1>2
    <3>6. \A i \in DOMAIN docs' : docs'[i].receipt # None => docs'[i].receipt.attempt # v.attempt
      BY <3>2 DEF WorkFine
    <3>7. WorkFine(d, v)'
      BY <3>2, <3>3, <3>4, <3>5, <3>6, WorkKept
    <3> QED BY <3>1, <3>7, <1>3, <2>2 DEF WorkOK
  <2> QED BY <2>1, <2>2, <1>3 DEF WorkOK
<1>6. LogOK'
  BY <1>2 DEF LogOK, CoreInv, databaseVars
<1>7. DocsOK'
  <2>1. ASSUME NEW i \in DOMAIN docs, docs[i].receipt # None PROVE ReceiptOK(docs[i].receipt)'
    <3>1. PICK r : r = docs[i].receipt
      OBVIOUS
    <3>2. ReceiptOK(r) /\ r.attempt # w.attempt
      BY <2>1, <3>1, AttemptIsMine DEF CoreInv, DocsOK
    <3>3. r.owner \in Collectors /\ r.attempt \in DOMAIN log /\ LogOK
          /\ ddl \in Nat /\ ddl' \in Nat /\ ddl <= ddl' /\ UNCHANGED <<env, closed, gen>>
      BY <3>2, SettingFacts DEF ReceiptOK, Own, CoreInv, TypeOK, databaseVars
    <3>4. closed'[r.owner] \in BOOLEAN
      BY <3>3 DEF CoreInv, TypeOK
    <3>5. work[r.owner] = None => work'[r.owner] = None
      BY <1>3, <3>3
    <3>6. r.attempt \in DOMAIN log' /\ log'[r.attempt] = log[r.attempt]
      BY <3>2, <3>3, <1>2
    <3>7. \A b \in DOMAIN log' : log'[b].owner = r.owner => b \in DOMAIN log /\ log[b].owner = r.owner
      BY <1>2
    <3>8. ReceiptOK(r)'
      BY <3>2, <3>3, <3>4, <3>5, <3>6, <3>7, ReceiptKept
    <3> QED BY <3>1, <3>8
  <2> QED BY <2>1 DEF DocsOK, CoreInv
<1>8. TypeOK'
  <2>1. w2.at \in Labels /\ w2.attempt \in DOMAIN log /\ ~closed[c]
    BY <1>1 DEF WorkType, CoreInv, TypeOK
  <2> QED BY <2>1, <1>2, <1>3, SMTT(30) DEF CoreInv, TypeOK, databaseVars, timeVars, Setting, Labels
<1> QED BY <1>3, <1>5, <1>6, <1>7, <1>8 DEF CoreInv

\* finish: the receipt is of the generation that CollectStart took, and what a
\* completed collection says of its time is true.
LEMMA FinishStep ==
  ASSUME CoreInv, NEW c \in Collectors, work[c] # None, NEW w, w = work[c],
         NEW code, NEW results \in Seq(Results), Finish(c, code, results),
         UNCHANGED <<databaseVars, timeVars, gen, closed, log>>, view' = None,
         code = "PREFLIGHT_OK" /\ ddl <= log[w.attempt].ddl + 1 => log[w.attempt].true
  PROVE  CoreInv'
<1>1. WorkFine(c, w) /\ w.attempt \in DOMAIN log /\ w \in WorkType
  BY DEF CoreInv, WorkOK, WorkFine, Own
<1>2. PICK col : col = [plan |-> w.plan.id, fingerprint |-> w.plan.schema,
                        completed |-> code = "PREFLIGHT_OK", code |-> code,
                        started |-> w.started, finished |-> Clock, results |-> results]
  OBVIOUS
<1>3. PICK r : r = [gen |-> gen[c], owner |-> c, digest |-> col, plan |-> w.plan.id, attempt |-> w.attempt]
  OBVIOUS
<1>4. PICK d : d = [plan |-> w.plan, col |-> col, receipt |-> r]
  OBVIOUS
<1>5. docs' = Append(docs, d) /\ work' = [work EXCEPT ![c] = None]
  BY <1>2, <1>3, <1>4 DEF Finish
<1>6. /\ work'[c] = None /\ DOMAIN work' = Collectors
      /\ \A e \in Collectors : e # c => work'[e] = work[e]
  BY <1>5 DEF CoreInv
<1>7. UNCHANGED <<env, schema, shape, ddl, gen, closed, log>> /\ LogOK /\ DocsOK
      /\ ddl \in Nat /\ ddl' \in Nat /\ ddl <= ddl'
  BY SettingFacts DEF databaseVars, CoreInv, TypeOK
<1>8. /\ DOMAIN docs' = 1..(Len(docs) + 1) /\ docs'[Len(docs) + 1] = d
      /\ \A i \in DOMAIN docs' : (i \in DOMAIN docs /\ docs'[i] = docs[i]) \/ i = Len(docs) + 1
      /\ docs' \in Seq({docs'[i] : i \in DOMAIN docs'})
  BY <1>5, <1>7, DocsAppend
<1>9. ReceiptOK(r)'
  <2>1. r.owner = c /\ r.gen = gen[c] /\ r.attempt = w.attempt /\ r.digest = col
    BY <1>3
  <2>2. col.started = w.started /\ col.results = results /\ col.completed = (code = "PREFLIGHT_OK")
    BY <1>2
  <2>3. gen[c] \in Nat
    BY PreflightAssumption DEF CoreInv, TypeOK
  <2>4. Own(c, w.attempt)' /\ Started(w.attempt, w.started)' /\ Newest(c, w.attempt)'
    BY <1>1, <1>7 DEF WorkFine, Own, Started, Newest, Setting
  <2>5. w.started \in Nat
    BY <1>1 DEF WorkType
  <2>6. col.completed /\ ddl' <= log'[w.attempt].ddl + 1 => log'[w.attempt].true
    BY <2>2, <1>7
  <2> QED BY <2>1, <2>2, <2>3, <2>4, <2>5, <2>6, <1>6, <1>7 DEF ReceiptOK
<1>10. ASSUME NEW i \in DOMAIN docs', docs'[i].receipt # None
       PROVE  ReceiptOK(docs[i].receipt)'
  <2>1. CASE i = Len(docs) + 1
    <3>1. docs'[i].receipt = r
      BY <2>1, <1>8, <1>4
    <3> QED BY <3>1, <1>9
  <2>2. CASE i \in DOMAIN docs /\ docs'[i] = docs[i]
    <3>1. PICK q : q = docs[i].receipt
      OBVIOUS
    <3>2. ReceiptOK(q)
      BY <2>2, <3>1, <1>10, <1>7 DEF DocsOK
    <3>3. q.owner \in Collectors /\ q.attempt \in DOMAIN log
      BY <3>2 DEF ReceiptOK, Own
    <3>4. closed'[q.owner] = FALSE => closed[q.owner] = FALSE
      BY <1>7
    <3>5. closed'[q.owner] \in BOOLEAN
      BY <1>7, <3>3 DEF CoreInv, TypeOK
    <3>6. work[q.owner] = None => work'[q.owner] = None
      BY <1>6, <3>3
    <3>7. q.attempt \in DOMAIN log' /\ log'[q.attempt] = log[q.attempt] /\ gen'[q.owner] = gen[q.owner]
      BY <3>3, <1>7
    <3>8. \A b \in DOMAIN log' : log'[b].owner = q.owner => b \in DOMAIN log /\ log[b].owner = q.owner
      BY <1>7
    <3>9. ReceiptOK(q)'
      BY <3>2, <3>4, <3>5, <3>6, <3>7, <3>8, <1>7, ReceiptKept
    <3>10. docs'[i].receipt = q
      BY <3>1, <2>2
    <3> QED BY <3>9, <3>10
  <2> QED BY <2>1, <2>2, <1>8
<1>11. DocsOK'
  <2>1. ASSUME NEW i \in DOMAIN docs'
        PROVE  docs'[i] = [plan |-> docs'[i].plan, col |-> docs'[i].col, receipt |-> docs'[i].receipt]
    BY <1>4, <1>7, <1>8 DEF DocsOK
  <2> QED BY <1>8, <1>10, <2>1 DEF DocsOK
<1>12. ASSUME NEW e \in Collectors PROVE WorkOK(e)'
  <2>1. CASE e = c \/ work[e] = None
    BY <2>1, <1>6 DEF WorkOK
  <2>2. CASE e # c /\ work[e] # None
    <3>1. PICK v : v = work[e]
      OBVIOUS
    <3>2. WorkFine(e, v) /\ v.attempt # w.attempt /\ v.attempt \in DOMAIN log
      BY <2>2, <3>1, AttemptIsMine DEF CoreInv, WorkOK, WorkFine, Own
    <3>3. v.attempt \in DOMAIN log' /\ log'[v.attempt] = log[v.attempt]
      BY <3>2, <1>7
    <3>4. \A b \in DOMAIN log' : log'[b].owner = e => b \in DOMAIN log /\ log[b].owner = e
      BY <1>7
    <3>5. \A i \in DOMAIN docs : docs[i].receipt # None => docs[i].receipt.attempt # v.attempt
      BY <3>2 DEF WorkFine
    <3>6. d.receipt.attempt = w.attempt
      BY <1>3, <1>4
    <3>7. \A i \in DOMAIN docs' : docs'[i].receipt # None => docs'[i].receipt.attempt # v.attempt
      BY <3>2, <3>5, <3>6, <1>8
    <3>8. WorkFine(e, v)'
      BY <3>2, <3>3, <3>4, <3>7, <1>7, WorkKept
    <3> QED BY <3>1, <3>8, <1>6, <2>2 DEF WorkOK
  <2> QED BY <2>1, <2>2
<1>13. LogOK'
  BY <1>7 DEF LogOK
<1>14. TypeOK'
  <2>1. \A i \in DOMAIN docs' : docs'[i].plan \in Setting.plans
    <3>1. d.plan \in Setting.plans
      BY <1>1, <1>4 DEF WorkFine
    <3> QED BY <3>1, <1>8 DEF CoreInv, TypeOK
  <2> QED BY <2>1, <1>6 DEF CoreInv, TypeOK, databaseVars, timeVars, Setting
<1> QED BY <1>6, <1>11, <1>12, <1>13, <1>14 DEF CoreInv

\* A step of the clock, of other sessions' rows, of a collector that is closed,
\* or of callers: collections and receipts keep what they know.
LEMMA QuietStep ==
  ASSUME CoreInv, UNCHANGED <<env, schema, shape, ddl, gen, work, docs, log>>, TypeOK',
         \A c \in Collectors : closed'[c] = FALSE => closed[c] = FALSE
  PROVE  CoreInv'
<1>1. LogOK /\ LogOK' /\ ddl \in Nat /\ ddl' \in Nat /\ ddl <= ddl'
  BY SettingFacts DEF CoreInv, TypeOK, LogOK
<1>2. ASSUME NEW c \in Collectors PROVE WorkOK(c)'
  <2>1. CASE work[c] = None
    BY <2>1 DEF WorkOK
  <2>2. CASE work[c] # None
    <3>1. PICK v : v = work[c]
      OBVIOUS
    <3>2. WorkFine(c, v) /\ v.attempt \in DOMAIN log
      BY <2>2, <3>1 DEF CoreInv, WorkOK, WorkFine, Own
    <3>3. v.attempt \in DOMAIN log' /\ log'[v.attempt] = log[v.attempt]
      BY <3>2
    <3>4. \A b \in DOMAIN log' : log'[b].owner = c => b \in DOMAIN log /\ log[b].owner = c
      OBVIOUS
    <3>5. \A i \in DOMAIN docs' : docs'[i].receipt # None => docs'[i].receipt.attempt # v.attempt
      BY <3>2 DEF WorkFine
    <3>6. WorkFine(c, v)'
      BY <3>2, <3>3, <3>4, <3>5, WorkKept
    <3> QED BY <3>1, <3>6 DEF WorkOK
  <2> QED BY <2>1, <2>2
<1>3. DocsOK'
  <2>1. ASSUME NEW i \in DOMAIN docs, docs[i].receipt # None PROVE ReceiptOK(docs[i].receipt)'
    <3>1. PICK r : r = docs[i].receipt
      OBVIOUS
    <3>2. ReceiptOK(r)
      BY <2>1, <3>1 DEF CoreInv, DocsOK
    <3>3. r.owner \in Collectors /\ r.attempt \in DOMAIN log
      BY <3>2 DEF ReceiptOK, Own
    <3>4. closed'[r.owner] = FALSE => closed[r.owner] = FALSE
      BY <3>3
    <3>5. closed'[r.owner] \in BOOLEAN
      BY <3>3 DEF TypeOK
    <3>6. \A b \in DOMAIN log' : log'[b].owner = r.owner => b \in DOMAIN log /\ log[b].owner = r.owner
      OBVIOUS
    <3>7. ReceiptOK(r)'
      BY <3>2, <3>3, <3>4, <3>5, <3>6, <1>1, ReceiptKept
    <3> QED BY <3>1, <3>7
  <2> QED BY <2>1 DEF DocsOK, CoreInv
<1> QED BY <1>1, <1>2, <1>3 DEF CoreInv

LEMMA StutterStep ==
  ASSUME CoreInv, UNCHANGED vars
  PROVE  CoreInv'
<1>1. TypeOK'
  BY DEF CoreInv, TypeOK, vars, databaseVars, timeVars, collectorVars, Setting
<1> QED BY <1>1, QuietStep DEF vars, databaseVars, timeVars, collectorVars

LEMMA TickStep ==
  ASSUME CoreInv, Tick
  PROVE  CoreInv'
<1>1. now' \in 0..Setting.maxTime
  BY SettingFacts DEF Tick, CoreInv, TypeOK
<1>2. TypeOK'
  BY <1>1 DEF Tick, CoreInv, TypeOK, databaseVars, collectorVars, Setting
<1> QED BY <1>2, QuietStep DEF Tick, databaseVars, collectorVars

LEMMA AdjustClockStep ==
  ASSUME CoreInv, AdjustClock
  PROVE  CoreInv'
<1>1. TypeOK'
  BY DEF AdjustClock, CoreInv, TypeOK, databaseVars, collectorVars, Setting
<1> QED BY <1>1, QuietStep DEF AdjustClock, databaseVars, collectorVars

LEMMA WriteRowsStep ==
  ASSUME CoreInv, NEW t \in Tables, WriteRows(t)
  PROVE  CoreInv'
<1>1. bad' \in [Tables -> 0..Setting.maxBad] /\ dml' \in 0..Setting.maxDML
  BY SettingFacts DEF WriteRows, CoreInv, TypeOK
<1>2. TypeOK'
  BY <1>1 DEF WriteRows, CoreInv, TypeOK, timeVars, collectorVars, Setting
<1> QED BY <1>2, QuietStep DEF WriteRows, timeVars, collectorVars

LEMMA CloseStep ==
  ASSUME CoreInv, NEW c \in Collectors, Close(c)
  PROVE  CoreInv'
<1>1. closed' \in [Collectors -> BOOLEAN] /\ \A d \in Collectors : closed'[d] = FALSE => closed[d] = FALSE /\ d # c
  BY DEF Close, CoreInv, TypeOK
<1>2. \A d \in Collectors : work[d] # None => ~closed'[d]
  BY DEF Close, CoreInv, TypeOK
<1>3. TypeOK'
  BY <1>1, <1>2 DEF Close, CoreInv, TypeOK, databaseVars, timeVars, Setting
<1> QED BY <1>1, <1>3, QuietStep DEF Close, databaseVars, timeVars

LEMMA EvaluateKeeps ==
  ASSUME CoreInv, NEW owner, NEW d, NEW maxAge, Evaluate(owner, d, maxAge)
  PROVE  CoreInv'
<1>1. TypeOK'
  BY DEF Evaluate, CoreInv, TypeOK, databaseVars, timeVars, collectorVars, Setting
<1> QED BY <1>1, QuietStep DEF Evaluate, databaseVars, timeVars, collectorVars

\* Another session changes a schema or a table: a collection that was deceived
\* before has seen its one change already.
LEMMA AlterStep ==
  ASSUME CoreInv, ddl' = ddl + 1, ddl < Setting.maxDDL,
         schema' \in [Scopes -> Definitions], shape' \in [Tables -> Shapes], view' = None,
         UNCHANGED <<env, bad, dml, timeVars, collectorVars, docs, log>>
  PROVE  CoreInv'
<1>1. /\ ddl \in Nat /\ ddl' \in 0..Setting.maxDDL /\ ddl' \in Nat /\ ddl <= ddl'
  BY SettingFacts DEF CoreInv, TypeOK
<1>2. TypeOK'
  BY <1>1 DEF CoreInv, TypeOK, timeVars, collectorVars, Setting
<1>3. LogOK'
  <2>1. \A a \in DOMAIN log : log[a].ddl \in Nat
    BY LogFacts DEF CoreInv, LogType
  <2> QED BY <1>1, <2>1 DEF CoreInv, LogOK
<1>4. ASSUME NEW c \in Collectors PROVE WorkOK(c)'
  <2>1. CASE work[c] = None
    BY <2>1 DEF WorkOK, collectorVars
  <2>2. CASE work[c] # None
    <3>1. PICK w : w = work[c]
      OBVIOUS
    <3>2. PICK l : l = log[w.attempt]
      OBVIOUS
    <3>3. WorkFine(c, w) /\ w.attempt \in DOMAIN log
      BY <2>2, <3>1 DEF CoreInv, WorkOK, WorkFine, Own
    <3>4. l.ddl \in Nat /\ l.ddl <= ddl
      BY <3>2, <3>3, LogFacts DEF CoreInv, LogOK, LogType
    <3>5. Truthful(w, l)'
      <4>1. Truthful(w, l)
        BY <3>2, <3>3 DEF WorkFine
      <4>2. ddl' # l.ddl
        BY <3>4, <1>1
      <4>3. ddl' <= l.ddl + 1 => l.true
        BY <4>1, <3>4, <1>1 DEF Truthful
      <4> QED BY <4>1, <4>2, <4>3 DEF Truthful
    <3>6. ProgressOK(w)'
      BY <3>3 DEF WorkFine, ProgressOK, Checking
    <3>7. WorkFine(c, w)'
      <4>1. log'[w.attempt] = l
        BY <3>2
      <4> QED BY <3>3, <3>5, <3>6, <4>1 DEF WorkFine, Own, Newest, Started, Setting
    <3> QED BY <3>1, <3>7 DEF WorkOK, collectorVars
  <2> QED BY <2>1, <2>2
<1>5. DocsOK'
  <2>1. ASSUME NEW i \in DOMAIN docs, docs[i].receipt # None PROVE ReceiptOK(docs[i].receipt)'
    <3>1. PICK r : r = docs[i].receipt
      OBVIOUS
    <3>2. ReceiptOK(r)
      BY <2>1, <3>1 DEF CoreInv, DocsOK
    <3>3. r.owner \in Collectors /\ r.attempt \in DOMAIN log /\ LogOK
      BY <3>2 DEF ReceiptOK, Own, CoreInv
    <3>4. UNCHANGED <<env, closed, gen, work, log>>
      BY DEF collectorVars
    <3>5. closed'[r.owner] \in BOOLEAN
      BY <3>3, <1>2 DEF TypeOK
    <3>6. \A b \in DOMAIN log' : log'[b].owner = r.owner => b \in DOMAIN log /\ log[b].owner = r.owner
      OBVIOUS
    <3>7. ReceiptOK(r)'
      BY <3>2, <3>3, <3>4, <3>5, <3>6, <1>1, ReceiptKept
    <3> QED BY <3>1, <3>7
  <2> QED BY <2>1 DEF DocsOK, CoreInv
<1> QED BY <1>2, <1>3, <1>4, <1>5 DEF CoreInv, collectorVars

LEMMA AlterSchemaStep ==
  ASSUME CoreInv, NEW i \in Scopes, AlterSchema(i)
  PROVE  CoreInv'
<1>1. schema' \in [Scopes -> Definitions]
  BY SettingFacts DEF AlterSchema, CoreInv, TypeOK
<1>2. shape' \in [Tables -> Shapes]
  BY DEF AlterSchema, CoreInv, TypeOK
<1> QED BY <1>1, <1>2, AlterStep DEF AlterSchema

LEMMA AlterTableStep ==
  ASSUME CoreInv, NEW t \in Tables, AlterTable(t)
  PROVE  CoreInv'
<1>1. shape' \in [Tables -> Shapes]
  BY SettingFacts DEF AlterTable, CoreInv, TypeOK
<1>2. schema' \in [Scopes -> Definitions]
  BY DEF AlterTable, CoreInv, TypeOK
<1> QED BY <1>1, <1>2, AlterStep DEF AlterTable

\* A copy or an edit keeps the receipt as it was, or loses it.
LEMMA EditStep ==
  ASSUME CoreInv, NEW d \in DOMAIN docs, Edit(d)
  PROVE  CoreInv'
<1>1. PICK doc : doc = docs[d]
  OBVIOUS
<1>2. PICK e \in Edits(doc) : docs' = Append(docs, e)
  BY <1>1 DEF Edit
<1>3. /\ UNCHANGED <<env, schema, shape, bad, ddl, dml, now, skew, gen, closed, work, log>> /\ LogOK /\ DocsOK
      /\ ddl \in Nat /\ ddl' \in Nat /\ ddl <= ddl'
  BY SettingFacts DEF Edit, databaseVars, timeVars, collectorVars, CoreInv, TypeOK
<1>4. /\ doc = [plan |-> doc.plan, col |-> doc.col, receipt |-> doc.receipt] /\ doc.plan \in Setting.plans
      /\ doc.receipt # None => ReceiptOK(doc.receipt)
  BY <1>1 DEF CoreInv, TypeOK, DocsOK
<1> DEFINE Copy(x) == /\ x = [plan |-> x.plan, col |-> x.col, receipt |-> x.receipt]
                      /\ x.plan \in Setting.plans /\ x.receipt \in {None, doc.receipt}
<1>5. Copy(e)
  <2>1. CASE e = [doc EXCEPT !.receipt = None]
    BY <2>1, <1>4
  <2>2. ASSUME NEW p \in Setting.plans,
               e = [doc EXCEPT !.plan = p, !.col.plan = p.id, !.col.fingerprint = p.schema]
        PROVE  Copy(e)
    <3>1. PICK col : col = [[doc.col EXCEPT !.plan = p.id] EXCEPT !.fingerprint = p.schema]
      OBVIOUS
    <3>2. e = [plan |-> p, col |-> col, receipt |-> doc.receipt]
      BY <2>2, <3>1, <1>4
    <3> QED BY <3>2
  <2>3. CASE e = [doc EXCEPT !.col.started = Clock, !.col.finished = Clock]
    <3>1. PICK col : col = [[doc.col EXCEPT !.started = Clock] EXCEPT !.finished = Clock]
      OBVIOUS
    <3>2. e = [plan |-> doc.plan, col |-> col, receipt |-> doc.receipt]
      BY <2>3, <3>1, <1>4
    <3> QED BY <3>2, <1>4
  <2>4. ASSUME NEW results,
               e = [doc EXCEPT !.col.completed = TRUE, !.col.code = "PREFLIGHT_OK", !.col.results = results]
        PROVE  Copy(e)
    <3>1. PICK col : col = [[[doc.col EXCEPT !.completed = TRUE] EXCEPT !.code = "PREFLIGHT_OK"]
                              EXCEPT !.results = results]
      OBVIOUS
    <3>2. e = [plan |-> doc.plan, col |-> col, receipt |-> doc.receipt]
      BY <2>4, <3>1, <1>4
    <3> QED BY <3>2, <1>4
  <2>5. \/ e = [doc EXCEPT !.receipt = None]
        \/ \E p \in Setting.plans : e = [doc EXCEPT !.plan = p, !.col.plan = p.id, !.col.fingerprint = p.schema]
        \/ e = [doc EXCEPT !.col.started = Clock, !.col.finished = Clock]
        \/ \E results : e = [doc EXCEPT !.col.completed = TRUE, !.col.code = "PREFLIGHT_OK", !.col.results = results]
    BY <1>2, Zenon DEF Edits
  <2> HIDE DEF Copy
  <2> QED BY <2>1, <2>2, <2>3, <2>4, <2>5 DEF Copy
<1>6. /\ DOMAIN docs' = 1..(Len(docs) + 1) /\ docs'[Len(docs) + 1] = e
      /\ \A i \in DOMAIN docs' : (i \in DOMAIN docs /\ docs'[i] = docs[i]) \/ i = Len(docs) + 1
      /\ docs' \in Seq({docs'[i] : i \in DOMAIN docs'})
  BY <1>2, <1>3, DocsAppend
\* The receipt of an artifact is one that was there before.
<1>7. \A i \in DOMAIN docs' : docs'[i].receipt # None =>
        \E j \in DOMAIN docs : docs'[i].receipt = docs[j].receipt
  BY <1>1, <1>5, <1>6
<1>8. ASSUME NEW c \in Collectors PROVE WorkOK(c)'
  <2>1. CASE work[c] = None
    BY <2>1, <1>3 DEF WorkOK
  <2>2. CASE work[c] # None
    <3>1. PICK v : v = work[c]
      OBVIOUS
    <3>2. WorkFine(c, v) /\ v.attempt \in DOMAIN log
      BY <2>2, <3>1 DEF CoreInv, WorkOK, WorkFine, Own
    <3>3. v.attempt \in DOMAIN log' /\ log'[v.attempt] = log[v.attempt]
      BY <3>2, <1>3
    <3>4. \A b \in DOMAIN log' : log'[b].owner = c => b \in DOMAIN log /\ log[b].owner = c
      BY <1>3
    <3>5. \A i \in DOMAIN docs' : docs'[i].receipt # None => docs'[i].receipt.attempt # v.attempt
      BY <3>2, <1>7 DEF WorkFine
    <3>6. WorkFine(c, v)'
      BY <3>2, <3>3, <3>4, <3>5, <1>3, WorkKept
    <3> QED BY <3>1, <3>6, <1>3 DEF WorkOK
  <2> QED BY <2>1, <2>2
<1>9. ASSUME NEW i \in DOMAIN docs', docs'[i].receipt # None
      PROVE  ReceiptOK(docs[i].receipt)'
  <2>1. PICK j \in DOMAIN docs : docs'[i].receipt = docs[j].receipt
    BY <1>7, <1>9
  <2>2. PICK r : r = docs[j].receipt
    OBVIOUS
  <2>3. ReceiptOK(r)
    BY <2>1, <2>2, <1>9, <1>3 DEF DocsOK
  <2>4. r.owner \in Collectors /\ r.attempt \in DOMAIN log
    BY <2>3 DEF ReceiptOK, Own
  <2>5. closed'[r.owner] \in BOOLEAN
    BY <1>3, <2>4 DEF CoreInv, TypeOK
  <2>6. \A b \in DOMAIN log' : log'[b].owner = r.owner => b \in DOMAIN log /\ log[b].owner = r.owner
    BY <1>3
  <2>7. ReceiptOK(r)'
    BY <2>3, <2>4, <2>5, <2>6, <1>3, ReceiptKept
  <2>8. docs'[i].receipt = r
    BY <2>1, <2>2
  <2> QED BY <2>7, <2>8
<1>10. DocsOK'
  <2>1. ASSUME NEW i \in DOMAIN docs'
        PROVE  docs'[i] = [plan |-> docs'[i].plan, col |-> docs'[i].col, receipt |-> docs'[i].receipt]
    BY <1>3, <1>5, <1>6 DEF DocsOK
  <2> QED BY <1>6, <1>9, <2>1 DEF DocsOK
<1>11. TypeOK'
  <2>1. \A i \in DOMAIN docs' : docs'[i].plan \in Setting.plans
    BY <1>5, <1>6 DEF CoreInv, TypeOK
  <2> HIDE DEF Copy
  <2> QED BY <2>1, <1>3 DEF CoreInv, TypeOK, Setting
<1> QED BY <1>3, <1>8, <1>10, <1>11 DEF CoreInv, LogOK

\* A generation that did not wrap is greater than every earlier one.
LEMMA NextGeneration ==
  ASSUME NEW g \in 0..(GenMod - 1), (g + 1) % GenMod # 0
  PROVE  (g + 1) % GenMod = g + 1
<1>1. GenMod \in Nat \ {0, 1} /\ g \in Nat /\ g < GenMod
  BY PreflightAssumption
<1>2. g + 1 < GenMod => (g + 1) % GenMod = g + 1
  BY <1>1
<1>3. GenMod % GenMod = 0
  BY <1>1
<1>4. g + 1 # GenMod
  BY <1>3
<1> QED BY <1>1, <1>2, <1>4

\* An attempt supersedes the receipts of its collector before it reads anything,
\* and a collector whose generation wraps is closed.
LEMMA StartStep ==
  ASSUME CoreInv, NEW c \in Collectors, NEW d \in DOMAIN docs, CollectStart(c, d)
  PROVE  CoreInv'
<1>1. /\ UNCHANGED <<env, schema, shape, bad, ddl, dml, now, skew, docs>> /\ LogOK /\ DocsOK /\ view' = None
      /\ ddl \in Nat /\ ddl' \in Nat /\ ddl <= ddl' /\ now \in Nat /\ skew \in Nat /\ skew <= Setting.maxSkew
      /\ Setting.maxSkew \in Nat
  BY SettingFacts, SMTT(30) DEF CollectStart, databaseVars, timeVars, CoreInv, TypeOK
<1>2. PICK a : a = Len(log) + 1
  OBVIOUS
<1>3. PICK l : l = [owner |-> c, start |-> now, ddl |-> ddl, true |-> TRUE]
  OBVIOUS
<1>4. l \in LogType /\ l.owner = c /\ l.start = now /\ l.ddl = ddl /\ l.true
  BY <1>1, <1>3 DEF LogType
<1>5. /\ a \in Nat /\ a \notin DOMAIN log /\ DOMAIN log' = DOMAIN log \cup {a} /\ log'[a] = l
      /\ \A b \in DOMAIN log : log'[b] = log[b] /\ b < a
      /\ log' \in Seq(LogType)
  <2>1. log \in Seq(LogType) /\ log' = Append(log, l)
    BY <1>1, <1>3 DEF LogOK, CollectStart
  <2> QED BY <2>1, <1>2, <1>4
<1>6. LogOK'
  BY <1>1, <1>4, <1>5 DEF LogOK
<1>7. work[c] = None
  BY DEF CollectStart
<1>8. /\ gen' \in [Collectors -> 0..GenMod-1] /\ gen'[c] = (gen[c] + 1) % GenMod
      /\ \A e \in Collectors : e # c => gen'[e] = gen[e]
  <2>1. gen \in [Collectors -> 0..GenMod-1] /\ GenMod \in Nat \ {0, 1}
    BY PreflightAssumption DEF CoreInv, TypeOK
  <2>2. (gen[c] + 1) % GenMod \in 0..GenMod-1
    BY <2>1
  <2> QED BY <2>1, <2>2 DEF CollectStart
<1>9. PICK w : w = [plan |-> docs[d].plan, attempt |-> a, started |-> Clock,
                    at |-> "before", read |-> <<>>, i |-> 1, obs |-> <<>>, results |-> <<>>]
  OBVIOUS
<1>10. /\ closed' \in [Collectors -> BOOLEAN]
       /\ \A e \in Collectors : /\ closed'[e] = FALSE => closed[e] = FALSE
                                /\ e # c => closed'[e] = closed[e] /\ work'[e] = work[e]
       /\ DOMAIN work' = Collectors
       /\ \/ gen'[c] = 0 /\ closed'[c] /\ work'[c] = None
          \/ gen'[c] # 0 /\ ~closed'[c] /\ work'[c] = w
  <2>1. closed \in [Collectors -> BOOLEAN] /\ DOMAIN work = Collectors
    BY DEF CoreInv, TypeOK
  <2>2. CASE gen'[c] = 0
    <3>1. closed' = [closed EXCEPT ![c] = TRUE] /\ UNCHANGED work
      BY <2>2 DEF CollectStart
    <3> QED BY <3>1, <2>1, <2>2, <1>7
  <2>3. CASE gen'[c] # 0
    <3>1. work' = [work EXCEPT ![c] = w] /\ UNCHANGED closed /\ ~closed[c]
      BY <2>3, <1>2, <1>9 DEF CollectStart, Refuses
    <3> QED BY <3>1, <2>1, <2>3
  <2> QED BY <2>2, <2>3
<1>11. WorkFine(c, w)'
  <2>1. docs[d].plan \in Setting.plans /\ docs[d].plan \in PlanType
    BY SettingFacts DEF CoreInv, TypeOK
  <2>2. Clock \in Nat /\ Clock <= now + Setting.maxSkew
    BY <1>1 DEF Clock
  <2>3. w \in WorkType /\ w.attempt = a /\ w.started = Clock /\ w.plan = docs[d].plan
    <3>1. <<>> \in Seq(Definitions) /\ <<>> \in Seq(Observations) /\ <<>> \in Seq(Results)
      OBVIOUS
    <3> QED BY <3>1, <2>1, <2>2, <1>5, <1>9 DEF WorkType, Labels
  <2>4. Own(c, w.attempt)' /\ Newest(c, w.attempt)' /\ Started(w.attempt, w.started)'
    <3>1. Own(c, a)' /\ Started(a, w.started)'
      BY <2>2, <2>3, <1>1, <1>4, <1>5 DEF Own, Started, Setting
    <3>2. \A b \in DOMAIN log' : b <= a
      <4>1. \A b \in DOMAIN log : b \in Nat
        BY <1>1, LogFacts
      <4> QED BY <4>1, <1>5
    <3>3. Newest(c, a)'
      BY <3>2 DEF Newest
    <3> QED BY <2>3, <3>1, <3>3
  <2>5. \A i \in DOMAIN docs' : docs'[i].receipt # None => docs'[i].receipt.attempt # w.attempt
    BY <1>1, <1>5, <2>3 DEF DocsOK, ReceiptOK, Own
  <2>6. /\ w.at = "before" /\ w.i = Len(w.results) + 1 /\ w.obs = <<>> /\ w.read = <<>> /\ Len(w.read) = 0
        /\ w.results = <<>>
    BY <1>9
  <2>7. ProgressOK(w)'
    BY <2>6 DEF ProgressOK
  <2>8. Truthful(w, l)'
    <3>1. Unmoved(w)'
      BY <2>6 DEF Unmoved
    <3> QED BY <3>1, <1>4 DEF Truthful
  <2>9. Truthful(w, log[w.attempt])'
    BY <2>3, <2>8, <1>5
  <2>10. w.plan \in Setting.plans'
    BY <2>1, <2>3, <1>1 DEF Setting
  <2> QED BY <2>3, <2>4, <2>5, <2>7, <2>9, <2>10 DEF WorkFine
<1>12. ASSUME NEW e \in Collectors PROVE WorkOK(e)'
  <2>1. CASE e = c
    BY <2>1, <1>10, <1>11 DEF WorkOK
  <2>2. CASE e # c /\ work[e] = None
    BY <2>2, <1>10 DEF WorkOK
  <2>3. CASE e # c /\ work[e] # None
    <3>1. PICK v : v = work[e]
      OBVIOUS
    <3>2. WorkFine(e, v) /\ v.attempt \in DOMAIN log
      BY <2>3, <3>1 DEF CoreInv, WorkOK, WorkFine, Own
    <3>3. v.attempt \in DOMAIN log' /\ log'[v.attempt] = log[v.attempt]
      BY <3>2, <1>5
    <3>4. \A b \in DOMAIN log' : log'[b].owner = e => b \in DOMAIN log /\ log[b].owner = e
      BY <2>3, <1>4, <1>5
    <3>5. \A i \in DOMAIN docs' : docs'[i].receipt # None => docs'[i].receipt.attempt # v.attempt
      BY <3>2, <1>1 DEF WorkFine
    <3>6. WorkFine(e, v)'
      BY <3>2, <3>3, <3>4, <3>5, <1>1, WorkKept
    <3> QED BY <3>1, <3>6, <1>10, <2>3 DEF WorkOK
  <2> QED BY <2>1, <2>2, <2>3
<1>13. ASSUME NEW i \in DOMAIN docs, docs[i].receipt # None
       PROVE  ReceiptOK(docs[i].receipt)'
  <2>1. PICK r : r = docs[i].receipt
    OBVIOUS
  <2>2. ReceiptOK(r)
    BY <2>1, <1>13, <1>1 DEF DocsOK
  <2>3. r.owner \in Collectors /\ r.attempt \in DOMAIN log /\ r.gen \in Nat
    BY <2>2 DEF ReceiptOK, Own
  <2>4. CASE r.owner # c
    <3>1. closed'[r.owner] = FALSE => closed[r.owner] = FALSE
      BY <2>3, <1>10
    <3>2. closed'[r.owner] \in BOOLEAN
      BY <2>3, <1>10
    <3>3. gen'[r.owner] = gen[r.owner] /\ (work[r.owner] = None => work'[r.owner] = None)
      BY <2>3, <2>4, <1>8, <1>10
    <3>4. r.attempt \in DOMAIN log' /\ log'[r.attempt] = log[r.attempt]
      BY <2>3, <1>5
    <3>5. \A b \in DOMAIN log' : log'[b].owner = r.owner => b \in DOMAIN log /\ log[b].owner = r.owner
      BY <2>4, <1>4, <1>5
    <3>6. ReceiptOK(r)'
      BY <2>2, <3>1, <3>2, <3>3, <3>4, <3>5, <1>1, ReceiptKept
    <3> QED BY <2>1, <3>6, <1>1
  <2>5. CASE r.owner = c
    <3>1. ~closed'[c] => r.gen <= gen[c] /\ gen'[c] = gen[c] + 1 /\ gen[c] \in Nat
      <4>1. gen[c] \in 0..(GenMod - 1) /\ gen[c] \in Nat
        BY PreflightAssumption DEF CoreInv, TypeOK
      <4>2. ~closed'[c] => gen'[c] # 0 /\ ~closed[c]
        BY <1>10
      <4>3. gen'[c] # 0 => gen'[c] = gen[c] + 1
        BY <4>1, <1>8, NextGeneration
      <4> QED BY <4>1, <4>2, <4>3, <2>2, <2>5 DEF ReceiptOK
    <3>2. ~closed'[c] => r.gen < gen'[c]
      BY <3>1, <2>3
    <3>3. ~closed'[c] => r.gen <= gen'[c] /\ r.gen # gen'[c]
      BY <3>1, <2>3
    <3>4. log'[r.attempt] = log[r.attempt] /\ r.attempt \in DOMAIN log'
      BY <2>3, <1>5
    <3>5. ReceiptOK(r)'
      BY <2>2, <2>5, <3>3, <3>4, <1>1 DEF ReceiptOK, Own, Started, Setting
    <3> QED BY <2>1, <3>5, <1>1
  <2> QED BY <2>4, <2>5
<1>14. DocsOK'
  BY <1>1, <1>13 DEF DocsOK
<1>15. TypeOK'
  <2>1. \A e \in Collectors : work'[e] # None =>
          work'[e].at \in {"before", "check", "recheck", "after"} /\ work'[e].attempt \in DOMAIN log' /\ ~closed'[e]
    <3>1. w.at = "before" /\ w.attempt = a
      BY <1>9
    <3>2. \A e \in Collectors : e # c /\ work[e] # None =>
            work[e].at \in {"before", "check", "recheck", "after"} /\ work[e].attempt \in DOMAIN log /\ ~closed[e]
      BY DEF CoreInv, TypeOK
    <3> QED BY <3>1, <3>2, <1>5, <1>10
  <2> QED BY <2>1, <1>1, <1>8, <1>10 DEF CoreInv, TypeOK, Setting
<1> QED BY <1>6, <1>10, <1>12, <1>14, <1>15 DEF CoreInv

LEMMA CoreInit ==
  ASSUME Init
  PROVE  CoreInv /\ view = None
<1>1. Setting \in SettingType
  BY SettingsAssumption DEF Init, Setting
<1>2. PICK p \in Setting.plans : docs = <<[plan |-> p, col |-> None, receipt |-> None]>>
  BY DEF Init
<1>3. /\ DOMAIN docs = {1} /\ docs[1] = [plan |-> p, col |-> None, receipt |-> None]
      /\ docs \in Seq({docs[i] : i \in DOMAIN docs})
  BY <1>2
<1>4. TypeOK
  <2>1. /\ Setting.definitions \subseteq Definitions /\ Setting.shapes \subseteq Shapes
        /\ Setting.maxTime \in Nat \ {0} /\ Setting.maxSkew \in Nat /\ Setting.maxDDL \in Nat
        /\ Setting.maxDML \in Nat /\ Setting.maxBad \in Nat
    BY <1>1 DEF SettingType
  <2>2. schema \in [Scopes -> Definitions] /\ shape \in [Tables -> Shapes]
    BY <2>1 DEF Init
  <2>3. /\ now \in 0..Setting.maxTime /\ skew \in 0..Setting.maxSkew
        /\ ddl \in 0..Setting.maxDDL /\ dml \in 0..Setting.maxDML
    BY <2>1 DEF Init
  <2>4. gen \in [Collectors -> 0..GenMod-1] /\ closed \in [Collectors -> BOOLEAN]
    BY PreflightAssumption DEF Init
  <2>5. \A c \in Collectors : work[c] = None
    BY DEF Init
  <2>6. env \in DOMAIN Settings /\ bad \in [Tables -> 0..Setting.maxBad]
    BY DEF Init
  <2> QED BY <2>2, <2>3, <2>4, <2>5, <2>6, <1>3 DEF TypeOK
<1>5. LogOK
  BY DEF Init, LogOK
<1>6. DocsOK
  BY <1>3 DEF DocsOK
<1>7. DOMAIN work = Collectors /\ \A c \in Collectors : WorkOK(c)
  BY DEF Init, WorkOK
<1>8. view = None
  BY DEF Init
<1> QED BY <1>4, <1>5, <1>6, <1>7, <1>8 DEF CoreInv

(***************************************************************************)
(* What is seen of a table, and what checkTarget makes of it.              *)
(***************************************************************************)
LEMMA InspectOK ==
  ASSUME TypeOK, NEW t \in Tables
  PROVE  /\ inspectTable(t) \in Observations
         /\ inspectTable(t).coverage = "satisfied" => shape[t] # "hidden"
<1>1. shape[t] \in {"integer", "text", "opaque", "divided", "hidden", "gone"}
  BY ShapesAssumption DEF TypeOK
<1> QED BY <1>1 DEF inspectTable, Observations, Verdicts

LEMMA NotEmpty ==
  ASSUME NEW S, NEW s \in Seq(S)
  PROVE  s # <<>> => Len(s) \in Nat /\ Len(s) >= 1 /\ (Len(s) # 1 => Len(s) >= 2)
<1>1. s # <<>> => Len(s) # 0
  BY EmptySeq, Zenon
<1>2. Len(s) \in Nat
  BY LenProperties
<1>3. \A n \in Nat : n # 0 => n >= 1 /\ (n # 1 => n >= 2)
  OBVIOUS
<1> QED BY <1>1, <1>2, <1>3, Zenon

LEMMA AnswerOK ==
  ASSUME NEW p, NEW r, NEW obs \in Seq(Observations), checkTarget(p, r, obs) # More
  PROVE  checkTarget(p, r, obs)[1] \in Verdicts /\ checkTarget(p, r, obs)[2] \in Codes
<1>1. obs # <<>> => obs[1] \in Observations /\ (Len(obs) # 1 => obs[2] \in Observations)
  BY NotEmpty, ElementOfSeq
<1> QED BY <1>1 DEF checkTarget, Observations, Verdicts, Codes, RequirementCodes

\* A target is satisfied only after every table of the requirement was seen whole.
LEMMA SeenWhole ==
  ASSUME NEW p, NEW r, NEW obs \in Seq(Observations),
         checkTarget(p, r, obs) = <<"satisfied", "PREFLIGHT_OK">>
  PROVE  /\ Len(obs) >= 1 /\ obs[1].coverage = "satisfied"
         /\ r.kind = "orphan_count" => Len(obs) >= 2 /\ obs[2].coverage = "satisfied"
<1>1. obs # <<>> => Len(obs) >= 1 /\ (Len(obs) # 1 => Len(obs) >= 2)
  BY NotEmpty
<1>2. More # <<"satisfied", "PREFLIGHT_OK">>
  BY DEF More
<1> QED BY <1>1, <1>2 DEF checkTarget

(***************************************************************************)
(* The steps of a collection.                                              *)
(***************************************************************************)
LEMMA CollectionFacts ==
  ASSUME CoreInv, NEW c \in Collectors, work[c] # None, NEW w, w = work[c], NEW l, l = log[w.attempt]
  PROVE  /\ w \in WorkType /\ w.plan \in PlanType /\ l \in LogType
         /\ w.results \in Seq(Results) /\ w.obs \in Seq(Observations) /\ w.read \in Seq(Definitions)
         /\ w.i \in Nat \ {0} /\ w.at \in Labels
         /\ Requirements(w.plan) \in Seq(RequirementType)
         /\ ProgressOK(w) /\ Truthful(w, l)
         /\ UNCHANGED log => log' = [log EXCEPT ![w.attempt] = l]
         /\ ddl \in Nat /\ l.ddl \in Nat /\ l.ddl <= ddl
         /\ schema \in [Scopes -> Definitions] /\ w.plan.schema \in [Scopes -> Definitions]
<1>1. WorkFine(c, w) /\ w.attempt \in DOMAIN log /\ w \in WorkType
  BY DEF CoreInv, WorkOK, WorkFine, Own
<1>2. /\ w.plan \in PlanType /\ w.results \in Seq(Results) /\ w.obs \in Seq(Observations)
      /\ w.read \in Seq(Definitions) /\ w.i \in Nat \ {0} /\ w.at \in Labels
  BY <1>1 DEF WorkType
<1>3. Requirements(w.plan) \in Seq(RequirementType)
  BY <1>2, RequirementsOK
<1>4. ProgressOK(w) /\ Truthful(w, l)
  BY <1>1 DEF WorkFine
<1>5. log \in Seq(LogType) /\ l.ddl <= ddl
  BY <1>1 DEF CoreInv, LogOK
<1>6. l \in LogType /\ log = [log EXCEPT ![w.attempt] = l]
  BY <1>1, <1>5
<1>7. l.ddl \in Nat
  BY <1>6 DEF LogType
<1>8. ddl \in Nat /\ schema \in [Scopes -> Definitions]
  BY SettingFacts DEF CoreInv, TypeOK
<1>9. w.plan.schema \in [Scopes -> Definitions]
  BY <1>2 DEF PlanType
<1> QED BY <1>1, <1>2, <1>3, <1>4, <1>5, <1>6, <1>7, <1>8, <1>9

\* observeSchemas: what the collection was deceived about shows in the last
\* schema read after the counts, at the latest.
LEMMA ObserveSchemaStep ==
  ASSUME CoreInv, NEW c \in Collectors, ObserveSchema(c)
  PROVE  CoreInv'
<1>1. PICK w : w = work[c]
  OBVIOUS
<1>2. PICK l : l = log[w.attempt]
  OBVIOUS
<1>3. PICK read : read = Append(w.read, schema[Len(w.read) + 1])
  OBVIOUS
<1>4. /\ work[c] # None /\ w.at \in {"before", "after"} /\ view' = None
      /\ UNCHANGED <<databaseVars, timeVars, gen, closed>> /\ UNCHANGED log
      /\ \/ Len(read) < Cardinality(Scopes) /\ Goto(c, [w EXCEPT !.read = read])
         \/ Finish(c, "PREFLIGHT_SCHEMA_CHANGED", w.results)
         \/ read = w.plan.schema /\ w.at = "before" /\ Goto(c, [w EXCEPT !.at = "check", !.read = <<>>])
         \/ read = w.plan.schema /\ w.at = "after" /\ Finish(c, "PREFLIGHT_OK", w.results)
  BY <1>1, <1>3, Zenon DEF ObserveSchema, collectRest
<1>5. /\ w \in WorkType /\ w.plan \in PlanType /\ l \in LogType
      /\ w.results \in Seq(Results) /\ w.read \in Seq(Definitions)
      /\ Requirements(w.plan) \in Seq(RequirementType)
      /\ ProgressOK(w) /\ Truthful(w, l) /\ log' = [log EXCEPT ![w.attempt] = l]
      /\ schema \in [Scopes -> Definitions] /\ w.plan.schema \in [Scopes -> Definitions]
  BY <1>1, <1>2, <1>4, CollectionFacts
<1>6. /\ Len(w.read) \in Nat /\ Len(read) = Len(w.read) + 1
      /\ \A j \in 1..Len(w.read) : read[j] = w.read[j]
      /\ read[Len(read)] = schema[Len(read)] /\ DOMAIN read = 1..Len(read)
  BY <1>3, <1>5, SMTT(30)
<1>7. CASE Len(read) < Cardinality(Scopes) /\ Goto(c, [w EXCEPT !.read = read])
  <2>1. PICK w2 : w2 = [w EXCEPT !.read = read]
    OBVIOUS
  <2>2. Len(w.read) + 1 \in Scopes
    BY <1>6, <1>7, ScopesAssumption, FS_CardinalityType
  <2>3. read \in Seq(Definitions)
    BY <1>3, <1>5, <2>2
  <2>4. /\ w2 \in WorkType /\ w2.read = read /\ w2.at = w.at /\ w2.plan = w.plan /\ w2.results = w.results
        /\ w2.obs = w.obs /\ w2.i = w.i /\ w2.attempt = w.attempt /\ w2.started = w.started
    BY <1>5, <2>1, <2>3 DEF WorkType
  <2>5. ProgressOK(w2)
    BY <1>4, <1>5, <2>4 DEF ProgressOK, Checking
  <2>6. Truthful(w2, l)
    <3>1. w2.at = "before" => l.true
      BY <1>5, <2>4 DEF Truthful
    <3>2. ASSUME ddl = l.ddl PROVE Unmoved(w2)
      <4>1. Unmoved(w)
        BY <1>5, <3>2 DEF Truthful
      <4>2. w.at = "before" => \A j \in 1..Len(read) : read[j] = schema[j]
        BY <1>6, <4>1 DEF Unmoved
      <4> QED BY <1>4, <2>4, <4>1, <4>2 DEF Unmoved
    <3>3. ASSUME ~l.true, ddl <= l.ddl + 1 PROVE ddl = l.ddl + 1 /\ SchemaShows(w2)
      <4>1. ddl = l.ddl + 1 /\ (SchemaShows(w) \/ TableShows(w))
        BY <1>5, <3>3 DEF Truthful
      <4>2. ~TableShows(w)
        BY <1>4 DEF TableShows
      <4>3. PICK j \in Scopes : schema[j] # w.plan.schema[j] /\ (j <= Len(w.read) => w.read[j] # w.plan.schema[j])
        BY <4>1, <4>2 DEF SchemaShows
      <4>4. j \in Nat /\ j >= 1
        BY ScopesAssumption, FS_CardinalityType
      <4>5. j <= Len(read) => read[j] # w.plan.schema[j]
        BY <4>3, <4>4, <1>6
      <4> QED BY <4>1, <4>3, <4>5, <2>4 DEF SchemaShows
    <3> QED BY <3>1, <3>2, <3>3 DEF Truthful
  <2>7. work' = [work EXCEPT ![c] = w2] /\ UNCHANGED <<databaseVars, timeVars, gen, closed, docs>>
    BY <1>4, <1>7, <2>1 DEF Goto
  <2> QED BY <1>1, <1>2, <1>4, <1>5, <2>4, <2>5, <2>6, <2>7, WorkStep
<1>8. CASE Finish(c, "PREFLIGHT_SCHEMA_CHANGED", w.results)
  BY <1>1, <1>4, <1>5, <1>8, FinishStep, SMTT(30)
<1>9. CASE read = w.plan.schema /\ w.at = "before" /\ Goto(c, [w EXCEPT !.at = "check", !.read = <<>>])
  <2>1. PICK w2 : w2 = [w EXCEPT !.at = "check", !.read = <<>>]
    OBVIOUS
  <2>2. /\ w2 \in WorkType /\ w2.read = <<>> /\ w2.at = "check" /\ w2.plan = w.plan /\ w2.results = w.results
        /\ w2.obs = w.obs /\ w2.i = w.i /\ w2.attempt = w.attempt /\ w2.started = w.started
    <3>1. <<>> \in Seq(Definitions) /\ "check" \in Labels
      BY DEF Labels
    <3> QED BY <1>5, <2>1, <3>1 DEF WorkType
  <2>3. w.obs = <<>> /\ w.results = <<>> /\ w.i = Len(w.results) + 1
    BY <1>5, <1>9 DEF ProgressOK
  <2>4. ProgressOK(w2)
    BY <2>2, <2>3, <1>5 DEF ProgressOK
  <2>5. Truthful(w2, l)
    <3>1. l.true
      BY <1>5, <1>9 DEF Truthful
    <3>2. ASSUME ddl = l.ddl PROVE Unmoved(w2)
      <4>1. \A j \in 1..Len(w.read) : w.read[j] = schema[j]
        BY <1>5, <1>9, <3>2 DEF Truthful, Unmoved
      <4>2. \A j \in 1..Len(read) : read[j] = schema[j]
        BY <1>6, <4>1
      <4>3. schema = w.plan.schema
        <5>1. Scopes = 1..Len(read)
          BY <1>5, <1>6, <1>9
        <5>2. \A j \in Scopes : schema[j] = w.plan.schema[j]
          BY <1>9, <4>2, <5>1
        <5> QED BY <1>5, <5>2
      <4> QED BY <2>2, <2>3, <4>3 DEF Unmoved
    <3> QED BY <3>1, <3>2 DEF Truthful
  <2>6. work' = [work EXCEPT ![c] = w2] /\ UNCHANGED <<databaseVars, timeVars, gen, closed, docs>>
    BY <1>4, <1>9, <2>1 DEF Goto
  <2> QED BY <1>1, <1>2, <1>4, <1>5, <2>2, <2>4, <2>5, <2>6, WorkStep
<1>10. CASE read = w.plan.schema /\ w.at = "after" /\ Finish(c, "PREFLIGHT_OK", w.results)
  <2>1. ASSUME ddl <= l.ddl + 1, ~l.true PROVE FALSE
    <3>1. SchemaShows(w) \/ TableShows(w)
      BY <1>5, <2>1 DEF Truthful
    <3>2. ~TableShows(w)
      BY <1>10 DEF TableShows
    <3>3. PICK j \in Scopes : schema[j] # w.plan.schema[j] /\ (j <= Len(w.read) => w.read[j] # w.plan.schema[j])
      BY <3>1, <3>2 DEF SchemaShows
    <3>4. j \in 1..Len(read)
      BY <1>5, <1>6, <1>10
    <3> QED BY <1>6, <1>10, <3>3, <3>4, SMTT(60)
  <2>2. "PREFLIGHT_OK" = "PREFLIGHT_OK" /\ ddl <= log[w.attempt].ddl + 1 => log[w.attempt].true
    BY <1>2, <2>1
  <2> QED BY <1>1, <1>4, <1>5, <1>10, <2>2, FinishStep
<1> QED BY <1>4, <1>7, <1>8, <1>9, <1>10

\* The requirement a collection is at.
LEMMA CurrentOK ==
  ASSUME NEW w \in WorkType, Requirements(w.plan) \in Seq(RequirementType), Checking(w)
  PROVE  /\ Current(w) \in RequirementType /\ Current(w) = Requirements(w.plan)[w.i]
         /\ Current(w).target \in Tables /\ Current(w).reference \in Tables
<1>1. w.i \in 1..Len(Requirements(w.plan))
  BY DEF WorkType, Checking
<1>2. Current(w) \in RequirementType
  BY <1>1 DEF Current
<1> QED BY <1>2 DEF Current, RequirementType

\* What was seen of the schema still shows when the rest of the collection moves on.
LEMMA SchemaStillShows ==
  ASSUME NEW w, NEW w2, w2.plan = w.plan, w2.read = w.read, SchemaShows(w)
  PROVE  SchemaShows(w2)
BY SMTT(30) DEF SchemaShows

LEMMA InspectStep ==
  ASSUME CoreInv, NEW c \in Collectors, Inspect(c)
  PROVE  CoreInv'
<1>1. PICK w : w = work[c]
  OBVIOUS
<1>2. PICK l : l = log[w.attempt]
  OBVIOUS
<1>3. PICK r : r = Current(w)
  OBVIOUS
<1>4. PICK seen : seen = inspectTable(IF w.obs = <<>> THEN r.target ELSE r.reference)
  OBVIOUS
<1>5. PICK obs : obs = Append(w.obs, seen)
  OBVIOUS
<1>6. PICK w2 : w2 = [w EXCEPT !.obs = obs]
  OBVIOUS
<1>7. /\ work[c] # None /\ Inspecting(w) /\ Goto(c, w2) /\ view' = None
      /\ UNCHANGED <<databaseVars, timeVars, gen, closed>> /\ UNCHANGED log
  BY <1>1, <1>3, <1>4, <1>5, <1>6 DEF Inspect, collectRest
<1>8. w.at \in {"check", "recheck"} /\ Checking(w) /\ r.status = "pending"
  BY <1>3, <1>7 DEF Inspecting
<1>9. /\ w \in WorkType /\ l \in LogType /\ w.obs \in Seq(Observations)
      /\ Requirements(w.plan) \in Seq(RequirementType)
      /\ ProgressOK(w) /\ Truthful(w, l) /\ log' = [log EXCEPT ![w.attempt] = l]
  BY <1>1, <1>2, <1>7, CollectionFacts
<1>10. r = Requirements(w.plan)[w.i] /\ r.target \in Tables /\ r.reference \in Tables
  BY <1>3, <1>8, <1>9, CurrentOK
<1>11. Len(w.obs) \in Nat /\ (w.obs = <<>> <=> Len(w.obs) = 0)
  BY <1>9, NotEmpty
<1>12. seen \in Observations /\ seen = inspectTable(Tab(r, Len(w.obs) + 1))
  <2>1. (IF w.obs = <<>> THEN r.target ELSE r.reference) = Tab(r, Len(w.obs) + 1)
    BY <1>11 DEF Tab
  <2>2. (IF w.obs = <<>> THEN r.target ELSE r.reference) \in Tables
    BY <1>10
  <2>3. seen \in Observations
    BY <1>4, <2>2, InspectOK DEF CoreInv
  <2> QED BY <1>4, <2>1, <2>3
<1>13. /\ obs \in Seq(Observations) /\ Len(obs) = Len(w.obs) + 1 /\ obs[Len(obs)] = seen
       /\ \A m \in 1..Len(w.obs) : obs[m] = w.obs[m]
  BY <1>5, <1>9, <1>12, AppendProperties
<1>14. /\ w2 \in WorkType /\ w2.read = w.read /\ w2.at = w.at /\ w2.plan = w.plan /\ w2.results = w.results
       /\ w2.obs = obs /\ w2.i = w.i /\ w2.attempt = w.attempt /\ w2.started = w.started
  BY <1>6, <1>9, <1>13 DEF WorkType
<1>15. ProgressOK(w2)
  BY <1>8, <1>9, <1>14 DEF ProgressOK, Checking
<1>16. Truthful(w2, l)
  <2>1. ASSUME ddl = l.ddl PROVE Unmoved(w2)
    <3>1. Unmoved(w)
      BY <1>9, <2>1 DEF Truthful
    <3>2. Current(w2) = r
      BY <1>3, <1>14 DEF Current
    <3>3. ASSUME w.at = "check", NEW m \in 1..Len(obs) PROVE obs[m] = inspectTable(Tab(r, m))
      <4>1. CASE m = Len(obs)
        BY <4>1, <1>12, <1>13
      <4>2. CASE m # Len(obs)
        <5>1. m \in 1..Len(w.obs)
          BY <4>2, <1>11, <1>13
        <5> QED BY <5>1, <3>1, <3>3, <1>3, <1>13 DEF Unmoved
      <4> QED BY <4>1, <4>2
    <3> QED BY <1>8, <1>14, <3>1, <3>2, <3>3 DEF Unmoved
  <2>2. ASSUME ~l.true, ddl <= l.ddl + 1 PROVE ddl = l.ddl + 1 /\ (SchemaShows(w2) \/ TableShows(w2))
    <3>1. ddl = l.ddl + 1 /\ (SchemaShows(w) \/ TableShows(w))
      BY <1>9, <2>2 DEF Truthful
    <3>2. CASE SchemaShows(w)
      BY <3>1, <3>2, <1>14, SchemaStillShows
    <3>3. CASE TableShows(w)
      <4>1. PICK k \in 1..Len(w.results) :
              /\ Requirements(w.plan)[k].status = "pending"
              /\ w.at = "recheck" => w.i <= k
              /\ \E m \in 1..Len(w.results[k].targets) :
                   /\ w.results[k].targets[m] # inspectTable(Tab(Requirements(w.plan)[k], m))
                   /\ w.at = "recheck" /\ w.i = k /\ m <= Len(w.obs) => w.obs[m] # w.results[k].targets[m]
        BY <3>3 DEF TableShows
      <4>2. PICK m \in 1..Len(w.results[k].targets) :
                   /\ w.results[k].targets[m] # inspectTable(Tab(Requirements(w.plan)[k], m))
                   /\ w.at = "recheck" /\ w.i = k /\ m <= Len(w.obs) => w.obs[m] # w.results[k].targets[m]
        BY <4>1
      <4>3. ASSUME w.i = k, m <= Len(obs), w.at = "recheck" PROVE obs[m] # w.results[k].targets[m]
        <5>1. m \in Nat /\ m >= 1
          OBVIOUS
        <5>2. CASE m = Len(obs)
          BY <5>2, <4>2, <4>3, <1>10, <1>12, <1>13
        <5>3. CASE m # Len(obs)
          <6>1. m \in 1..Len(w.obs)
            BY <5>1, <5>3, <4>3, <1>11, <1>13
          <6> QED BY <6>1, <4>2, <4>3, <1>13
        <5> QED BY <5>2, <5>3
      <4>4. TableShows(w2)
        BY <1>8, <1>14, <4>1, <4>2, <4>3, SMTT(30) DEF TableShows
      <4> QED BY <3>1, <4>4
    <3> QED BY <3>1, <3>2, <3>3
  <2> QED BY <1>8, <1>14, <2>1, <2>2 DEF Truthful
<1>17. work' = [work EXCEPT ![c] = w2] /\ UNCHANGED <<databaseVars, timeVars, gen, closed, docs>>
  BY <1>7 DEF Goto
<1> QED BY <1>1, <1>2, <1>7, <1>9, <1>14, <1>15, <1>16, <1>17, WorkStep

\* The loop moves on to the next requirement: what shows still shows.
LEMMA NextRequirementOK ==
  ASSUME NEW w \in WorkType, ProgressOK(w), Requirements(w.plan) \in Seq(RequirementType),
         w.at = "check", Checking(w), NEW result \in Results, NEW w2, w2 = NextRequirement(w, result)
  PROVE  /\ w2 \in WorkType /\ w2.at = "check" /\ w2.plan = w.plan /\ w2.read = w.read /\ w2.obs = <<>>
         /\ w2.attempt = w.attempt /\ w2.started = w.started
         /\ Len(w2.results) = w.i /\ w2.results[w.i] = result
         /\ ProgressOK(w2) /\ (Unmoved(w) => Unmoved(w2))
         /\ SchemaShows(w) \/ TableShows(w) => SchemaShows(w2) \/ TableShows(w2)
<1>1. /\ w.results \in Seq(Results) /\ w.i \in Nat \ {0} /\ w.i = Len(w.results) + 1
      /\ w.i <= Len(Requirements(w.plan)) /\ Len(Requirements(w.plan)) \in Nat
  BY DEF WorkType, ProgressOK, Checking
<1>2. PICK results : results = Append(w.results, result)
  OBVIOUS
<1>3. /\ results \in Seq(Results) /\ Len(results) = w.i /\ results[w.i] = result
      /\ \A k \in 1..Len(w.results) : results[k] = w.results[k]
  BY <1>1, <1>2, AppendProperties
<1>4. w2 = [w EXCEPT !.results = results, !.i = w.i + 1, !.obs = <<>>]
  BY <1>2 DEF NextRequirement, WorkType
<1>5. /\ w2.at = w.at /\ w2.plan = w.plan /\ w2.read = w.read /\ w2.obs = <<>>
      /\ w2.attempt = w.attempt /\ w2.started = w.started /\ w2.results = results /\ w2.i = w.i + 1
  BY <1>4 DEF WorkType
<1>6. w2 \in WorkType
  <2>1. <<>> \in Seq(Observations) /\ w.i + 1 \in Nat \ {0}
    BY <1>1
  <2> QED BY <2>1, <1>3, <1>4 DEF WorkType
<1>7. ProgressOK(w2)
  BY <1>1, <1>3, <1>5 DEF ProgressOK
<1>8. Unmoved(w) => Unmoved(w2)
  BY <1>5 DEF Unmoved
<1>9. ASSUME TableShows(w) PROVE TableShows(w2)
  <2>1. PICK k \in 1..Len(w.results) :
          /\ Requirements(w.plan)[k].status = "pending"
          /\ \E m \in 1..Len(w.results[k].targets) :
               w.results[k].targets[m] # inspectTable(Tab(Requirements(w.plan)[k], m))
    BY <1>9 DEF TableShows
  <2>2. k \in 1..Len(results) /\ results[k] = w.results[k]
    BY <1>1, <1>3
  <2> QED BY <2>1, <2>2, <1>5 DEF TableShows
<1>10. SchemaShows(w) => SchemaShows(w2)
  BY <1>5, SchemaStillShows
<1> QED BY <1>3, <1>5, <1>6, <1>7, <1>8, <1>9, <1>10

\* A result that no count was taken for.
LEMMA ResultOK ==
  ASSUME NEW w \in WorkType, NEW status \in Verdicts, NEW code \in Codes, NEW count \in Nat \cup {None}
  PROVE  /\ Result(w, status, code, count) \in Results
         /\ Result(w, status, code, count).targets = w.obs
<1>1. w.plan.id \in Nat /\ w.i \in Nat /\ w.obs \in Seq(Observations)
  BY SMTT(30) DEF WorkType, PlanType
<1> QED BY <1>1 DEF Result, Results

\* A requirement that is not counted leaves the attempt as it was.
LEMMA SkipStep ==
  ASSUME CoreInv, NEW c \in Collectors, work[c] # None, NEW w, w = work[c],
         w.at = "check", Checking(w), NEW result \in Results, Goto(c, NextRequirement(w, result)),
         UNCHANGED <<databaseVars, timeVars, gen, closed>>, UNCHANGED log, view' = None
  PROVE  CoreInv'
<1>1. PICK l : l = log[w.attempt]
  OBVIOUS
<1>2. /\ w \in WorkType /\ l \in LogType /\ Requirements(w.plan) \in Seq(RequirementType)
      /\ ProgressOK(w) /\ Truthful(w, l) /\ log' = [log EXCEPT ![w.attempt] = l]
  BY <1>1, CollectionFacts
<1>3. PICK w2 : w2 = NextRequirement(w, result)
  OBVIOUS
<1>4. /\ w2 \in WorkType /\ w2.at = "check" /\ w2.plan = w.plan
      /\ w2.attempt = w.attempt /\ w2.started = w.started
      /\ ProgressOK(w2) /\ (Unmoved(w) => Unmoved(w2))
      /\ SchemaShows(w) \/ TableShows(w) => SchemaShows(w2) \/ TableShows(w2)
  BY <1>2, <1>3, NextRequirementOK
<1>5. Truthful(w2, l)
  BY <1>2, <1>4 DEF Truthful
<1>6. work' = [work EXCEPT ![c] = w2] /\ UNCHANGED <<databaseVars, timeVars, gen, closed, docs>>
  BY <1>3 DEF Goto
<1> QED BY <1>1, <1>2, <1>4, <1>5, <1>6, WorkStep

\* A count that is not the number of violating rows was taken of a table that
\* hides rows, though the table was seen whole before.
LEMMA WrongCount ==
  ASSUME TypeOK, NEW w \in WorkType, Requirements(w.plan) \in Seq(RequirementType), Counting(w),
         NEW r, r = Current(w), NEW n \in Counts(r)
  PROVE  /\ n \in Nat
         /\ n # bad[r.target] =>
              \E m \in 1..Len(w.obs) : w.obs[m] # inspectTable(Tab(r, m))
<1>1. /\ w.obs \in Seq(Observations) /\ Checking(w)
      /\ checkTarget(w.plan, r, w.obs) = <<"satisfied", "PREFLIGHT_OK">>
  BY DEF WorkType, Counting
<1>2. r.target \in Tables /\ r.reference \in Tables
  BY <1>1, CurrentOK
<1>3. /\ Len(w.obs) \in Nat /\ Len(w.obs) >= 1 /\ w.obs[1].coverage = "satisfied"
      /\ r.kind = "orphan_count" => Len(w.obs) >= 2 /\ w.obs[2].coverage = "satisfied"
  BY <1>1, SeenWhole, LenProperties
<1>4. \A t \in Tables : bad[t] \in Nat
  BY SettingFacts DEF TypeOK
<1>5. Setting.maxBad \in Nat
  BY SettingFacts
<1>6. n \in Nat
  BY <1>2, <1>4, <1>5 DEF Counts
<1>7. ASSUME n # bad[r.target]
      PROVE  shape[r.target] = "hidden" \/ (r.kind = "orphan_count" /\ shape[r.reference] = "hidden")
  BY <1>2, <1>4, <1>5, <1>7 DEF Counts
<1>8. ASSUME NEW t \in Tables, shape[t] = "hidden" PROVE inspectTable(t).coverage = "unknown"
  BY <1>8 DEF inspectTable
<1>9. CASE shape[r.target] = "hidden"
  <2>1. w.obs[1] # inspectTable(Tab(r, 1)) /\ 1 \in 1..Len(w.obs)
    BY <1>2, <1>3, <1>8, <1>9 DEF Tab
  <2> QED BY <2>1, <1>6
<1>10. CASE r.kind = "orphan_count" /\ shape[r.reference] = "hidden"
  <2>1. w.obs[2] # inspectTable(Tab(r, 2)) /\ 2 \in 1..Len(w.obs)
    BY <1>2, <1>3, <1>8, <1>10 DEF Tab
  <2> QED BY <2>1, <1>6
<1> QED BY <1>6, <1>7, <1>9, <1>10

\* A count is judged against the rows and the schema of its moment.  When it is
\* wrong, another session made a change that the rest of the collection shows.
LEMMA CountStep ==
  ASSUME CoreInv, NEW c \in Collectors, work[c] # None, NEW w, w = work[c],
         Counting(w), NEW n \in Counts(Current(w)),
         Goto(c, NextRequirement(w, Result(w, "satisfied", "PREFLIGHT_OK", n))),
         NEW l2 \in LogType, log' = [log EXCEPT ![w.attempt] = l2],
         l2.owner = log[w.attempt].owner, l2.start = log[w.attempt].start, l2.ddl = log[w.attempt].ddl,
         l2.true <=> log[w.attempt].true /\ n = bad[Current(w).target] /\ schema = w.plan.schema,
         UNCHANGED <<databaseVars, timeVars, gen, closed>>, view' = None
  PROVE  CoreInv'
<1>1. PICK l : l = log[w.attempt]
  OBVIOUS
<1>2. PICK r : r = Current(w)
  OBVIOUS
<1>3. PICK good \in BOOLEAN : good = (n = bad[r.target] /\ schema = w.plan.schema)
  OBVIOUS
<1>5. /\ w \in WorkType /\ l \in LogType /\ Requirements(w.plan) \in Seq(RequirementType)
      /\ ProgressOK(w) /\ Truthful(w, l) /\ ddl \in Nat /\ l.ddl \in Nat /\ l.ddl <= ddl
      /\ schema \in [Scopes -> Definitions] /\ w.plan.schema \in [Scopes -> Definitions]
      /\ w.obs \in Seq(Observations)
  BY <1>1, CollectionFacts
<1>6. w.at = "check" /\ Checking(w) /\ r.status = "pending"
  BY <1>2 DEF Counting
<1>7. r = Requirements(w.plan)[w.i] /\ r.target \in Tables /\ r.reference \in Tables
  BY <1>2, <1>5, <1>6, CurrentOK
<1>8. l2.ddl = l.ddl /\ (l2.true <=> l.true /\ good)
  BY <1>1, <1>2, <1>3
<1>10. /\ n \in Nat
       /\ n # bad[r.target] => \E m \in 1..Len(w.obs) : w.obs[m] # inspectTable(Tab(r, m))
  BY <1>2, <1>5, WrongCount DEF CoreInv
<1>11. PICK result : result = Result(w, "satisfied", "PREFLIGHT_OK", n)
  OBVIOUS
<1>12. result \in Results /\ result.targets = w.obs
  <2>1. "satisfied" \in Verdicts /\ "PREFLIGHT_OK" \in Codes /\ n \in Nat \cup {None}
    BY <1>10 DEF Verdicts, Codes
  <2> QED BY <1>5, <1>11, <2>1, ResultOK
<1>13. PICK w2 : w2 = NextRequirement(w, result)
  OBVIOUS
<1>14. /\ w2 \in WorkType /\ w2.at = "check" /\ w2.plan = w.plan /\ w2.read = w.read
       /\ w2.attempt = w.attempt /\ w2.started = w.started
       /\ Len(w2.results) = w.i /\ w2.results[w.i] = result
       /\ ProgressOK(w2) /\ (Unmoved(w) => Unmoved(w2))
       /\ SchemaShows(w) \/ TableShows(w) => SchemaShows(w2) \/ TableShows(w2)
  BY <1>5, <1>6, <1>12, <1>13, NextRequirementOK, SMTT(30)
<1>15. ASSUME schema # w.plan.schema PROVE SchemaShows(w2) /\ ~Unmoved(w)
  <2>1. PICK j \in Scopes : schema[j] # w.plan.schema[j]
    BY <1>5, <1>15
  <2>2. w2.read = <<>> /\ Len(w2.read) = 0 /\ j \in Nat \ {0}
    BY <1>5, <1>6, <1>14, <2>1, ScopesAssumption, FS_CardinalityType, SMTT(60) DEF ProgressOK
  <2>3. SchemaShows(w2)
    BY <2>1, <2>2, <1>14 DEF SchemaShows
  <2> QED BY <2>3, <1>6, <1>15 DEF Unmoved
<1>16. ASSUME n # bad[r.target] PROVE TableShows(w2) /\ ~Unmoved(w)
  <2>1. PICK m \in 1..Len(w.obs) : w.obs[m] # inspectTable(Tab(r, m))
    BY <1>10, <1>16
  <2>2. w.i \in 1..Len(w2.results) /\ w2.results[w.i].targets = w.obs
    BY <1>5, <1>12, <1>14, SMTT(60) DEF WorkType
  <2>3. TableShows(w2)
    BY <2>1, <2>2, <1>6, <1>7, <1>14, ZenonT(60) DEF TableShows
  <2>4. ~Unmoved(w)
    BY <2>1, <1>2, <1>6 DEF Unmoved
  <2> QED BY <2>3, <2>4
<1>17. Truthful(w2, l2)
  <2>1. ddl = l2.ddl => Unmoved(w2)
    BY <1>5, <1>8, <1>14 DEF Truthful
  <2>2. ASSUME ~l2.true, ddl <= l2.ddl + 1
        PROVE  ddl = l2.ddl + 1 /\ (SchemaShows(w2) \/ TableShows(w2))
    <3>1. CASE ~l.true
      BY <3>1, <2>2, <1>5, <1>8, <1>14 DEF Truthful
    <3>2. CASE ~good
      <4>1. ~Unmoved(w) /\ (SchemaShows(w2) \/ TableShows(w2))
        BY <3>2, <1>3, <1>15, <1>16
      <4>2. ddl # l.ddl
        BY <4>1, <1>5 DEF Truthful
      <4> QED BY <4>1, <4>2, <2>2, <1>5, <1>8
    <3> QED BY <3>1, <3>2, <2>2, <1>8
  <2> QED BY <2>1, <2>2, <1>14 DEF Truthful
<1>18. work' = [work EXCEPT ![c] = w2] /\ UNCHANGED <<databaseVars, timeVars, gen, closed, docs>>
  BY <1>11, <1>13 DEF Goto
<1> QED BY <1>14, <1>17, <1>18, WorkStep

LEMMA CheckStep ==
  ASSUME CoreInv, NEW c \in Collectors, Check(c)
  PROVE  CoreInv'
<1>1. PICK w : w = work[c]
  OBVIOUS
<1>2. PICK l : l = log[w.attempt]
  OBVIOUS
<1>3. PICK r : r = Current(w)
  OBVIOUS
<1>4. PICK answer : answer = checkTarget(w.plan, r, w.obs)
  OBVIOUS
<1>5. /\ work[c] # None /\ w.at = "check" /\ ~Inspecting(w) /\ view' = None
      /\ UNCHANGED <<databaseVars, timeVars, gen, closed>>
  BY <1>1 DEF Check, collectRest
<1>6. \/ ~Checking(w) /\ Goto(c, [w EXCEPT !.at = "recheck", !.i = 1]) /\ UNCHANGED log
      \/ /\ Checking(w) /\ r.status # "pending"
         /\ Goto(c, NextRequirement(w, Result(w, preflightStatus(r.status), r.code, None)))
         /\ UNCHANGED log
      \/ /\ Checking(w) /\ r.status = "pending" /\ answer[1] # "satisfied"
         /\ Goto(c, NextRequirement(w, Result(w, answer[1], answer[2], None)))
         /\ UNCHANGED log
      \/ /\ Checking(w) /\ r.status = "pending" /\ answer[1] = "satisfied" /\ ~r.queryable
         /\ Goto(c, NextRequirement(w, Result(w, "unsupported", "PREFLIGHT_UNSUPPORTED", None)))
         /\ UNCHANGED log
      \/ /\ Counting(w)
         /\ \E n \in Counts(r) :
              /\ Goto(c, NextRequirement(w, Result(w, "satisfied", "PREFLIGHT_OK", n)))
              /\ log' = [log EXCEPT ![w.attempt].true = @ /\ n = bad[r.target] /\ schema = w.plan.schema]
  BY <1>1, <1>3, <1>4, Zenon DEF Check
<1>7. /\ w \in WorkType /\ l \in LogType /\ Requirements(w.plan) \in Seq(RequirementType)
      /\ ProgressOK(w) /\ Truthful(w, l) /\ (UNCHANGED log => log' = [log EXCEPT ![w.attempt] = l])
      /\ w.obs \in Seq(Observations) /\ w.results \in Seq(Results)
  BY <1>1, <1>2, <1>5, CollectionFacts
<1>8. CASE ~Checking(w) /\ Goto(c, [w EXCEPT !.at = "recheck", !.i = 1]) /\ UNCHANGED log
  <2>1. PICK w2 : w2 = [w EXCEPT !.at = "recheck", !.i = 1]
    OBVIOUS
  <2>2. /\ w2 \in WorkType /\ w2.read = w.read /\ w2.at = "recheck" /\ w2.plan = w.plan
        /\ w2.results = w.results /\ w2.obs = w.obs /\ w2.i = 1
        /\ w2.attempt = w.attempt /\ w2.started = w.started
    <3>1. 1 \in Nat \ {0} /\ "recheck" \in Labels
      BY DEF Labels
    <3> QED BY <1>7, <2>1, <3>1 DEF WorkType
  <2>3. w.obs = <<>> /\ w.read = <<>> /\ Len(w.results) = Len(Requirements(w.plan))
    BY <1>5, <1>7, <1>8 DEF ProgressOK, Checking
  <2>4. ProgressOK(w2)
    BY <2>2, <2>3 DEF ProgressOK
  <2>5. Truthful(w2, l)
    <3>1. Unmoved(w) => Unmoved(w2)
      BY <1>5, <2>2 DEF Unmoved
    <3>2. SchemaShows(w) => SchemaShows(w2)
      BY <2>2, SchemaStillShows
    <3>3. ASSUME TableShows(w) PROVE TableShows(w2)
      <4>1. Len(w.obs) = 0
        BY <2>3
      <4>2. PICK k \in 1..Len(w.results) :
              /\ Requirements(w.plan)[k].status = "pending"
              /\ \E m \in 1..Len(w.results[k].targets) :
                   w.results[k].targets[m] # inspectTable(Tab(Requirements(w.plan)[k], m))
        BY <3>3 DEF TableShows
      <4>3. w2.i <= k /\ k \in 1..Len(w2.results)
        BY <2>2
      <4>4. \A m \in 1..Len(w.results[k].targets) : ~(m <= Len(w2.obs))
        BY <2>2, <4>1
      <4> QED BY <2>2, <4>2, <4>3, <4>4 DEF TableShows
    <3> QED BY <1>5, <1>7, <2>2, <3>1, <3>2, <3>3 DEF Truthful
  <2>6. work' = [work EXCEPT ![c] = w2] /\ UNCHANGED <<databaseVars, timeVars, gen, closed, docs>>
    BY <1>5, <1>8, <2>1 DEF Goto
  <2> QED BY <1>1, <1>2, <1>5, <1>7, <1>8, <2>2, <2>4, <2>5, <2>6, WorkStep
<1>9. CASE /\ Checking(w) /\ r.status # "pending"
           /\ Goto(c, NextRequirement(w, Result(w, preflightStatus(r.status), r.code, None)))
           /\ UNCHANGED log
  <2>1. r \in RequirementType
    BY <1>3, <1>7, <1>9, CurrentOK
  <2>2. preflightStatus(r.status) \in Verdicts /\ r.code \in Codes
    BY <2>1 DEF RequirementType, preflightStatus, Verdicts, Codes
  <2>3. Result(w, preflightStatus(r.status), r.code, None) \in Results
    BY <1>7, <2>2, ResultOK
  <2> QED BY <1>1, <1>5, <1>9, <2>3, SkipStep
<1>10. CASE /\ Checking(w) /\ r.status = "pending" /\ answer[1] # "satisfied"
            /\ Goto(c, NextRequirement(w, Result(w, answer[1], answer[2], None)))
            /\ UNCHANGED log
  <2>1. answer # More
    BY <1>3, <1>4, <1>5, <1>10 DEF Inspecting
  <2>2. answer[1] \in Verdicts /\ answer[2] \in Codes
    BY <1>4, <1>7, <2>1, AnswerOK
  <2>3. Result(w, answer[1], answer[2], None) \in Results
    BY <1>7, <2>2, ResultOK
  <2> QED BY <1>1, <1>5, <1>10, <2>3, SkipStep
<1>11. CASE /\ Checking(w) /\ r.status = "pending" /\ answer[1] = "satisfied" /\ ~r.queryable
            /\ Goto(c, NextRequirement(w, Result(w, "unsupported", "PREFLIGHT_UNSUPPORTED", None)))
            /\ UNCHANGED log
  <2>1. Result(w, "unsupported", "PREFLIGHT_UNSUPPORTED", None) \in Results
    BY <1>7, ResultOK DEF Verdicts, Codes, RequirementCodes
  <2> QED BY <1>1, <1>5, <1>11, <2>1, SkipStep
<1>12. CASE /\ Counting(w)
            /\ \E n \in Counts(r) :
                 /\ Goto(c, NextRequirement(w, Result(w, "satisfied", "PREFLIGHT_OK", n)))
                 /\ log' = [log EXCEPT ![w.attempt].true = @ /\ n = bad[r.target] /\ schema = w.plan.schema]
  <2>1. PICK n \in Counts(r) :
          /\ Goto(c, NextRequirement(w, Result(w, "satisfied", "PREFLIGHT_OK", n)))
          /\ log' = [log EXCEPT ![w.attempt].true = @ /\ n = bad[r.target] /\ schema = w.plan.schema]
    BY <1>12
  <2>2. PICK good \in BOOLEAN : good = (n = bad[r.target] /\ schema = w.plan.schema)
    OBVIOUS
  <2>3. PICK l2 : l2 = [l EXCEPT !.true = @ /\ good]
    OBVIOUS
  <2>4. /\ l2 \in LogType /\ l2.owner = l.owner /\ l2.start = l.start /\ l2.ddl = l.ddl
        /\ l2.true <=> l.true /\ good
    BY <1>7, <2>3 DEF LogType
  <2>5. log' = [log EXCEPT ![w.attempt] = l2]
    BY <1>2, <2>1, <2>2, <2>3
  <2>6. /\ l2.owner = log[w.attempt].owner /\ l2.start = log[w.attempt].start /\ l2.ddl = log[w.attempt].ddl
        /\ l2.true <=> log[w.attempt].true /\ n = bad[Current(w).target] /\ schema = w.plan.schema
    BY <1>2, <1>3, <2>2, <2>4
  <2>7. n \in Counts(Current(w)) /\ Counting(w)
        /\ Goto(c, NextRequirement(w, Result(w, "satisfied", "PREFLIGHT_OK", n)))
    BY <1>3, <1>12, <2>1
  <2> QED BY <1>1, <1>5, <2>4, <2>5, <2>6, <2>7, CountStep
<1> QED BY <1>6, <1>8, <1>9, <1>10, <1>11, <1>12, SMTT(30)

\* The second look at the tables finds what the counts were deceived about.
LEMMA RecheckStep ==
  ASSUME CoreInv, NEW c \in Collectors, Recheck(c)
  PROVE  CoreInv'
<1>1. PICK w : w = work[c]
  OBVIOUS
<1>2. PICK l : l = log[w.attempt]
  OBVIOUS
<1>3. /\ work[c] # None /\ w.at = "recheck" /\ ~Inspecting(w) /\ view' = None
      /\ UNCHANGED <<databaseVars, timeVars, gen, closed>> /\ UNCHANGED log
      /\ \/ ~Checking(w) /\ Goto(c, [w EXCEPT !.at = "after"])
         \/ Finish(c, "PREFLIGHT_SCHEMA_CHANGED", w.results)
         \/ /\ Checking(w) /\ ~(Current(w).status = "pending" /\ w.obs # w.results[w.i].targets)
            /\ Goto(c, [w EXCEPT !.i = @ + 1, !.obs = <<>>])
  BY <1>1, Zenon DEF Recheck, collectRest
<1>4. /\ w \in WorkType /\ l \in LogType /\ w.results \in Seq(Results)
      /\ ProgressOK(w) /\ Truthful(w, l) /\ log' = [log EXCEPT ![w.attempt] = l]
      /\ w.i \in Nat \ {0} /\ Requirements(w.plan) \in Seq(RequirementType)
  BY <1>1, <1>2, <1>3, CollectionFacts, SMTT(60)
<1>5. CASE ~Checking(w) /\ Goto(c, [w EXCEPT !.at = "after"])
  <2>1. PICK w2 : w2 = [w EXCEPT !.at = "after"]
    OBVIOUS
  <2>2. /\ w2 \in WorkType /\ w2.read = w.read /\ w2.at = "after" /\ w2.plan = w.plan
        /\ w2.results = w.results /\ w2.obs = w.obs /\ w2.i = w.i
        /\ w2.attempt = w.attempt /\ w2.started = w.started
    <3>1. "after" \in Labels
      BY DEF Labels
    <3> QED BY <1>4, <2>1, <3>1 DEF WorkType
  <2>3. w.obs = <<>> /\ Len(w.results) = Len(Requirements(w.plan))
    BY <1>3, <1>4, <1>5 DEF ProgressOK
  <2>4. ProgressOK(w2)
    BY <2>2, <2>3 DEF ProgressOK
  <2>5. Truthful(w2, l)
    <3>1. Unmoved(w) => Unmoved(w2)
      BY <1>3, <2>2 DEF Unmoved
    <3>2. SchemaShows(w) => SchemaShows(w2)
      BY <2>2, SchemaStillShows
    <3>3. ~TableShows(w)
      <4>1. \A k \in 1..Len(w.results) : ~(w.i <= k)
        BY <1>4, <1>5, <2>3 DEF Checking
      <4> QED BY <1>3, <4>1 DEF TableShows
    <3> QED BY <1>3, <1>4, <2>2, <3>1, <3>2, <3>3 DEF Truthful
  <2>6. work' = [work EXCEPT ![c] = w2] /\ UNCHANGED <<databaseVars, timeVars, gen, closed, docs>>
    BY <1>3, <1>5, <2>1 DEF Goto
  <2> QED BY <1>1, <1>2, <1>3, <1>4, <2>2, <2>4, <2>5, <2>6, WorkStep
<1>6. CASE Finish(c, "PREFLIGHT_SCHEMA_CHANGED", w.results)
  BY <1>1, <1>3, <1>4, <1>6, FinishStep, SMTT(30)
<1>7. CASE /\ Checking(w) /\ ~(Current(w).status = "pending" /\ w.obs # w.results[w.i].targets)
           /\ Goto(c, [w EXCEPT !.i = @ + 1, !.obs = <<>>])
  <2>1. PICK w2 : w2 = [w EXCEPT !.i = @ + 1, !.obs = <<>>]
    OBVIOUS
  <2>2. /\ w2 \in WorkType /\ w2.read = w.read /\ w2.at = "recheck" /\ w2.plan = w.plan
        /\ w2.results = w.results /\ w2.obs = <<>> /\ w2.i = w.i + 1
        /\ w2.attempt = w.attempt /\ w2.started = w.started
    <3>1. <<>> \in Seq(Observations) /\ w.i + 1 \in Nat \ {0}
      BY <1>4
    <3> QED BY <1>3, <1>4, <2>1, <3>1 DEF WorkType
  <2>3. ProgressOK(w2)
    BY <1>3, <1>4, <2>2 DEF ProgressOK
  <2>4. Truthful(w2, l)
    <3>1. Unmoved(w) => Unmoved(w2)
      BY <1>3, <2>2 DEF Unmoved
    <3>2. SchemaShows(w) => SchemaShows(w2)
      BY <2>2, SchemaStillShows
    <3>3. ASSUME TableShows(w) PROVE TableShows(w2)
      <4>1. PICK k \in 1..Len(w.results) :
              /\ Requirements(w.plan)[k].status = "pending" /\ w.i <= k
              /\ \E m \in 1..Len(w.results[k].targets) :
                   /\ w.results[k].targets[m] # inspectTable(Tab(Requirements(w.plan)[k], m))
                   /\ w.i = k /\ m <= Len(w.obs) => w.obs[m] # w.results[k].targets[m]
        BY <1>3, <3>3 DEF TableShows
      <4>2. PICK m \in 1..Len(w.results[k].targets) :
                   /\ w.results[k].targets[m] # inspectTable(Tab(Requirements(w.plan)[k], m))
                   /\ w.i = k /\ m <= Len(w.obs) => w.obs[m] # w.results[k].targets[m]
        BY <4>1
      <4>3. w.i # k
        <5>1. w.i = k => w.obs = w.results[k].targets
          BY <1>7, <4>1 DEF Current
        <5> QED BY <5>1, <4>2
      <4>4. w2.i <= k /\ k \in 1..Len(w2.results)
        BY <1>4, <2>2, <4>1, <4>3
      <4>5. ~(w2.i = k /\ m <= Len(w2.obs))
        BY <2>2
      <4> QED BY <2>2, <4>1, <4>2, <4>4, <4>5 DEF TableShows
    <3> QED BY <1>3, <1>4, <2>2, <3>1, <3>2, <3>3 DEF Truthful
  <2>5. work' = [work EXCEPT ![c] = w2] /\ UNCHANGED <<databaseVars, timeVars, gen, closed, docs>>
    BY <1>3, <1>7, <2>1 DEF Goto
  <2> QED BY <1>1, <1>2, <1>3, <1>4, <2>2, <2>3, <2>4, <2>5, WorkStep
<1> QED BY <1>3, <1>5, <1>6, <1>7

LEMMA CollectFailStep ==
  ASSUME CoreInv, NEW c \in Collectors, CollectFail(c)
  PROVE  CoreInv'
<1>1. PICK w : w = work[c]
  OBVIOUS
<1>2. PICK results :
        results = IF w.at = "check"
                    THEN Append(w.results, Result(w, preflightStatus(Current(w).status), Current(w).code, None))
                    ELSE w.results
  OBVIOUS
<1>3. /\ work[c] # None /\ Finish(c, "PREFLIGHT_FAILED", results) /\ view' = None
      /\ UNCHANGED <<databaseVars, timeVars, gen, closed, log>>
      /\ w.at \in {"before", "after"} \/ Checking(w)
  BY <1>1, <1>2 DEF CollectFail, collectRest, Inspecting, Counting
<1>4. /\ w \in WorkType /\ w.results \in Seq(Results) /\ Requirements(w.plan) \in Seq(RequirementType)
  BY <1>1, <1>3, CollectionFacts
<1>5. results \in Seq(Results)
  <2>1. CASE w.at = "check"
    <3>1. Current(w) \in RequirementType
      BY <1>3, <1>4, <2>1, CurrentOK
    <3>2. preflightStatus(Current(w).status) \in Verdicts /\ Current(w).code \in Codes
      BY <3>1 DEF RequirementType, preflightStatus, Verdicts, Codes
    <3>3. Result(w, preflightStatus(Current(w).status), Current(w).code, None) \in Results
      BY <1>4, <3>2, ResultOK
    <3> QED BY <1>2, <1>4, <2>1, <3>3
  <2>2. CASE w.at # "check"
    BY <1>2, <1>4, <2>2
  <2> QED BY <2>1, <2>2
<1> QED BY <1>1, <1>3, <1>5, FinishStep

LEMMA CollectStepKeeps ==
  ASSUME CoreInv, NEW c \in Collectors, CollectStep(c)
  PROVE  CoreInv' /\ view' = None
<1>1. CoreInv'
  BY ObserveSchemaStep, InspectStep, CheckStep, RecheckStep, CollectFailStep, SMTT(60) DEF CollectStep
<1>2. view' = None
  BY DEF CollectStep, ObserveSchema, Inspect, Check, Recheck, CollectFail
<1> QED BY <1>1, <1>2

(***************************************************************************)
(* Evaluate.                                                               *)
(***************************************************************************)
\* A check that is not satisfied is not outweighed by those that are.
LEMMA WorstOK ==
  ASSUME NEW n \in Nat, NEW checks, DOMAIN checks = 1..n, Worst(checks).status = "satisfied"
  PROVE  \A i \in 1..n : checks[i].status = "satisfied"
<1> DEFINE rank(i) == verdictRank(checks[i].status)
<1>1. \A i : rank(i) \in 0..3 /\ (rank(i) = 0 => checks[i].status = "satisfied")
  BY DEF verdictRank
<1>2. \A i : checks[i].status = "satisfied" => rank(i) = 0
  BY DEF verdictRank
<1> HIDE DEF rank
<1>3. SUFFICES ASSUME NEW bad0 \in 1..n, checks[bad0].status # "satisfied" PROVE FALSE
  OBVIOUS
<1> DEFINE Best(i) == /\ \A j \in 1..n : rank(j) <= rank(i)
                      /\ \A j \in 1..i-1 : rank(j) < rank(i)
<1>4. \E i \in 1..n : Best(i)
  <2> DEFINE R == {3 - rank(i) : i \in 1..n}
  <2>1. R \in SUBSET Nat /\ R # {}
    BY <1>1, <1>3
  <2>2. PICK x \in R : \A y \in R : x <= y
    <3> HIDE DEF R
    <3> QED BY <2>1, Least
  <2>3. \A j \in 1..n : x <= 3 - rank(j)
    BY <2>2
  <2> DEFINE T == {i \in 1..n : 3 - rank(i) = x}
  <2>4. T \in SUBSET Nat /\ T # {}
    BY <2>2
  <2>5. PICK i \in T : \A k \in T : i <= k
    <3> HIDE DEF T
    <3> QED BY <2>4, Least
  <2>6. \A j \in 1..n : rank(j) <= rank(i)
    BY <2>3, <2>5, <1>1
  <2>7. ASSUME NEW j \in 1..i-1 PROVE rank(j) < rank(i)
    <3>1. j \in 1..n /\ ~(i <= j)
      BY <2>5
    <3>2. 3 - rank(j) # x
      BY <3>1, <2>5
    <3> QED BY <3>1, <3>2, <2>5, <2>6, <1>1
  <2> QED BY <2>5, <2>6, <2>7
<1>5. PICK b : b = CHOOSE i \in 1..n : Best(i)
  OBVIOUS
<1>6. b \in 1..n /\ rank(bad0) <= rank(b)
  BY <1>3, <1>4, <1>5
<1>7. checks[b].status # "satisfied"
  BY <1>1, <1>2, <1>3, <1>6
<1>8. Worst(checks) = checks[b]
  BY <1>3, <1>5 DEF Worst, rank
<1> QED BY <1>7, <1>8

\* A satisfied check is of a requirement that was counted, and the count is zero.
LEMMA SatisfiedCheck ==
  ASSUME NEW q \in RequirementType, NEW r \in Results, CheckView(q, r).status = "satisfied"
  PROVE  q.status = "pending" /\ r.count = 0
<1>1. q.status \in {"pending", "unknown", "unsupported"}
  BY DEF RequirementType
<1>2. q.status = "pending"
  BY <1>1 DEF CheckView, preflightStatus
<1>3. r.count \in Nat \cup {None} /\ r.status \in Verdicts
  BY DEF Results
<1>4. r.completed /\ r.count # None /\ r.status = "satisfied" /\ r.code = "PREFLIGHT_OK" /\ ~(r.count > 0)
  BY <1>2, <1>3 DEF CheckView, preflightStatus, Verdicts
<1> QED BY <1>2, <1>3, <1>4

\* What a satisfied answer went through.
LEMMA SatisfiedAnswer ==
  ASSUME NEW d, NEW owner, NEW maxAge, evaluatePreflight(d, owner, maxAge).status = "satisfied"
  PROVE  /\ ~(maxAge > PreflightMaxAge)
         /\ ValidSource(d) /\ d.col # None /\ d.col.completed
         /\ ~(Clock - d.col.started > maxAge) /\ Authentic(d, owner)
         /\ Len(d.col.results) = Len(Requirements(d.plan))
         /\ Worst([i \in DOMAIN d.col.results |-> CheckView(Requirements(d.plan)[i], d.col.results[i])]).status
              = "satisfied"
<1>1. \A code : [status |-> "unknown", code |-> code].status # "satisfied"
  OBVIOUS
<1> QED BY <1>1, Zenon DEF evaluatePreflight

\* The verdict on the evidence of a collector that made it last and is open.
LEMMA EvaluateStep ==
  ASSUME CoreInv, NEW owner \in Collectors \cup {None}, NEW d \in DOMAIN docs, NEW maxAge \in Int,
         Evaluate(owner, d, maxAge)
  PROVE  SatisfiedIsCurrent' /\ SatisfiedIsFresh' /\ SatisfiedIsTrue' /\ UnobservedBlocks'
<1>1. PICK doc : doc = docs[d]
  OBVIOUS
<1>2. PICK answer : answer = evaluatePreflight(doc, owner, maxAge)
  OBVIOUS
<1>3. /\ view' = [doc |-> d, owner |-> owner, answer |-> answer]
      /\ UNCHANGED <<env, schema, shape, bad, ddl, dml, now, skew, gen, closed, work, docs, log>>
  BY <1>1, <1>2 DEF Evaluate, databaseVars, timeVars, collectorVars
<1>4. view'.doc = d /\ view'.owner = owner /\ view'.answer = answer /\ docs'[d] = doc
  BY <1>1, <1>3
<1>5. SUFFICES ASSUME answer.status = "satisfied"
               PROVE  SatisfiedIsCurrent' /\ SatisfiedIsFresh' /\ SatisfiedIsTrue' /\ UnobservedBlocks'
  BY <1>4 DEF SatisfiedIsCurrent, SatisfiedIsFresh, SatisfiedIsTrue, UnobservedBlocks, Satisfied
<1>6. /\ ~(maxAge > PreflightMaxAge)
      /\ ValidSource(doc) /\ doc.col # None /\ doc.col.completed
      /\ ~(Clock - doc.col.started > maxAge) /\ Authentic(doc, owner)
      /\ Len(doc.col.results) = Len(Requirements(doc.plan))
      /\ Worst([i \in DOMAIN doc.col.results |-> CheckView(Requirements(doc.plan)[i], doc.col.results[i])]).status
           = "satisfied"
  BY <1>2, <1>5, SatisfiedAnswer
<1>7. PICK r : r = doc.receipt
  OBVIOUS
<1>8. PICK a : a = r.attempt
  OBVIOUS
<1>9. /\ owner # None /\ ~closed[owner] /\ r # None /\ r.owner = owner /\ r.gen = gen[owner]
      /\ r.digest = doc.col
  BY <1>6, <1>7 DEF Authentic
<1>10. ReceiptOK(r)
  BY <1>1, <1>7, <1>9 DEF CoreInv, DocsOK
<1>11. /\ Own(owner, a) /\ Newest(owner, a) /\ doc.col.started \in Nat /\ Started(a, doc.col.started)
       /\ doc.col.results \in Seq(Results)
       /\ ddl <= log[a].ddl + 1 => log[a].true
  BY <1>6, <1>8, <1>9, <1>10 DEF ReceiptOK
<1>12. doc.plan \in PlanType
  BY <1>1, SettingFacts DEF CoreInv, TypeOK
<1>13. Requirements(doc.plan) \in Seq(RequirementType)
       /\ \A i \in 1..Len(doc.plan.steps) : Observed(doc.plan, i) \/ Blocks(Requirements(doc.plan))
  BY <1>12, RequirementsOK
<1>14. PICK reqs : reqs = Requirements(doc.plan)
  OBVIOUS
<1>15. PICK results : results = doc.col.results
  OBVIOUS
<1>16. Len(results) \in Nat /\ DOMAIN results = 1..Len(results) /\ Len(results) = Len(reqs)
       /\ DOMAIN reqs = 1..Len(reqs)
  BY <1>6, <1>11, <1>13, <1>14, <1>15
<1>17. \A i \in 1..Len(results) : reqs[i].status = "pending" /\ results[i].count = 0
  <2>1. PICK checks : checks = [i \in DOMAIN results |-> CheckView(reqs[i], results[i])]
    OBVIOUS
  <2>2. DOMAIN checks = 1..Len(results) /\ Worst(checks).status = "satisfied"
    BY <1>6, <1>14, <1>15, <1>16, <2>1
  <2>3. \A i \in 1..Len(results) : checks[i].status = "satisfied"
    BY <1>16, <2>2, WorstOK
  <2>4. ASSUME NEW i \in 1..Len(results) PROVE reqs[i].status = "pending" /\ results[i].count = 0
    <3>1. reqs[i] \in RequirementType /\ results[i] \in Results
      BY <1>11, <1>13, <1>14, <1>15, <1>16
    <3>2. CheckView(reqs[i], results[i]).status = "satisfied"
      BY <2>1, <2>3, <1>16
    <3> QED BY <3>1, <3>2, SatisfiedCheck
  <2> QED BY <2>4
<1>18. SatisfiedIsCurrent'
  <2>1. a \in {b \in DOMAIN log : log[b].owner = owner}
    BY <1>11 DEF Own
  <2>2. \A b \in {e \in DOMAIN log : log[e].owner = owner} : b <= a
    BY <1>11 DEF Newest
  <2> QED BY <1>3, <1>4, <1>6, <1>7, <1>8, <1>9, <2>1, <2>2 DEF SatisfiedIsCurrent
<1>19. SatisfiedIsFresh'
  <2>1. now \in Nat /\ skew \in Nat /\ Setting.maxSkew \in Nat
    BY SettingFacts DEF CoreInv, TypeOK
  <2>2. log[a].start \in Nat
    BY <1>11, LogFacts DEF CoreInv, Own, LogType
  <2>3. now - log[a].start <= PreflightMaxAge + Setting.maxSkew
    BY <1>6, <1>11, <2>1, <2>2, PreflightAssumption, SMTT(120) DEF Clock, Started
  <2>4. now' - log'[a].start <= PreflightMaxAge + Setting.maxSkew'
    BY <1>3, <2>3 DEF Setting
  <2> QED BY <1>4, <1>7, <1>8, <2>4 DEF SatisfiedIsFresh
<1>20. SatisfiedIsTrue'
  <2>1. \A i \in DOMAIN reqs : results[i].count = 0
    BY <1>16, <1>17
  <2>2. ddl' <= log'[a].ddl + 1 => log'[a].true
    BY <1>3, <1>11
  <2> QED BY <1>4, <1>7, <1>8, <1>14, <1>15, <2>1, <2>2 DEF SatisfiedIsTrue
<1>21. UnobservedBlocks'
  <2>1. PICK p : p = doc.plan
    OBVIOUS
  <2>2. ~Blocks(reqs)
    BY <1>16, <1>17 DEF Blocks, Has
  <2>3. p.steps \in Seq(StepType) /\ DOMAIN p.steps = 1..Len(p.steps) /\ Len(p.steps) >= 1
    <3>1. p.steps \in Seq(StepType)
      BY <1>12, <2>1 DEF PlanType
    <3>2. Len(p.steps) \in 1..64
      BY <1>6, <2>1, Zenon DEF ValidSource, ValidPlan
    <3>3. \A n \in 1..64 : n >= 1
      OBVIOUS
    <3>4. DOMAIN p.steps = 1..Len(p.steps)
      BY <3>1
    <3> QED BY <3>1, <3>2, <3>3, <3>4, Zenon
  <2>4. \A i \in DOMAIN p.steps : Observed(p, i)
    BY <1>13, <1>14, <2>1, <2>2, <2>3
  <2>5. ~p.incomplete /\ ~p.opaque
    BY <2>3, <2>4 DEF Observed
  <2>6. docs'[view'.doc].plan = p
    BY <1>4, <2>1
  <2> QED BY <2>4, <2>5, <2>6 DEF UnobservedBlocks, Observed
<1> QED BY <1>18, <1>19, <1>20, <1>21

(***************************************************************************)
(* The theorems.                                                           *)
(***************************************************************************)
LEMMA EvidenceStep ==
  ASSUME EvidenceInv, [Next]_vars
  PROVE  EvidenceInv'
<1>1. CoreInv
  BY DEF EvidenceInv
<1>2. Setting.collectors \subseteq Collectors /\ Setting.ages \subseteq Int
  BY <1>1, SettingFacts DEF CoreInv
<1>3. ASSUME CoreInv', view' = None PROVE EvidenceInv'
  BY <1>3, NoVerdict DEF EvidenceInv
<1>4. ASSUME NEW c \in Setting.collectors, CollectStep(c) PROVE EvidenceInv'
  BY <1>1, <1>2, <1>3, <1>4, CollectStepKeeps
<1>5. ASSUME NEW c \in Setting.collectors, Close(c) PROVE EvidenceInv'
  <2>1. view' = None
    BY <1>5 DEF Close
  <2> QED BY <1>1, <1>2, <1>3, <1>5, <2>1, CloseStep
<1>6. ASSUME NEW c \in Setting.collectors, NEW d \in DOMAIN docs, CollectStart(c, d) PROVE EvidenceInv'
  <2>1. view' = None
    BY <1>6 DEF CollectStart
  <2> QED BY <1>1, <1>2, <1>3, <1>6, <2>1, StartStep
<1>7. ASSUME NEW c \in Setting.collectors \cup {None}, NEW d \in DOMAIN docs, NEW a \in Setting.ages,
             Evaluate(c, d, a)
      PROVE  EvidenceInv'
  <2>1. c \in Collectors \cup {None} /\ a \in Int
    BY <1>2
  <2>2. CoreInv'
    BY <1>1, <1>7, EvaluateKeeps
  <2>3. SatisfiedIsCurrent' /\ SatisfiedIsFresh' /\ SatisfiedIsTrue' /\ UnobservedBlocks'
    BY <1>1, <1>7, <2>1, EvaluateStep
  <2> QED BY <2>2, <2>3 DEF EvidenceInv
<1>8. ASSUME NEW d \in DOMAIN docs, Edit(d) PROVE EvidenceInv'
  <2>1. view' = None
    BY <1>8 DEF Edit
  <2> QED BY <1>1, <1>3, <1>8, <2>1, EditStep
<1>9. ASSUME Tick PROVE EvidenceInv'
  <2>1. view' = None
    BY <1>9 DEF Tick
  <2> QED BY <1>1, <1>3, <1>9, <2>1, TickStep
<1>10. ASSUME AdjustClock PROVE EvidenceInv'
  <2>1. view' = None
    BY <1>10 DEF AdjustClock
  <2> QED BY <1>1, <1>3, <1>10, <2>1, AdjustClockStep
<1>11. ASSUME NEW i \in Scopes, AlterSchema(i) PROVE EvidenceInv'
  <2>1. view' = None
    BY <1>11 DEF AlterSchema
  <2> QED BY <1>1, <1>3, <1>11, <2>1, AlterSchemaStep
<1>12. ASSUME NEW t \in Tables, AlterTable(t) PROVE EvidenceInv'
  <2>1. view' = None
    BY <1>12 DEF AlterTable
  <2> QED BY <1>1, <1>3, <1>12, <2>1, AlterTableStep
<1>13. ASSUME NEW t \in Tables, WriteRows(t) PROVE EvidenceInv'
  <2>1. view' = None
    BY <1>13 DEF WriteRows
  <2> QED BY <1>1, <1>3, <1>13, <2>1, WriteRowsStep
<1>14. ASSUME UNCHANGED vars PROVE EvidenceInv'
  <2>1. CoreInv'
    BY <1>1, <1>14, StutterStep
  <2>2. view' = view /\ docs' = docs /\ log' = log /\ closed' = closed
    BY <1>14, Zenon DEF vars, collectorVars
  <2>3. ddl' = ddl /\ now' = now /\ env' = env
    BY <1>14, Zenon DEF vars, databaseVars, timeVars
  <2>4. SatisfiedIsCurrent'
    BY <2>2, Zenon DEF EvidenceInv, SatisfiedIsCurrent, Satisfied
  <2>5. SatisfiedIsFresh'
    BY <2>2, <2>3, Zenon DEF EvidenceInv, SatisfiedIsFresh, Satisfied, Setting
  <2>6. SatisfiedIsTrue'
    BY <2>2, <2>3, ZenonT(60) DEF EvidenceInv, SatisfiedIsTrue, Satisfied
  <2>7. UnobservedBlocks'
    BY <2>2, ZenonT(60) DEF EvidenceInv, UnobservedBlocks, Satisfied
  <2> QED BY <2>1, <2>4, <2>5, <2>6, <2>7, Zenon DEF EvidenceInv
<1> QED BY <1>4, <1>5, <1>6, <1>7, <1>8, <1>9, <1>10, <1>11, <1>12, <1>13, <1>14 DEF Next

\* A receipt of its collector's current generation is of the collector's newest
\* attempt, and a completed collection under at most one foreign change of
\* schema was never deceived: Collect supersedes before it reads, looks a second
\* time at the tables of every count, and reads the schema last.
THEOREM EvidenceInvariant == Spec => []EvidenceInv
<1>1. Init => EvidenceInv
  BY CoreInit DEF EvidenceInv, SatisfiedIsCurrent, SatisfiedIsFresh, SatisfiedIsTrue, UnobservedBlocks, Satisfied
<1>2. EvidenceInv /\ [Next]_vars => EvidenceInv'
  BY EvidenceStep
<1> QED BY <1>1, <1>2, PTL DEF Spec

\* What evaluatePreflight answers "satisfied" to is the collector's last
\* attempt, unedited, no older than PreflightMaxAge and the clock's error, and
\* complete and zero in every count.
THEOREM SatisfiedAlwaysHolds == Spec => []SatisfiedHolds
<1>1. EvidenceInv => SatisfiedHolds
  BY DEF EvidenceInv, CoreInv, SatisfiedHolds
<1> QED BY <1>1, EvidenceInvariant, PTL

\* A plan with a step that buildPreflight cannot have observed is never satisfied,
\* however many steps it has and whatever is counted for the others.
THEOREM UnobservedAlwaysBlocks == Spec => []UnobservedBlocks
<1>1. EvidenceInv => UnobservedBlocks
  BY DEF EvidenceInv
<1> QED BY <1>1, EvidenceInvariant, PTL
=============================================================================
