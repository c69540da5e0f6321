----------------------------- MODULE ReviewProofs -----------------------------
(***************************************************************************)
(* Proofs about what is reviewed and what then runs.  ReviewSession: for   *)
(* any source, any tests and any budget.  PlanBinding: for any set of      *)
(* attempts, handles and materials, and any bound of the clock.            *)
(***************************************************************************)
EXTENDS ReviewSession, PlanBinding, FiniteSetTheorems, SequenceTheorems, TLAPS

-----------------------------------------------------------------------------
(* ReviewSession                                                           *)

Calls == Seq([m : Methods, v : Nat])
Configs == STRING \cup {"c"}
Environments == STRING \cup {"", "static"}
FormType ==
  [calls : Calls, config : Configs, known : BOOLEAN, env : Environments, opaque : BOOLEAN]
ChainCalls == Seq([m : Methods, v : Nat, known : BOOLEAN])
Chain == [calls : ChainCalls, name : STRING, partial : BOOLEAN]

Token(t) ==
  t = [closed |-> t.closed, done |-> t.done, late |-> t.late, receipts |-> t.receipts, bytes |-> t.bytes]

(***************************************************************************)
(* The budget.                                                             *)
(***************************************************************************)
\* The goroutines that hold a ticket: the first counter has been added to.
Busy == {p \in Samplers : asking[p] # {}}

\* Every receipt handed out and every goroutine that may still get one has its
\* own ticket, and the tickets that were let through are within the budget.
BudgetInv ==
  /\ Token(token) /\ token.receipts \in Nat /\ token.bytes \in Nat
  /\ issued \in [receipts : Nat, bytes : Nat]
  /\ asking \in [Samplers -> SUBSET TestQueries]
  /\ forms \in [TestQueries -> FormType]
  /\ issued.receipts + Cardinality(Busy) <= token.receipts
  /\ issued.receipts + Cardinality(Busy) <= MaxReceipts
  /\ issued.bytes <= token.bytes
  /\ issued.bytes <= MaxBytes

\* What the counters of a token are after a sample begins and after it ends.
LEMMA CountedFields ==
  ASSUME NEW t, Token(t), t.receipts \in Nat, t.bytes \in Nat, NEW form, Len(form.calls) \in Nat
  PROVE  /\ Token(Counted(t, "ask", form))
         /\ Counted(t, "ask", form).receipts = t.receipts + 1
         /\ Counted(t, "ask", form).bytes = t.bytes
         /\ Token(Counted(t, "answer", form))
         /\ Counted(t, "answer", form).receipts = t.receipts
         /\ Counted(t, "answer", form).bytes = t.bytes + Size(form)
         /\ Size(form) \in Nat
<1>1. Size(form) \in Nat
  BY DEF Size
<1>2. /\ Count("ask", form).receipts = 1 /\ Count("ask", form).bytes = 0
      /\ Count("answer", form).receipts = 0 /\ Count("answer", form).bytes = Size(form)
  BY DEF Count
<1>3. ASSUME NEW stage, NEW c, c = Counted(t, stage, form)
      PROVE  /\ Token(c)
             /\ c.receipts = t.receipts + Count(stage, form).receipts
             /\ c.bytes = t.bytes + Count(stage, form).bytes
  <2> DEFINE r == t.receipts + Count(stage, form).receipts
             b == t.bytes + Count(stage, form).bytes
  <2>1. c = [t EXCEPT !.receipts = r, !.bytes = b]
    BY <1>3 DEF Counted, Token
  <2> HIDE DEF r, b
  <2>2. c = [closed |-> t.closed, done |-> t.done, late |-> t.late, receipts |-> r, bytes |-> b]
    BY <2>1 DEF Token
  <2>3. Token(c) /\ c.receipts = r /\ c.bytes = b
    BY <2>2 DEF Token
  <2> QED BY <2>3 DEF r, b
<1> QED BY <1>1, <1>2, <1>3

\* Issuing adds one receipt and its bytes.
LEMMA IssueFields ==
  ASSUME issued \in [receipts : Nat, bytes : Nat], NEW form, Size(form) \in Nat, Issue(form)
  PROVE  /\ issued' \in [receipts : Nat, bytes : Nat]
         /\ issued'.receipts = issued.receipts + 1 /\ issued'.bytes = issued.bytes + Size(form)
  BY DEF Issue

\* A goroutine that begins is one more, and one that ends one less.
LEMMA BusyCounts ==
  ASSUME asking \in [Samplers -> SUBSET TestQueries], NEW p \in Samplers, NEW S \in SUBSET TestQueries,
         asking' = [asking EXCEPT ![p] = S]
  PROVE  /\ IsFiniteSet(Busy) /\ Cardinality(Busy) \in Nat /\ Cardinality(Busy') \in Nat
         /\ asking' \in [Samplers -> SUBSET TestQueries]
         /\ Cardinality(Busy') <= Cardinality(Busy) + 1
         /\ S = {} /\ asking[p] # {} => Cardinality(Busy') = Cardinality(Busy) - 1
<1>1. IsFiniteSet(Busy)
  BY FS_Subset, BudgetAssumption DEF Busy
<1>2. Busy' = IF S = {} THEN Busy \ {p} ELSE Busy \cup {p}
  BY DEF Busy
<1>3. IsFiniteSet(Busy')
  BY <1>1, <1>2, FS_AddElement, FS_RemoveElement
<1>4. Cardinality(Busy') = IF S = {} THEN Cardinality(Busy \ {p}) ELSE Cardinality(Busy \cup {p})
  BY <1>2
<1>5. /\ Cardinality(Busy \ {p}) = IF p \in Busy THEN Cardinality(Busy) - 1 ELSE Cardinality(Busy)
      /\ Cardinality(Busy \cup {p}) = IF p \in Busy THEN Cardinality(Busy) ELSE Cardinality(Busy) + 1
  BY <1>1, FS_AddElement, FS_RemoveElement
<1>6. Cardinality(Busy) \in Nat /\ Cardinality(Busy') \in Nat
  BY <1>1, <1>3, FS_CardinalityType
<1>7. asking[p] # {} => p \in Busy
  BY DEF Busy
<1> QED BY <1>1, <1>4, <1>5, <1>6, <1>7

\* A query a test may have, and the one the scanner builds, has some size.
LEMMA Sizes ==
  /\ \A form \in FormType : Len(form.calls) \in Nat
  /\ \A chain \in Chain : Len(StaticForm(chain).calls) \in Nat
<1>1. ASSUME NEW chain \in Chain PROVE Len(StaticForm(chain).calls) \in Nat
  <2>1. /\ chain.calls \in Seq([m : Methods, v : Nat, known : BOOLEAN])
        /\ StaticForm(chain).calls =
             [i \in DOMAIN chain.calls |-> [m |-> chain.calls[i].m, v |-> chain.calls[i].v]]
    BY DEF Chain, ChainCalls, StaticForm
  <2>2. StaticForm(chain).calls = [i \in 1..Len(chain.calls) |-> [m |-> chain.calls[i].m, v |-> chain.calls[i].v]]
    BY <2>1
  <2> QED BY <2>1, <2>2
<1> QED BY <1>1 DEF FormType, Calls

\* The operation that Scan looks at is one of the source.
LEMMA NextChain ==
  ASSUME Len(operations) \in Nat, Len(operations) < Len(Chains)
  PROVE  Chains[Len(operations) + 1] \in Chain
<1>1. Chains \in Seq(Chain)
  BY ChainsAssumption DEF Chain, ChainCalls
<1> QED BY <1>1

\* The scanner samples alone and one at a time.
LEMMA ScanBudget ==
  ASSUME BudgetInv, Len(operations) \in Nat, Scan
  PROVE  BudgetInv'
<1> USE DEF BudgetInv
<1> DEFINE form == StaticForm(Chains[Len(operations) + 1])
           ask == Counted(token, "ask", form)
           tok == IF ask.receipts > MaxReceipts THEN ask ELSE Counted(ask, "answer", form)
<1>1. /\ UNCHANGED <<asking, forms>>
      /\ \/ UNCHANGED <<token, issued>>
         \/ tok.receipts <= MaxReceipts /\ tok.bytes <= MaxBytes /\ token' = tok /\ Issue(form)
         \/ token' = tok /\ UNCHANGED issued
  BY DEF Scan
<1>2. Len(form.calls) \in Nat
  BY NextChain, Sizes DEF Scan
<1>3. /\ Token(ask) /\ ask.receipts = token.receipts + 1 /\ ask.bytes = token.bytes
      /\ Size(form) \in Nat
  <2> HIDE DEF form
  <2> QED BY <1>2, CountedFields
<1>4. /\ Token(Counted(ask, "answer", form))
      /\ Counted(ask, "answer", form).receipts = token.receipts + 1
      /\ Counted(ask, "answer", form).bytes = token.bytes + Size(form)
  <2> HIDE DEF form, ask
  <2>1. ask.receipts \in Nat /\ ask.bytes \in Nat
    BY <1>3
  <2> QED BY <1>2, <1>3, <2>1, CountedFields, SMTT(30)
<1>5. Token(tok) /\ tok.receipts = token.receipts + 1 /\ tok.bytes \in Nat /\ tok.bytes >= token.bytes
  <2> HIDE DEF form, ask
  <2> QED BY <1>3, <1>4, SMTT(30)
<1>6. tok.receipts <= MaxReceipts => tok.bytes = token.bytes + Size(form)
  <2> HIDE DEF form, ask
  <2> QED BY <1>3, <1>4, BudgetAssumption, SMTT(30)
<1>7. Busy' = Busy /\ Cardinality(Busy) \in Nat
  BY <1>1, FS_Subset, FS_CardinalityType, BudgetAssumption DEF Busy
<1> HIDE DEF form, ask, tok
<1>8. CASE UNCHANGED <<token, issued>>
  BY <1>1, <1>7, <1>8
<1>9. CASE tok.receipts <= MaxReceipts /\ tok.bytes <= MaxBytes /\ token' = tok /\ Issue(form)
  <2>1. /\ issued' \in [receipts : Nat, bytes : Nat]
        /\ issued'.receipts = issued.receipts + 1 /\ issued'.bytes = issued.bytes + Size(form)
    BY <1>3, <1>9, IssueFields
  <2>2. tok.receipts <= MaxReceipts /\ tok.bytes <= MaxBytes /\ token' = tok
    BY <1>9
  <2>3. tok.bytes = token.bytes + Size(form)
    BY <1>6, <2>2
  <2>4. /\ issued'.receipts + Cardinality(Busy) <= tok.receipts
        /\ issued'.receipts + Cardinality(Busy) <= MaxReceipts
        /\ issued'.bytes <= tok.bytes /\ issued'.bytes <= MaxBytes
    <3>1. /\ issued.receipts \in Nat /\ issued.bytes \in Nat
          /\ issued.receipts + Cardinality(Busy) <= token.receipts
      OBVIOUS
    <3>2. issued'.receipts + Cardinality(Busy) <= tok.receipts
      BY <1>5, <1>7, <2>1, <3>1
    <3>3. issued'.bytes <= tok.bytes
      BY <1>3, <2>1, <2>3, <3>1
    <3>4. /\ issued'.receipts + Cardinality(Busy) \in Nat /\ tok.receipts \in Nat
          /\ issued'.bytes \in Nat /\ tok.bytes \in Nat
      BY <1>5, <1>7, <2>1, SMTT(30)
    <3> QED BY <2>2, <3>2, <3>3, <3>4, BudgetAssumption, SMTT(60)
  <2>5. Token(token') /\ token'.receipts \in Nat /\ token'.bytes \in Nat
    BY <1>5, <2>2
  <2>6. UNCHANGED <<asking, forms, Busy>>
    BY <1>1, <1>7
  <2> QED BY <2>1, <2>2, <2>4, <2>5, <2>6
<1>10. CASE token' = tok /\ UNCHANGED issued
  BY <1>1, <1>5, <1>7, <1>10, SMTT(30)
<1> QED BY <1>1, <1>8, <1>9, <1>10

\* A test takes a ticket: it is refused when the first counter is over.
LEMMA AskBudget ==
  ASSUME BudgetInv, NEW p \in Samplers, NEW q \in TestQueries, Ask(p, q)
  PROVE  BudgetInv'
<1> USE DEF BudgetInv
<1> DEFINE ask == Counted(token, "ask", forms[q])
<1>1. /\ token' = ask /\ UNCHANGED <<forms, issued>> /\ asking[p] = {}
      /\ IF ask.receipts <= MaxReceipts THEN asking' = [asking EXCEPT ![p] = {q}] ELSE asking' = asking
  BY DEF Ask
<1>2. Token(ask) /\ ask.receipts = token.receipts + 1 /\ ask.bytes = token.bytes
  BY CountedFields, Sizes
<1> HIDE DEF ask
<1>3. CASE ask.receipts <= MaxReceipts
  <2>1. /\ Cardinality(Busy) \in Nat /\ Cardinality(Busy') \in Nat
        /\ asking' \in [Samplers -> SUBSET TestQueries] /\ Cardinality(Busy') <= Cardinality(Busy) + 1
    BY <1>1, <1>3, BusyCounts
  <2> QED BY <1>1, <1>2, <1>3, <2>1, BudgetAssumption
<1>4. CASE ~(ask.receipts <= MaxReceipts)
  <2>1. Busy' = Busy /\ Cardinality(Busy) \in Nat
    BY <1>1, <1>4, FS_Subset, FS_CardinalityType, BudgetAssumption DEF Busy
  <2> QED BY <1>1, <1>2, <1>4, <2>1
<1> QED BY <1>3, <1>4

\* A test gets its receipt, or a refusal that keeps what it took.
LEMMA SampledBudget ==
  ASSUME BudgetInv, NEW p \in Samplers, Sampled(p)
  PROVE  BudgetInv'
<1> USE DEF BudgetInv
<1>1. PICK q \in asking[p] : Sampled(p)!(q)
  BY DEF Sampled
<1> DEFINE answer == Counted(token, "answer", forms[q])
<1>2. /\ asking' = [asking EXCEPT ![p] = {}] /\ UNCHANGED forms
      /\ \/ UNCHANGED <<token, issued>>
         \/ token' = answer /\ UNCHANGED issued
         \/ token' = answer /\ ~(answer.bytes > MaxBytes) /\ Issue(forms[q])
  BY <1>1
<1>3. Token(answer) /\ answer.receipts = token.receipts /\ answer.bytes = token.bytes + Size(forms[q])
      /\ Size(forms[q]) \in Nat
  BY CountedFields, Sizes
<1> HIDE DEF answer
<1>4. /\ Cardinality(Busy) \in Nat /\ Cardinality(Busy') \in Nat
      /\ asking' \in [Samplers -> SUBSET TestQueries] /\ Cardinality(Busy') = Cardinality(Busy) - 1
  <2>1. asking[p] # {} /\ {} \in SUBSET TestQueries
    BY <1>1
  <2>2. asking' = [asking EXCEPT ![p] = {}]
    BY <1>2
  <2> QED BY <2>1, <2>2, BusyCounts
<1>5. CASE UNCHANGED <<token, issued>> \/ (token' = answer /\ UNCHANGED issued)
  <2>1. Token(token') /\ token'.receipts = token.receipts /\ token'.bytes \in Nat
        /\ token'.bytes >= token.bytes
    <3>1. CASE token' = token
      BY <3>1
    <3>2. CASE token' = answer
      BY <1>3, <3>2
    <3> QED BY <1>5, <3>1, <3>2
  <2>2. UNCHANGED <<issued, forms>>
    BY <1>2, <1>5
  <2>3. issued.receipts \in Nat /\ issued.bytes \in Nat
    OBVIOUS
  <2>4. /\ issued'.receipts + Cardinality(Busy') <= token'.receipts
        /\ issued'.receipts + Cardinality(Busy') <= MaxReceipts
    BY <1>4, <2>1, <2>2, <2>3, BudgetAssumption
  <2>5. issued'.bytes <= token'.bytes /\ issued'.bytes <= MaxBytes
    BY <2>1, <2>2, <2>3
  <2> QED BY <1>4, <2>1, <2>2, <2>4, <2>5
<1>6. CASE token' = answer /\ ~(answer.bytes > MaxBytes) /\ Issue(forms[q])
  <2>1. /\ issued' \in [receipts : Nat, bytes : Nat]
        /\ issued'.receipts = issued.receipts + 1 /\ issued'.bytes = issued.bytes + Size(forms[q])
    BY <1>3, <1>6, IssueFields
  <2>2. token' = answer /\ ~(answer.bytes > MaxBytes) /\ UNCHANGED forms
    BY <1>2, <1>6
  <2>3. Token(token') /\ token'.receipts = token.receipts /\ token'.bytes \in Nat
    BY <1>3, <2>2
  <2>4. /\ issued'.receipts + Cardinality(Busy') <= token'.receipts
        /\ issued'.receipts + Cardinality(Busy') <= MaxReceipts
        /\ issued'.bytes <= token'.bytes /\ issued'.bytes <= MaxBytes
    BY <1>3, <1>4, <2>1, <2>2, <2>3, BudgetAssumption
  <2> QED BY <1>4, <2>1, <2>2, <2>3, <2>4
<1> QED BY <1>2, <1>5, <1>6

\* The other steps leave what the tests ask and what they were given.
LEMMA OtherBudget ==
  ASSUME BudgetInv, [ReviewNext]_reviewVars,
         ~Scan, \A p \in Samplers : ~Sampled(p) /\ \A q \in TestQueries : ~Ask(p, q)
  PROVE  BudgetInv'
<1> USE DEF BudgetInv
<1> DEFINE TokenKept == /\ Token(token') /\ UNCHANGED <<issued, asking>>
                        /\ token'.receipts = token.receipts /\ token'.bytes = token.bytes
<1>1. ASSUME TokenKept, forms' \in [TestQueries -> FormType] PROVE BudgetInv'
  BY <1>1 DEF Busy
<1>2. ASSUME UNCHANGED <<token, issued, asking, forms>> PROVE BudgetInv'
  BY <1>1, <1>2
<1>3. CASE BeginEvidence \/ EndEvidence \/ Compare
  BY <1>2, <1>3 DEF BeginEvidence, EndEvidence, Compare
<1>4. ASSUME NEW i, (\E r, id : Record(i, r, id)) \/ RecordStale(i) PROVE BudgetInv'
  <2>1. ASSUME NEW r, NEW id, Record(i, r, id) PROVE UNCHANGED <<token, issued, asking, forms>>
    BY <2>1 DEF Record
  <2> QED BY <1>2, <1>4, <2>1 DEF RecordStale
<1>5. CASE RecordForeign \/ EditInput \/ UNCHANGED reviewVars
  BY <1>2, <1>5 DEF RecordForeign, EditInput, reviewVars
<1>6. ASSUME NEW q \in TestQueries, NEW form \in Forms, EditQuery(q, form) PROVE BudgetInv'
  <2>1. form \in FormType
    BY FormsAssumption DEF FormType, Calls, Configs, Environments
  <2>2. forms' = [forms EXCEPT ![q] = form] /\ UNCHANGED <<token, issued, asking>>
    BY <1>6 DEF EditQuery
  <2>3. forms' \in [TestQueries -> FormType]
    BY <2>1, <2>2
  <2> QED BY <1>1, <2>2, <2>3
<1>7. CASE Finish \/ Cancel \/ Expire
  <2>1. TokenKept
    <3>1. PICK f \in {"closed", "done", "late"} : token' = [token EXCEPT ![f] = TRUE]
      BY <1>7 DEF Finish, Cancel, Expire
    <3> DEFINE yes == TRUE
    <3>2. UNCHANGED <<issued, asking>>
      BY <1>7 DEF Finish, Cancel, Expire
    <3>3. token' = [token EXCEPT ![f] = yes]
      BY <3>1
    <3> HIDE DEF yes
    <3>4. token' = [closed |-> token'.closed, done |-> token'.done, late |-> token'.late,
                    receipts |-> token.receipts, bytes |-> token.bytes]
      BY <3>3 DEF Token
    <3> QED BY <3>2, <3>4 DEF Token
  <2> QED BY <1>1, <1>7, <2>1 DEF Finish, Cancel, Expire
<1> QED BY <1>3, <1>4, <1>5, <1>6, <1>7 DEF ReviewNext

\* At first nothing is asked and nothing was given.
LEMMA BudgetInit ==
  ASSUME ReviewInit
  PROVE  BudgetInv
<1>1. /\ token = [closed |-> FALSE, done |-> FALSE, late |-> FALSE, receipts |-> 0, bytes |-> 0]
      /\ issued = [receipts |-> 0, bytes |-> 0]
      /\ asking = [p \in Samplers |-> {}] /\ forms = [q \in TestQueries |-> FirstForm]
  BY DEF ReviewInit
<1>2. Token(token) /\ token.receipts = 0 /\ token.bytes = 0
  BY <1>1 DEF Token
<1>3. forms \in [TestQueries -> FormType]
  BY <1>1, FormsAssumption DEF FormType, Calls, Configs, Environments
<1>4. Busy = {} /\ Cardinality(Busy) = 0
  BY <1>1, FS_EmptySet DEF Busy
<1> QED BY <1>1, <1>2, <1>3, <1>4, BudgetAssumption DEF BudgetInv

(***************************************************************************)
(* The comparison.                                                         *)
(***************************************************************************)
Grades == {"unconfirmed", "matched", "mismatched"}
Corrs == [operation : Grades, target : Grades, structure : Grades, arguments : Grades,
          source : Grades, context : Grades]
Structures == Seq(Methods)
Arguments == Seq(Nat)
Samples == [operation : {"select"}, target : {"t"}, structure : Structures, args : Arguments,
            config : Configs, known : BOOLEAN]
Receipts == [owner : TestQueries \cup {"none", "static"}, env : Environments, sample : SUBSET Samples]
Reasons == {"", "evidence_mismatch", "budget_exceeded"}
Flaws == {"canceled", "source_changed", "evidence_missing", "duplicate_identity"} \cup (Reasons \ {""})
Terminals == {"select", "update", "delete", ""}
Operations == [expected : Receipts, static : FormType, operation : Terminals,
               corr : Corrs, missing : SUBSET Flaws]

ReviewTypeOK ==
  /\ session \in [phase : {"scan", "evidence", "compare", "done"}, reason : Reasons,
                  next : Nat \ {0}, same : BOOLEAN]
  /\ operations \in Seq(Operations)
  /\ records \in Seq(Seq(Receipts)) /\ Len(records) = Len(operations)
  /\ claims \in Seq([index : Nat, id : RecordIDs])
  /\ forms \in [TestQueries -> FormType]
  /\ held \subseteq Receipts

\* An operation is made of its chain, and has a sample only of a chain that can be
\* reconstructed.
SourcesOK ==
  /\ Len(operations) <= Len(Chains)
  /\ session.phase # "scan" => Len(operations) = Len(Chains)
  /\ \A i \in DOMAIN operations :
       /\ operations[i].static = StaticForm(Chains[i])
       /\ \/ operations[i].expected = NoReceipt
          \/ /\ Reconstructible(Chains[i])
             /\ operations[i].expected = Receipt("static", StaticForm(Chains[i]))

\* The receipts of the tests are samples of their own queries.
ReceiptOK(r) ==
  /\ r.owner # "static" /\ (r.owner = "none" => r.sample = {})
  /\ \A s, t \in r.sample : s = t
ReceiptsOK ==
  /\ \A r \in held : ReceiptOK(r)
  /\ \A i \in DOMAIN records : \A n \in DOMAIN records[i] : ReceiptOK(records[i][n])

\* Nothing is claimed before the tests run, nothing is compared before they return.
PhasesOK ==
  /\ session.phase \in {"scan", "evidence"} => session.next = 1
  /\ session.phase = "scan" => claims = <<>> /\ \A i \in DOMAIN records : records[i] = <<>>
  /\ session.phase \in {"compare", "done"} /\ session.same => session.reason = ""

\* Until it is compared, an operation is unconfirmed, or spoiled by its claims.
PendingOK ==
  \A i \in DOMAIN operations : i >= session.next =>
    operations[i].corr \in {Unconfirmed, [Unconfirmed EXCEPT !.source = "mismatched"]}

\* Claim k is the only one of operation i.
Alone(i, k) == \A l \in DOMAIN claims : claims[l].index = i <=> l = k

\* Two records of an operation stand for any number of claims, one for one claim.
CountsOK ==
  \A i \in DOMAIN records :
    /\ Len(records[i]) = 0 => \A k \in DOMAIN claims : claims[k].index # i
    /\ Len(records[i]) = 1 => \E k \in DOMAIN claims : Alone(i, k)

\* Every claim whose ID was used twice has spoiled its operation, and every ID in
\* use has a latest claim.
ContestOK ==
  /\ \A k \in DOMAIN claims : claims[k].index \in DOMAIN operations
  /\ \A k, l \in DOMAIN claims :
       k # l /\ claims[k].id = claims[l].id /\ claims[k].id # ""
         => operations[claims[k].index].corr.source = "mismatched"
  /\ \A k \in DOMAIN claims :
       \E j \in DOMAIN claims :
         /\ claims[j].id = claims[k].id
         /\ \A l \in DOMAIN claims : claims[l].id = claims[k].id => l <= j

SessionInv ==
  /\ ReviewTypeOK /\ SourcesOK /\ ReceiptsOK /\ PhasesOK /\ PendingOK /\ CountsOK /\ ContestOK
  /\ MatchedIsProven

\* What the three parts of a verdict say of operation i and of receipt r.
StructureAgrees(i, r) ==
  /\ \A c \in Range(Chains[i].calls) : c.known /\ c.m # "other"
  /\ [k \in DOMAIN Chains[i].calls |-> Chains[i].calls[k].m]
       = [k \in DOMAIN forms[r.owner].calls |-> forms[r.owner].calls[k].m]
ArgumentsAgree(i, r) ==
  [k \in DOMAIN Chains[i].calls |-> Chains[i].calls[k].v]
    = [k \in DOMAIN forms[r.owner].calls |-> forms[r.owner].calls[k].v]
ContextAgrees(op, r) == forms[r.owner].config = op.static.config /\ \A s \in r.sample : s.known
Agrees(c, op, i, r) ==
  /\ c.structure = "matched" => StructureAgrees(i, r)
  /\ c.arguments = "matched" => ArgumentsAgree(i, r)
  /\ c.context = "matched" => ContextAgrees(op, r)

\* The elements of a sequence of records.
LEMMA SeqOfRecords ==
  ASSUME NEW s \in Seq([m : Methods, v : Nat])
  PROVE  /\ Len(s) \in Nat /\ DOMAIN s = 1..Len(s)
         /\ \A i \in 1..Len(s) : s[i].m \in Methods /\ s[i].v \in Nat
<1> DEFINE R == [m : Methods, v : Nat]
<1>1. \A r \in R : r.m \in Methods /\ r.v \in Nat
  OBVIOUS
<1>2. s \in Seq(R)
  OBVIOUS
<1> HIDE DEF R
<1>3. Len(s) \in Nat /\ DOMAIN s = 1..Len(s) /\ \A i \in 1..Len(s) : s[i] \in R
  BY <1>2
<1> QED BY <1>1, <1>3

\* The sample of a query that can be sampled.
LEMMA SnapshotFields ==
  ASSUME NEW form \in FormType
  PROVE  /\ Snapshot(form) \in SUBSET Samples
         /\ \A x, y \in Snapshot(form) : x = y
         /\ \A x \in Snapshot(form) :
              /\ x.structure = [i \in DOMAIN form.calls |-> form.calls[i].m]
              /\ x.args = [i \in DOMAIN form.calls |-> form.calls[i].v]
              /\ x.config = form.config /\ x.known = form.known
<1>1. /\ form.calls \in Calls /\ form.config \in Configs /\ form.known \in BOOLEAN
  BY DEF FormType
<1>2. /\ [i \in DOMAIN form.calls |-> form.calls[i].m] \in Seq(Methods)
      /\ [i \in DOMAIN form.calls |-> form.calls[i].v] \in Seq(Nat)
  <2>1. /\ Len(form.calls) \in Nat /\ DOMAIN form.calls = 1..Len(form.calls)
        /\ \A i \in 1..Len(form.calls) : form.calls[i].m \in Methods /\ form.calls[i].v \in Nat
    BY <1>1, SeqOfRecords DEF Calls
  <2>2. /\ [i \in 1..Len(form.calls) |-> form.calls[i].m] \in Seq(Methods)
        /\ [i \in 1..Len(form.calls) |-> form.calls[i].v] \in Seq(Nat)
    BY <2>1
  <2> QED BY <2>1, <2>2
<1> DEFINE structure == [i \in DOMAIN form.calls |-> form.calls[i].m]
           args == [i \in DOMAIN form.calls |-> form.calls[i].v]
           x == [operation |-> "select", target |-> "t", structure |-> structure, args |-> args,
                 config |-> form.config, known |-> form.known]
<1>3. Snapshot(form) = IF form.opaque THEN {} ELSE {x}
  BY DEF Snapshot
<1>4. /\ x \in Samples /\ x.structure = structure /\ x.args = args /\ x.config = form.config
      /\ x.known = form.known
  <2>1. structure \in Structures /\ args \in Arguments
    BY <1>2 DEF Structures, Arguments
  <2> DEFINE known == form.known
             select == "select"
             target == "t"
  <2>2. x = [operation |-> select, target |-> target, structure |-> structure, args |-> args,
             config |-> form.config, known |-> known]
    OBVIOUS
  <2>3. known \in BOOLEAN /\ form.config \in Configs
    BY <1>1
  <2>4. select \in {"select"} /\ target \in {"t"}
    OBVIOUS
  <2> HIDE DEF structure, args, known, select, target, x
  <2>5. x \in Samples
    BY <2>1, <2>2, <2>3, <2>4 DEF Samples
  <2>6. /\ x.structure = structure /\ x.args = args /\ x.config = form.config
        /\ x.known = known
    BY <2>2
  <2> QED BY <2>5, <2>6 DEF known
<1> HIDE DEF x
<1> QED BY <1>3, <1>4

\* The query the scanner builds is one a test may have.
LEMMA StaticFields ==
  ASSUME NEW chain \in Chain
  PROVE  /\ StaticForm(chain) \in FormType /\ StaticForm(chain).config = "c"
         /\ StaticForm(chain).known = TRUE
         /\ DOMAIN StaticForm(chain).calls = DOMAIN chain.calls
         /\ \A i \in DOMAIN chain.calls : /\ StaticForm(chain).calls[i].m = chain.calls[i].m
                                          /\ StaticForm(chain).calls[i].v = chain.calls[i].v
<1> DEFINE calls == [i \in DOMAIN chain.calls |-> [m |-> chain.calls[i].m, v |-> chain.calls[i].v]]
<1>1. /\ Len(chain.calls) \in Nat /\ DOMAIN chain.calls = 1..Len(chain.calls)
      /\ \A i \in 1..Len(chain.calls) : chain.calls[i].m \in Methods /\ chain.calls[i].v \in Nat
  <2> DEFINE R == [m : Methods, v : Nat, known : BOOLEAN]
  <2>1. chain.calls \in Seq(R)
    BY DEF Chain, ChainCalls
  <2>2. \A r \in R : r.m \in Methods /\ r.v \in Nat
    OBVIOUS
  <2> HIDE DEF R
  <2>3. /\ Len(chain.calls) \in Nat /\ DOMAIN chain.calls = 1..Len(chain.calls)
        /\ \A i \in 1..Len(chain.calls) : chain.calls[i] \in R
    BY <2>1
  <2> QED BY <2>2, <2>3
<1>2. calls \in Calls
  <2>1. [i \in 1..Len(chain.calls) |-> [m |-> chain.calls[i].m, v |-> chain.calls[i].v]]
          \in Seq([m : Methods, v : Nat])
    BY <1>1
  <2> QED BY <1>1, <2>1 DEF Calls
<1>3. /\ DOMAIN calls = DOMAIN chain.calls
      /\ \A i \in DOMAIN chain.calls : calls[i].m = chain.calls[i].m /\ calls[i].v = chain.calls[i].v
  OBVIOUS
<1>4. StaticForm(chain) = [calls |-> calls, config |-> "c", known |-> TRUE, env |-> "static", opaque |-> FALSE]
  BY DEF StaticForm
<1>5. /\ StaticForm(chain) \in FormType /\ StaticForm(chain).calls = calls
      /\ StaticForm(chain).config = "c" /\ StaticForm(chain).known = TRUE
  <2> DEFINE yes == TRUE
             no == FALSE
             config == "c"
             env == "static"
             form == StaticForm(chain)
  <2>1. form = [calls |-> calls, config |-> config, known |-> yes, env |-> env, opaque |-> no]
    BY <1>4
  <2>2. yes \in BOOLEAN /\ no \in BOOLEAN
    OBVIOUS
  <2>3. config \in Configs /\ env \in Environments
    BY DEF Configs, Environments
  <2> HIDE DEF yes, no, config, env, form, calls
  <2>4. form \in FormType
    BY <1>2, <2>1, <2>2, <2>3 DEF FormType
  <2>5. form.calls = calls /\ form.config = config /\ form.known = yes
    BY <2>1
  <2> QED BY <2>4, <2>5 DEF yes, config, form
<1> QED BY <1>3, <1>5

\* A chain that can be reconstructed is known to its last call.
LEMMA ReconstructibleIsKnown ==
  ASSUME NEW chain \in Chain, Reconstructible(chain), NEW c \in Range(chain.calls)
  PROVE  c.known /\ c.m # "other"
<1> DEFINE R == [m : Methods, v : Nat, known : BOOLEAN]
<1>1. \A r \in R : r.m \in Methods
  OBVIOUS
<1>2. chain.calls \in Seq(R)
  BY DEF Chain, ChainCalls
<1> HIDE DEF R
<1>3. c \in R
  BY <1>2 DEF Range
<1>4. c.m \in {"select", "where", "limit", "null", "order", "other"}
  BY <1>1, <1>3 DEF Methods
<1>5. /\ c.m = "select" => c.known
      /\ c.m # "other" /\ (c.m \in {"where", "limit"} => c.known)
      /\ c.m \in {"null", "order"} => c.known
  BY DEF Reconstructible, Columns, Bindings
<1> QED BY <1>4, <1>5

\* A current receipt has a sample like what its owner would be planned to now.
LEMMA CurrentFacts ==
  ASSUME NEW r \in Receipts, ReceiptOK(r), NEW form \in FormType, current(r, form)
  PROVE  \E y \in r.sample :
           /\ \A s \in r.sample : s = y
           /\ y.structure = [i \in DOMAIN form.calls |-> form.calls[i].m]
           /\ y.args = [i \in DOMAIN form.calls |-> form.calls[i].v]
           /\ y.config = form.config
<1>1. PICK x \in Snapshot(form), y \in r.sample : x = [y EXCEPT !.known = x.known]
  BY DEF current
<1>2. y \in Samples
  BY DEF Receipts
<1>3. x.structure = y.structure /\ x.args = y.args /\ x.config = y.config
  BY <1>1, <1>2 DEF Samples
<1>4. /\ x.structure = [i \in DOMAIN form.calls |-> form.calls[i].m]
      /\ x.args = [i \in DOMAIN form.calls |-> form.calls[i].v]
      /\ x.config = form.config
  BY SnapshotFields
<1>5. \A s \in r.sample : s = y
  BY SMTT(30) DEF ReceiptOK
<1> QED BY <1>3, <1>4, <1>5

\* What a comparison calls matched is so.
LEMMA ComparisonAgrees ==
  ASSUME ReviewTypeOK, SourcesOK, NEW i \in DOMAIN operations, NEW r \in Receipts, ReceiptOK(r)
  PROVE  /\ CompareReviewReceipts(operations[i], operations[i].expected, r) \in Corrs
         /\ Agrees(CompareReviewReceipts(operations[i], operations[i].expected, r), operations[i], i, r)
<1> DEFINE op == operations[i]
           chain == Chains[i]
           a == op.expected
           x == CHOOSE s \in a.sample : TRUE
           y == CHOOSE s \in r.sample : TRUE
           c == CompareReviewReceipts(op, a, r)
           spoiled == [Unconfirmed EXCEPT !.source = "mismatched"]
           context == IF x.config # y.config THEN "mismatched"
                      ELSE IF x.known /\ y.known THEN "matched" ELSE "unconfirmed"
           found == [operation |-> Same(x.operation, y.operation), target |-> Same(x.target, y.target),
                     structure |-> Same(x.structure, y.structure), arguments |-> Same(x.args, y.args),
                     source |-> "unconfirmed", context |-> context]
<1>1. /\ op \in Operations /\ chain \in Chain /\ op.static = StaticForm(chain)
      /\ a = NoReceipt \/ (Reconstructible(chain) /\ a = Receipt("static", StaticForm(chain)))
  <2>1. op \in Operations
    BY DEF ReviewTypeOK
  <2>2. Chains \in Seq(Chain) /\ i \in 1..Len(Chains)
    BY ChainsAssumption DEF Chain, ChainCalls, SourcesOK, ReviewTypeOK
  <2>3. chain \in Chain
    BY <2>2
  <2> QED BY <2>1, <2>3 DEF SourcesOK
<1>2. Unconfirmed \in Corrs /\ spoiled \in Corrs
  BY DEF Unconfirmed, Corrs, Grades
<1>3. /\ Unconfirmed.structure = "unconfirmed" /\ Unconfirmed.arguments = "unconfirmed"
      /\ Unconfirmed.context = "unconfirmed"
      /\ spoiled.structure = "unconfirmed" /\ spoiled.arguments = "unconfirmed"
      /\ spoiled.context = "unconfirmed"
  BY DEF Unconfirmed
<1>4. CASE c \in {Unconfirmed, spoiled}
  <2> HIDE DEF c, spoiled, op
  <2> QED BY <1>2, <1>3, <1>4 DEF Agrees, op, c
<1>5. CASE current(r, FormOf(r, op)) /\ a.sample # {} /\ current(a, FormOf(a, op)) /\ c = found
  <2>1. r.owner \in TestQueries /\ FormOf(r, op) = forms[r.owner] /\ forms[r.owner] \in FormType
    <3>1. r.sample # {}
      BY <1>5 DEF current
    <3>2. r.owner \in TestQueries
      BY <3>1 DEF ReceiptOK, Receipts
    <3> QED BY <3>2 DEF FormOf, ReviewTypeOK
  <2> DEFINE form == forms[r.owner]
             static == StaticForm(chain)
  <2>2. /\ y \in r.sample /\ \A s \in r.sample : s = y
        /\ y.structure = [k \in DOMAIN form.calls |-> form.calls[k].m]
        /\ y.args = [k \in DOMAIN form.calls |-> form.calls[k].v]
        /\ y.config = form.config
    <3>1. PICK z \in r.sample :
            /\ \A s \in r.sample : s = z
            /\ z.structure = [k \in DOMAIN form.calls |-> form.calls[k].m]
            /\ z.args = [k \in DOMAIN form.calls |-> form.calls[k].v]
            /\ z.config = form.config
      <4>1. current(r, form) /\ form \in FormType
        BY <1>5, <2>1
      <4> HIDE DEF form
      <4> QED BY <4>1, CurrentFacts
    <3>2. y = z
      BY <3>1
    <3> QED BY <3>1, <3>2
  <2>3. /\ Reconstructible(chain) /\ a.sample = Snapshot(static)
    <3>1. NoReceipt.sample = {} /\ Receipt("static", static).sample = Snapshot(static)
      BY DEF NoReceipt, Receipt
    <3>2. a # NoReceipt
      BY <1>5, <3>1
    <3> QED BY <1>1, <3>1, <3>2
  <2>4. /\ x.structure = [k \in DOMAIN static.calls |-> static.calls[k].m]
        /\ x.args = [k \in DOMAIN static.calls |-> static.calls[k].v]
        /\ x.config = static.config
    <3>1. static \in FormType
      BY <1>1, StaticFields
    <3>2. x \in Snapshot(static)
      BY <1>5, <2>3
    <3> QED BY <3>1, <3>2, SnapshotFields
  <2>5. /\ x.structure = [k \in DOMAIN chain.calls |-> chain.calls[k].m]
        /\ x.args = [k \in DOMAIN chain.calls |-> chain.calls[k].v]
    BY <1>1, <2>4, StaticFields, ZenonT(60)
  <2>6. /\ context \in Grades
        /\ context = "matched" => x.config = y.config /\ y.known
    BY DEF Grades
  <2> HIDE DEF op, x, y, a, chain, context
  <2>7. \A u, v : Same(u, v) \in Grades /\ (Same(u, v) = "matched" => u = v)
    BY DEF Same, Grades
  <2>8. c \in Corrs
    BY <1>5, <2>6, <2>7 DEF Corrs, Grades
  <2>9. /\ c.structure = Same(x.structure, y.structure) /\ c.arguments = Same(x.args, y.args)
        /\ c.context = context
    BY <1>5
  <2> HIDE DEF c, found
  <2>10. c.structure = "matched" => StructureAgrees(i, r)
    <3>1. c.structure = "matched" => x.structure = y.structure
      BY <2>7, <2>9, Zenon
    <3>2. \A d \in Range(chain.calls) : d.known /\ d.m # "other"
      BY <1>1, <2>3, ReconstructibleIsKnown
    <3> QED BY <2>2, <2>5, <3>1, <3>2, Zenon DEF StructureAgrees, chain
  <2>11. c.arguments = "matched" => ArgumentsAgree(i, r)
    <3>1. c.arguments = "matched" => x.args = y.args
      BY <2>7, <2>9, Zenon
    <3> QED BY <2>2, <2>5, <3>1, Zenon DEF ArgumentsAgree, chain
  <2>12. c.context = "matched" => ContextAgrees(op, r)
    BY <1>1, <2>2, <2>4, <2>6, <2>9 DEF ContextAgrees
  <2> QED BY <2>8, <2>10, <2>11, <2>12 DEF Agrees, op, c, a
<1> QED BY <1>4, <1>5 DEF CompareReviewReceipts

\* An operation that a mismatch spoils, and one that is marked or not.
Spoiled(c) == [c EXCEPT !.source = "mismatched"]
Marked(op, new) ==
  /\ new \in Operations /\ new.static = op.static /\ new.expected = op.expected
  /\ new.operation = op.operation /\ new.corr \in {op.corr, Spoiled(op.corr)}

LEMMA SpoiledFacts ==
  /\ \A c \in Corrs : /\ Spoiled(c) \in Corrs /\ Spoiled(c).source = "mismatched"
                      /\ Spoiled(c).structure = c.structure /\ Spoiled(c).arguments = c.arguments
                      /\ Spoiled(c).context = c.context
  /\ Unconfirmed \in Corrs
  /\ Spoiled(Spoiled(Unconfirmed)) = Spoiled(Unconfirmed)
<1>1. ASSUME NEW c \in Corrs
      PROVE  /\ Spoiled(c) \in Corrs /\ Spoiled(c).source = "mismatched"
             /\ Spoiled(c).structure = c.structure /\ Spoiled(c).arguments = c.arguments
             /\ Spoiled(c).context = c.context
  BY DEF Spoiled, Corrs, Grades
<1>2. Unconfirmed \in Corrs
  BY DEF Unconfirmed, Corrs, Grades
<1>3. Spoiled(Spoiled(Unconfirmed)) = Spoiled(Unconfirmed)
  BY DEF Spoiled, Unconfirmed
<1> QED BY <1>1, <1>2, <1>3

\* Mismatch spoils one operation and says why.
LEMMA MismatchFacts ==
  ASSUME NEW op \in Operations, NEW why \in Flaws
  PROVE  Marked(op, Mismatch(op, why)) /\ Mismatch(op, why).corr = Spoiled(op.corr)
<1> DEFINE corr == Spoiled(op.corr)
           missing == op.missing \cup {why}
           new == Mismatch(op, why)
<1>1. new = [op EXCEPT !.corr = corr, !.missing = missing]
  BY DEF Mismatch, Spoiled, Operations
<1>2. corr \in Corrs /\ missing \in SUBSET Flaws
  BY SpoiledFacts DEF Operations
<1> HIDE DEF corr, missing, new
<1>3. /\ new \in Operations /\ new.static = op.static /\ new.expected = op.expected
      /\ new.operation = op.operation /\ new.corr = corr
  BY <1>1, <1>2 DEF Operations
<1> QED BY <1>3 DEF Marked, new, corr

\* While nothing is compared, nothing is reported as matched.
LEMMA NothingDone ==
  session.phase \in {"scan", "evidence"} => MatchedIsProven
BY DEF MatchedIsProven, MatchedHasOneWitness, MatchedPartsAgree, Done

\* The fields of an operation.
LEMMA OperationType ==
  ASSUME NEW expected \in Receipts, NEW static \in FormType, NEW operation \in Terminals,
         NEW corr \in Corrs, NEW missing \in SUBSET Flaws
  PROVE  [expected |-> expected, static |-> static, operation |-> operation, corr |-> corr,
          missing |-> missing] \in Operations
BY DEF Operations

\* A new operation of the source.
Fresh(new, chain, expected) ==
  \E missing \in SUBSET Flaws : new = [Operation(chain, expected) EXCEPT !.missing = missing]

LEMMA OperationFacts ==
  ASSUME NEW chain \in Chain, NEW expected \in Receipts, NEW new, Fresh(new, chain, expected)
  PROVE  /\ new \in Operations /\ new.static = StaticForm(chain) /\ new.expected = expected
         /\ new.corr = Unconfirmed
<1> DEFINE static == StaticForm(chain)
           operation == operationForTerminal(chain)
<1>1. static \in FormType /\ operation \in Terminals
  BY StaticFields DEF operationForTerminal, Terminals
<1>2. Unconfirmed \in Corrs
  BY SpoiledFacts
<1>3. Operation(chain, expected) = [expected |-> expected, static |-> static, operation |-> operation,
                                    corr |-> Unconfirmed, missing |-> {}]
  BY DEF Operation
<1> HIDE DEF static, operation
<1>3a. PICK missing \in SUBSET Flaws : new = [Operation(chain, expected) EXCEPT !.missing = missing]
  BY DEF Fresh
<1>4. new = [expected |-> expected, static |-> static, operation |-> operation,
             corr |-> Unconfirmed, missing |-> missing]
  BY <1>3, <1>3a
<1> DEFINE corr == Unconfirmed
<1>5. new \in Operations
  <2>1. [expected |-> expected, static |-> static, operation |-> operation,
         corr |-> corr, missing |-> missing] \in Operations
    BY <1>1, <1>2, OperationType, Zenon
  <2> QED BY <1>4, <2>1, Zenon
<1>6. new.static = static /\ new.expected = expected /\ new.corr = corr
  BY <1>4
<1> QED BY <1>5, <1>6 DEF static

\* The receipts of the scanner.
LEMMA StaticReceipt ==
  ASSUME NEW chain \in Chain
  PROVE  NoReceipt \in Receipts /\ Receipt("static", StaticForm(chain)) \in Receipts
<1> DEFINE form == StaticForm(chain)
           sample == Snapshot(form)
           none == "none"
           static == "static"
           blank == ""
<1>1. form \in FormType /\ sample \in SUBSET Samples
  BY StaticFields, SnapshotFields
<1>2. form.env \in Environments /\ blank \in Environments
  BY <1>1 DEF FormType, Environments
<1>3. none \in TestQueries \cup {"none", "static"} /\ static \in TestQueries \cup {"none", "static"}
  OBVIOUS
<1>4. NoReceipt = [owner |-> none, env |-> blank, sample |-> {}]
  BY DEF NoReceipt
<1>5. Receipt(static, form) = [owner |-> static, env |-> form.env, sample |-> sample]
  BY DEF Receipt
<1> HIDE DEF form, sample, none, static, blank
<1>6. NoReceipt \in Receipts
  BY <1>2, <1>3, <1>4 DEF Receipts
<1>7. Receipt(static, form) \in Receipts
  BY <1>1, <1>2, <1>3, <1>5 DEF Receipts
<1> QED BY <1>6, <1>7 DEF static, form

\* The scanner adds the next operation of the source.
LEMMA ScanSession ==
  ASSUME SessionInv, Scan
  PROVE  SessionInv'
<1> DEFINE n == Len(operations)
           chain == Chains[n + 1]
<1>1. /\ operations \in Seq(Operations) /\ records \in Seq(Seq(Receipts)) /\ Len(records) = n /\ n \in Nat
      /\ session.phase = "scan" /\ n < Len(Chains)
  BY DEF Scan, SessionInv, ReviewTypeOK
<1>2. chain \in Chain
  BY <1>1, NextChain
<1>3. PICK op \in Operations :
        /\ operations' = Append(operations, op)
        /\ op.static = StaticForm(chain) /\ op.corr = Unconfirmed
        /\ \/ op.expected = NoReceipt
           \/ Reconstructible(chain) /\ op.expected = Receipt("static", StaticForm(chain))
  <2>1. \/ \E op : operations' = Append(operations, op) /\ Fresh(op, chain, NoReceipt)
        \/ /\ Reconstructible(chain)
           /\ \E op : operations' = Append(operations, op) /\ Fresh(op, chain, Receipt("static", StaticForm(chain)))
    <3>1. \A expected : Fresh(Operation(chain, expected), chain, expected)
      <4>1. \A expected : Operation(chain, expected) = [Operation(chain, expected) EXCEPT !.missing = {}]
        BY DEF Operation
      <4> QED BY <4>1 DEF Fresh
    <3>2. Fresh([Operation(chain, NoReceipt) EXCEPT !.missing = {"evidence_missing"}], chain, NoReceipt)
      BY DEF Fresh, Flaws
    <3> QED BY <3>1, <3>2 DEF Scan
  <2> HIDE DEF chain
  <2> QED BY <1>2, <2>1, OperationFacts, StaticReceipt
<1>4. /\ records' = Append(records, <<>>) /\ UNCHANGED <<session, claims, forms, held>>
  BY DEF Scan
<1> HIDE DEF chain
<1>5. /\ operations' \in Seq(Operations) /\ Len(operations') = n + 1 /\ DOMAIN operations' = 1..(n + 1)
      /\ \A i \in DOMAIN operations : operations'[i] = operations[i]
      /\ operations'[n + 1] = op /\ DOMAIN operations = 1..n
  BY <1>1, <1>3
<1>6. /\ records' \in Seq(Seq(Receipts)) /\ Len(records') = n + 1 /\ DOMAIN records' = 1..(n + 1)
      /\ \A i \in DOMAIN records : records'[i] = records[i]
      /\ records'[n + 1] = <<>> /\ DOMAIN records = 1..n
  <2>1. <<>> \in Seq(Receipts)
    OBVIOUS
  <2> QED BY <1>1, <1>4, <2>1
<1>7. session.next = 1 /\ claims = <<>> /\ \A i \in DOMAIN records : records[i] = <<>>
  BY <1>1 DEF SessionInv, PhasesOK
<1>8. ReviewTypeOK'
  BY <1>4, <1>5, <1>6 DEF SessionInv, ReviewTypeOK
<1>9. SourcesOK'
  BY <1>1, <1>3, <1>4, <1>5 DEF SessionInv, SourcesOK, chain
<1>10. ReceiptsOK'
  BY <1>1, <1>4, <1>6, <1>7 DEF SessionInv, ReceiptsOK
<1>10a. \A i \in DOMAIN records' : records'[i] = <<>>
  <2>1. ASSUME NEW i \in 1..(n + 1) PROVE records'[i] = <<>>
    <3>1. CASE i = n + 1
      BY <1>6, <3>1
    <3>2. CASE i \in 1..n
      BY <1>6, <1>7, <3>2
    <3> QED BY <1>1, <3>1, <3>2
  <2> QED BY <1>6, <2>1
<1>11. PhasesOK'
  BY <1>1, <1>4, <1>7, <1>10a DEF PhasesOK
<1>12. PendingOK'
  BY <1>1, <1>3, <1>4, <1>5 DEF SessionInv, PendingOK
<1>13. CountsOK'
  <2>1. DOMAIN claims' = {} /\ Len(<<>>) = 0
    BY <1>4, <1>7
  <2> QED BY <1>10a, <2>1 DEF CountsOK
<1>14. ContestOK'
  BY <1>4, <1>7, SMTT(30) DEF ContestOK
<1>15. MatchedIsProven'
  BY <1>1, <1>4 DEF MatchedIsProven, MatchedHasOneWitness, MatchedPartsAgree, Done
<1> QED BY <1>8, <1>9, <1>10, <1>11, <1>12, <1>13, <1>14, <1>15 DEF SessionInv

\* The operations are numbered from 1.
LEMMA Numbered ==
  ASSUME SessionInv
  PROVE  /\ Len(operations) \in Nat /\ DOMAIN operations = 1..Len(operations)
         /\ DOMAIN records = DOMAIN operations
         /\ \A i \in DOMAIN operations : i \in Nat /\ i >= 1 /\ operations[i] \in Operations
BY DEF SessionInv, ReviewTypeOK

\* Claims, and what they have spoiled, are compared with the records.
LEMMA KeptClaims ==
  ASSUME SessionInv, UNCHANGED <<operations, records, claims>>
  PROVE  CountsOK' /\ ContestOK'
<1>1. CountsOK'
  BY DEF SessionInv, CountsOK, Alone
<1>2. ContestOK'
  BY DEF SessionInv, ContestOK
<1> QED BY <1>1, <1>2

\* What MatchedHasOneWitness says of an operation reported as matched.
Witnessed(i) ==
  /\ session.same /\ session.reason = ""
  /\ Cardinality(ClaimsOf(i)) = 1
  /\ \A k, l \in DOMAIN claims :
       (claims[k].index = i /\ l # k) => claims[l].id # claims[k].id \/ claims[k].id = ""

\* The second half of MatchedIsProven, one operation at a time.
LEMMA PartsAgree ==
  MatchedPartsAgree <=>
    \A i \in DOMAIN operations : Done(i) => Agrees(operations[i].corr, operations[i], i, records[i][1])
BY Zenon DEF MatchedPartsAgree, Agrees, StructureAgrees, ArgumentsAgree, ContextAgrees

LEMMA PartsAgreeNext ==
  ASSUME UNCHANGED forms
  PROVE  MatchedPartsAgree' <=>
           \A i \in DOMAIN operations' :
             Done(i)' => Agrees(operations'[i].corr, operations'[i], i, records'[i][1])
<1>1. MatchedPartsAgree' <=>
        (\A i \in DOMAIN operations : Done(i) => Agrees(operations[i].corr, operations[i], i, records[i][1]))'
  BY PartsAgree, PTL
<1>2. \A i : Agrees(operations[i].corr, operations[i], i, records[i][1])'
              <=> Agrees(operations'[i].corr, operations'[i], i, records'[i][1])
  BY Zenon DEF Agrees, StructureAgrees, ArgumentsAgree, ContextAgrees
<1> QED BY <1>1, <1>2, Zenon

\* A step that keeps what was claimed and concluded keeps what was proven.
LEMMA KeptVerdicts ==
  ASSUME MatchedIsProven, UNCHANGED <<operations, records, claims, forms>>,
         session'.same = session.same, session'.reason = session.reason,
         \A i : Done(i)' = Done(i) /\ ClaimsOf(i)' = ClaimsOf(i)
  PROVE  MatchedIsProven'
<1>1. operations' = operations /\ records' = records /\ claims' = claims /\ forms' = forms
  OBVIOUS
<1>2. MatchedHasOneWitness'
  <2>1. ASSUME NEW i \in DOMAIN operations, Done(i), operations[i].corr.source = "matched"
        PROVE  Witnessed(i)'
    <3>1. Witnessed(i)
      BY <2>1, Zenon DEF MatchedIsProven, MatchedHasOneWitness, Witnessed
    <3> QED BY <1>1, <3>1, Zenon DEF Witnessed
  <2> QED BY <1>1, <2>1, ZenonT(60) DEF MatchedHasOneWitness, Witnessed
<1>3. MatchedPartsAgree'
  <2>1. \A i \in DOMAIN operations : Done(i) => Agrees(operations[i].corr, operations[i], i, records[i][1])
    BY PartsAgree, Zenon DEF MatchedIsProven
  <2>2. \A i \in DOMAIN operations' :
          Done(i)' => Agrees(operations'[i].corr, operations'[i], i, records'[i][1])
    BY <1>1, <2>1, Zenon
  <2> QED BY <1>1, <2>2, PartsAgreeNext, Zenon
<1> QED BY <1>2, <1>3, Zenon DEF MatchedIsProven

\* What the invariant says of a session whose records, claims and operations are kept.
LEMMA KeptSession ==
  ASSUME SessionInv, UNCHANGED <<session, operations, records, claims, forms, held>>
  PROVE  SessionInv'
<1>1. ReviewTypeOK' /\ SourcesOK' /\ ReceiptsOK' /\ PhasesOK'
  BY DEF SessionInv, ReviewTypeOK, SourcesOK, ReceiptsOK, PhasesOK
<1>2. PendingOK'
  BY DEF SessionInv, PendingOK
<1>3. \A i : Done(i)' = Done(i) /\ ClaimsOf(i)' = ClaimsOf(i)
  BY DEF Done, ClaimsOf
<1>4. MatchedIsProven'
  BY <1>3, KeptVerdicts DEF SessionInv
<1> QED BY <1>1, <1>2, <1>4, KeptClaims DEF SessionInv

\* The surroundings, and the tickets the tests take.
LEMMA SurroundingsSession ==
  ASSUME SessionInv,
         Cancel \/ Expire \/ EditInput \/ UNCHANGED reviewVars
           \/ \E p \in Samplers, q \in TestQueries : Ask(p, q)
  PROVE  SessionInv'
<1>1. UNCHANGED <<session, operations, records, claims, forms, held>>
  BY DEF Cancel, Expire, EditInput, reviewVars, Ask
<1> QED BY <1>1, KeptSession

\* A step of the session alone, as long as nothing has been compared.
NewPhase ==
  /\ session' \in [phase : {"evidence", "compare"}, reason : Reasons, next : {1}, same : BOOLEAN]
  /\ session'.phase = "compare" /\ session'.same => session'.reason = ""

LEMMA PhaseSession ==
  ASSUME SessionInv, UNCHANGED <<operations, records, claims, forms, held>>,
         NewPhase, Len(operations) = Len(Chains), session.next = 1
  PROVE  SessionInv'
<1>1. session'.next = 1 /\ session'.phase \in {"evidence", "compare"}
  BY DEF NewPhase
<1>2. ReviewTypeOK'
  BY DEF SessionInv, ReviewTypeOK, NewPhase
<1>3. SourcesOK' /\ ReceiptsOK'
  BY DEF SessionInv, SourcesOK, ReceiptsOK
<1>4. PhasesOK'
  BY <1>1 DEF PhasesOK, NewPhase
<1>5. PendingOK'
  BY <1>1 DEF SessionInv, PendingOK
<1>6. CountsOK' /\ ContestOK'
  BY KeptClaims
<1>7. MatchedIsProven'
  <2>1. ASSUME NEW i \in DOMAIN operations PROVE ~Done(i)'
    <3>1. i \in Nat /\ i >= 1
      BY Numbered
    <3>2. ~(i < session'.next)
      BY <1>1, <3>1
    <3> QED BY <3>2 DEF Done
  <2>2. \A i \in DOMAIN operations' : ~Done(i)'
    BY <2>1
  <2> QED BY <2>2 DEF MatchedIsProven, MatchedHasOneWitness, MatchedPartsAgree
<1> QED BY <1>2, <1>3, <1>4, <1>5, <1>6, <1>7 DEF SessionInv

\* The tests begin and end, and a reference of another session is recorded.
LEMMA EvidenceSession ==
  ASSUME SessionInv, BeginEvidence \/ EndEvidence \/ RecordForeign
  PROVE  SessionInv'
<1>1. UNCHANGED <<operations, records, claims, forms, held>>
  BY DEF BeginEvidence, EndEvidence, RecordForeign
<1>2. session.next = 1
  BY DEF SessionInv, PhasesOK, BeginEvidence, EndEvidence, RecordForeign
<1>3. Len(operations) = Len(Chains)
  BY DEF SessionInv, SourcesOK, BeginEvidence, EndEvidence, RecordForeign
<1> DEFINE Sessions == [phase : {"scan", "evidence", "compare", "done"}, reason : Reasons,
                        next : Nat \ {0}, same : BOOLEAN]
           same == unchanged
<1>4. session \in Sessions
  BY DEF SessionInv, ReviewTypeOK
<1>5. same \in BOOLEAN /\ (same => session.reason = "")
  BY DEF unchanged
<1>6. NewPhase
  <2> USE DEF NewPhase
  <2>1. CASE session' = [session EXCEPT !.phase = "evidence"]
    BY <1>2, <1>4, <2>1
  <2>2. CASE session' = [session EXCEPT !.phase = "compare", !.same = FALSE]
    BY <1>2, <1>4, <2>2
  <2>3. CASE session' = [session EXCEPT !.phase = "compare", !.same = unchanged]
    <3>1. session' = [session EXCEPT !.phase = "compare", !.same = same]
      BY <2>3
    <3> HIDE DEF same
    <3> QED BY <1>2, <1>4, <1>5, <3>1
  <2>4. CASE session.phase = "evidence" /\ session' = [session EXCEPT !.reason = "evidence_mismatch"]
    BY <1>2, <1>4, <2>4 DEF Reasons
  <2> QED BY <2>1, <2>2, <2>3, <2>4 DEF BeginEvidence, EndEvidence, RecordForeign
<1> HIDE DEF same
<1> QED BY <1>1, <1>2, <1>3, <1>6, PhaseSession

\* A receipt of a test.
LEMMA TestReceipt ==
  ASSUME NEW q \in TestQueries, NEW form \in FormType
  PROVE  Receipt(q, form) \in Receipts /\ ReceiptOK(Receipt(q, form))
<1> DEFINE sample == Snapshot(form)
           r == Receipt(q, form)
<1>1. sample \in SUBSET Samples /\ \A s, t \in sample : s = t
  BY SnapshotFields
<1>2. q \in TestQueries \cup {"none", "static"} /\ q # "none" /\ q # "static"
  BY OwnersAssumption
<1>3. form.env \in Environments
  BY DEF FormType
<1>4. r = [owner |-> q, env |-> form.env, sample |-> sample]
  BY DEF Receipt
<1> HIDE DEF sample, r
<1>5. r \in Receipts
  BY <1>1, <1>2, <1>3, <1>4 DEF Receipts
<1>6. ReceiptOK(r)
  BY <1>1, <1>2, <1>4 DEF ReceiptOK
<1> QED BY <1>5, <1>6 DEF r

\* A test gets its receipt.
LEMMA SampledSession ==
  ASSUME SessionInv, asking \in [Samplers -> SUBSET TestQueries], NEW p \in Samplers, Sampled(p)
  PROVE  SessionInv'
<1>1. PICK q \in asking[p] : Sampled(p)!(q)
  BY DEF Sampled
<1>2. q \in TestQueries /\ forms[q] \in FormType
  BY DEF SessionInv, ReviewTypeOK
<1>3. UNCHANGED <<session, operations, records, claims, forms>>
  BY <1>1
<1>4. held' = held \/ held' = held \cup {Receipt(q, forms[q])}
  BY <1>1
<1>5. CASE held' = held
  BY <1>3, <1>5, KeptSession
<1>6. CASE held' = held \cup {Receipt(q, forms[q])}
  <2> DEFINE new == Receipt(q, forms[q])
  <2>1. new \in Receipts /\ ReceiptOK(new)
    BY <1>2, TestReceipt
  <2> HIDE DEF new
  <2>2. held' = held \cup {new}
    BY <1>6 DEF new
  <2>3. ReviewTypeOK' /\ ReceiptsOK'
    BY <1>3, <2>1, <2>2 DEF SessionInv, ReviewTypeOK, ReceiptsOK, ReceiptOK
  <2>4. SourcesOK' /\ PhasesOK'
    BY <1>3 DEF SessionInv, SourcesOK, PhasesOK
  <2>5. PendingOK' /\ CountsOK' /\ ContestOK'
    BY <1>3, KeptClaims DEF SessionInv, PendingOK
  <2>6. \A i : Done(i)' = Done(i) /\ ClaimsOf(i)' = ClaimsOf(i)
    BY <1>3 DEF Done, ClaimsOf
  <2>7. MatchedIsProven'
    BY <1>3, <2>6, KeptVerdicts DEF SessionInv
  <2> QED BY <2>3, <2>4, <2>5, <2>7 DEF SessionInv
<1> QED BY <1>4, <1>5, <1>6

\* A test changes a query before anything is compared.
LEMMA EditQuerySession ==
  ASSUME SessionInv, NEW q \in TestQueries, NEW form \in Forms, EditQuery(q, form)
  PROVE  SessionInv'
<1>1. /\ session.phase = "evidence" /\ forms' = [forms EXCEPT ![q] = form]
      /\ UNCHANGED <<session, operations, records, claims, held>>
  BY DEF EditQuery
<1>2. form \in FormType
  BY FormsAssumption DEF FormType, Calls, Configs, Environments
<1>3. ReviewTypeOK'
  BY <1>1, <1>2 DEF SessionInv, ReviewTypeOK
<1>4. SourcesOK' /\ ReceiptsOK' /\ PhasesOK'
  BY <1>1 DEF SessionInv, SourcesOK, ReceiptsOK, PhasesOK
<1>5. PendingOK' /\ CountsOK' /\ ContestOK'
  BY <1>1, KeptClaims DEF SessionInv, PendingOK
<1>6. MatchedIsProven'
  BY <1>1 DEF MatchedIsProven, MatchedHasOneWitness, MatchedPartsAgree, Done
<1> QED BY <1>3, <1>4, <1>5, <1>6 DEF SessionInv

\* The verdicts are final when the last operation has been compared.
LEMMA FinishSession ==
  ASSUME SessionInv, Finish
  PROVE  SessionInv'
<1>1. /\ session.phase = "compare" /\ session' = [session EXCEPT !.phase = "done"]
      /\ UNCHANGED <<operations, records, claims, forms, held>>
  BY DEF Finish
<1> DEFINE Sessions == [phase : {"scan", "evidence", "compare", "done"}, reason : Reasons,
                        next : Nat \ {0}, same : BOOLEAN]
<1>2. session \in Sessions
  BY DEF SessionInv, ReviewTypeOK
<1>3. /\ session' \in Sessions /\ session'.phase = "done" /\ session'.reason = session.reason
      /\ session'.next = session.next /\ session'.same = session.same
  BY <1>1, <1>2
<1> HIDE DEF Sessions
<1>4. ReviewTypeOK'
  BY <1>1, <1>3 DEF SessionInv, ReviewTypeOK, Sessions
<1>5. SourcesOK' /\ ReceiptsOK'
  BY <1>1 DEF SessionInv, SourcesOK, ReceiptsOK
<1>6. PhasesOK'
  BY <1>1, <1>3 DEF SessionInv, PhasesOK
<1>7. PendingOK'
  BY <1>1, <1>3 DEF SessionInv, PendingOK
<1>8. CountsOK' /\ ContestOK'
  BY <1>1, KeptClaims
<1>9. \A i : Done(i)' = Done(i) /\ ClaimsOf(i)' = ClaimsOf(i)
  BY <1>1, <1>3 DEF Done, ClaimsOf
<1>10. MatchedIsProven'
  BY <1>1, <1>3, <1>9, KeptVerdicts DEF SessionInv
<1> QED BY <1>4, <1>5, <1>6, <1>7, <1>8, <1>10 DEF SessionInv

\* Two marks, and the mark of a claim too many.
LEMMA MarksCompose ==
  /\ \A op \in Operations : Marked(op, op)
  /\ \A a, b, c \in Operations : Marked(a, b) /\ Marked(b, c) => Marked(a, c)
  /\ \A a, b \in Operations : Marked(a, b) /\ a.corr.source = "mismatched" => b.corr.source = "mismatched"
<1>1. \A op \in Operations : op.corr \in Corrs
  BY DEF Operations
<1>2. \A c \in Corrs : Spoiled(Spoiled(c)) = Spoiled(c)
  BY DEF Spoiled, Corrs
<1>3. \A op \in Operations : Marked(op, op)
  BY DEF Marked
<1>4. ASSUME NEW a \in Operations, NEW b \in Operations, NEW c \in Operations, Marked(a, b), Marked(b, c)
      PROVE  Marked(a, c)
  BY <1>1, <1>2, <1>4 DEF Marked
<1>5. ASSUME NEW a \in Operations, NEW b \in Operations, Marked(a, b), a.corr.source = "mismatched"
      PROVE  b.corr.source = "mismatched"
  BY <1>1, <1>5, SpoiledFacts DEF Marked
<1> QED BY <1>3, <1>4, <1>5

LEMMA SpoilFacts ==
  ASSUME NEW op \in Operations
  PROVE  /\ Marked(op, [op EXCEPT !.corr.source = "mismatched"])
         /\ [op EXCEPT !.corr.source = "mismatched"].corr = Spoiled(op.corr)
<1> DEFINE corr == Spoiled(op.corr)
           new == [op EXCEPT !.corr.source = "mismatched"]
<1>1. new = [op EXCEPT !.corr = corr]
  BY DEF Spoiled, Operations
<1>2. corr \in Corrs
  BY SpoiledFacts DEF Operations
<1> HIDE DEF corr, new
<1>3. /\ new \in Operations /\ new.static = op.static /\ new.expected = op.expected
      /\ new.operation = op.operation /\ new.corr = corr
  BY <1>1, <1>2 DEF Operations
<1> QED BY <1>3 DEF Marked, new, corr

\* While the tests run, marking operations disturbs nothing else.
LEMMA MarkedSession ==
  ASSUME SessionInv, session.phase = "evidence", UNCHANGED <<session, forms, held>>,
         operations' \in Seq(Operations), Len(operations') = Len(operations),
         \A j \in DOMAIN operations : Marked(operations[j], operations'[j])
  PROVE  /\ SourcesOK' /\ PendingOK' /\ MatchedIsProven'
         /\ DOMAIN operations' = DOMAIN operations
         /\ \A j \in DOMAIN operations :
              operations[j].corr.source = "mismatched" => operations'[j].corr.source = "mismatched"
<1>1. /\ DOMAIN operations' = DOMAIN operations
      /\ \A j \in DOMAIN operations : operations[j] \in Operations /\ operations'[j] \in Operations
  BY Numbered
<1>2. SourcesOK'
  BY <1>1 DEF SessionInv, SourcesOK, Marked
<1>3. PendingOK'
  BY <1>1, SpoiledFacts DEF SessionInv, PendingOK, Marked, Spoiled
<1>4. MatchedIsProven'
  BY DEF MatchedIsProven, MatchedHasOneWitness, MatchedPartsAgree, Done
<1> QED BY <1>1, <1>2, <1>3, <1>4, MarksCompose

\* An altered reference spoils the operation it names.
LEMMA RecordStaleSession ==
  ASSUME SessionInv, NEW i \in DOMAIN operations, RecordStale(i)
  PROVE  SessionInv'
<1> DEFINE new == Mismatch(operations[i], "source_changed")
<1>1. /\ session.phase = "evidence" /\ operations' = [operations EXCEPT ![i] = new]
      /\ UNCHANGED <<session, records, claims, forms, held>>
  BY DEF RecordStale
<1>2. operations[i] \in Operations
  BY Numbered
<1>3. new \in Operations /\ Marked(operations[i], new)
  <2>1. "source_changed" \in Flaws
    BY DEF Flaws
  <2> QED BY <1>2, <2>1, MismatchFacts DEF Marked
<1> HIDE DEF new
<1>4. operations \in Seq(Operations)
  BY DEF SessionInv, ReviewTypeOK
<1>5. /\ operations' \in Seq(Operations) /\ Len(operations') = Len(operations)
      /\ \A j \in DOMAIN operations : Marked(operations[j], operations'[j])
  <2>1. \A j \in DOMAIN operations : operations'[j] = IF j = i THEN new ELSE operations[j]
    BY <1>1, <1>4
  <2>2. operations' \in Seq(Operations) /\ Len(operations') = Len(operations)
    BY <1>1, <1>3, <1>4
  <2> QED BY <1>3, <2>1, <2>2, Numbered, MarksCompose
<1>6. /\ SourcesOK' /\ PendingOK' /\ MatchedIsProven' /\ DOMAIN operations' = DOMAIN operations
      /\ \A j \in DOMAIN operations :
           operations[j].corr.source = "mismatched" => operations'[j].corr.source = "mismatched"
  BY <1>1, <1>5, MarkedSession
<1>7. ReviewTypeOK'
  BY <1>1, <1>5 DEF SessionInv, ReviewTypeOK
<1>8. ReceiptsOK' /\ PhasesOK'
  BY <1>1 DEF SessionInv, ReceiptsOK, PhasesOK
<1>9. CountsOK'
  BY <1>1 DEF SessionInv, CountsOK, Alone
<1>10. ContestOK'
  BY <1>1, <1>6 DEF SessionInv, ContestOK
<1> QED BY <1>6, <1>7, <1>8, <1>9, <1>10 DEF SessionInv

\* An ID in use has a latest claim, and reusing the ID contests that one.
LEMMA PreviousFacts ==
  ASSUME SessionInv, NEW k \in DOMAIN claims, claims[k].id # ""
  PROVE  \E j \in DOMAIN claims :
           /\ claims[j].id = claims[k].id
           /\ \A i : claims[j].index \in Contested(i, claims[k].id)
<1> DEFINE id == claims[k].id
<1>1. PICK j \in DOMAIN claims : claims[j].id = id /\ \A l \in DOMAIN claims : claims[l].id = id => l <= j
  BY DEF SessionInv, ContestOK
<1>2. j \in {c \in Claimants(id) : \A l \in Claimants(id) : l <= c}
  BY <1>1 DEF Claimants
<1>3. claims[j].index \in Previous(id)
  BY <1>2 DEF Previous
<1> QED BY <1>1, <1>3 DEF Contested

\* A claim contests the operation it names only together with an earlier one.
LEMMA ContestedFacts ==
  ASSUME NEW i, NEW id, Contested(i, id) # {}
  PROVE  i \in Contested(i, id)
BY DEF Contested

\* What Record does to the operations.
LEMMA RecordMarks ==
  ASSUME SessionInv, NEW i \in DOMAIN operations, NEW r, NEW id, Record(i, r, id)
  PROVE  /\ operations' \in Seq(Operations) /\ Len(operations') = Len(operations)
         /\ \A j \in DOMAIN operations : Marked(operations[j], operations'[j])
         /\ \A j \in DOMAIN operations :
              j \in Contested(i, id) => operations'[j].corr.source = "mismatched"
<1> DEFINE spoiled(j) == Mismatch(operations[j], "duplicate_identity")
           marked == [j \in DOMAIN operations |->
                        IF j \in Contested(i, id) THEN spoiled(j) ELSE operations[j]]
           twice == [marked[i] EXCEPT !.corr.source = "mismatched"]
<1>1. operations' = marked \/ operations' = [marked EXCEPT ![i] = twice]
  BY DEF Record
<1>2. /\ Len(operations) \in Nat /\ DOMAIN operations = 1..Len(operations)
      /\ \A j \in DOMAIN operations : operations[j] \in Operations
  BY Numbered
<1>3. \A j \in DOMAIN operations :
        /\ spoiled(j) \in Operations /\ Marked(operations[j], spoiled(j))
        /\ spoiled(j).corr.source = "mismatched"
  <2>1. "duplicate_identity" \in Flaws
    BY DEF Flaws
  <2>2. \A op \in Operations : op.corr \in Corrs
    BY DEF Operations
  <2> QED BY <1>2, <2>1, <2>2, MismatchFacts, SpoiledFacts DEF Marked
<1> HIDE DEF spoiled
<1>4. \A j \in DOMAIN operations :
        /\ marked[j] \in Operations /\ Marked(operations[j], marked[j])
        /\ j \in Contested(i, id) => marked[j].corr.source = "mismatched"
  BY <1>2, <1>3, MarksCompose
<1>5. DOMAIN marked = DOMAIN operations /\ marked = [j \in DOMAIN operations |-> marked[j]]
  OBVIOUS
<1> HIDE DEF marked
<1>6. /\ twice \in Operations /\ Marked(operations[i], twice)
      /\ i \in Contested(i, id) => twice.corr.source = "mismatched"
  <2>1. Marked(marked[i], twice) /\ twice \in Operations
    BY <1>4, SpoilFacts DEF Marked
  <2> HIDE DEF twice
  <2> QED BY <1>2, <1>4, <2>1, MarksCompose
<1> HIDE DEF twice
<1>7. /\ DOMAIN operations' = 1..Len(operations)
      /\ operations' = [j \in 1..Len(operations) |-> operations'[j]]
      /\ \A j \in DOMAIN operations : operations'[j] = marked[j] \/ (j = i /\ operations'[j] = twice)
  BY <1>1, <1>2, <1>5
<1>8. \A j \in DOMAIN operations :
        /\ operations'[j] \in Operations /\ Marked(operations[j], operations'[j])
        /\ j \in Contested(i, id) => operations'[j].corr.source = "mismatched"
  BY <1>4, <1>6, <1>7
<1>9. operations' \in Seq(Operations) /\ Len(operations') = Len(operations)
  BY <1>2, <1>7, <1>8
<1> QED BY <1>8, <1>9

\* A claim is counted with its record, and spoils who else has its ID.
LEMMA RecordSession ==
  ASSUME SessionInv, NEW i \in DOMAIN operations, NEW r \in held \cup {NoReceipt}, NEW id \in RecordIDs,
         Record(i, r, id)
  PROVE  SessionInv'
<1>0. PICK n : n = Len(claims)
  OBVIOUS
<1>1. /\ session.phase = "evidence" /\ claims' = Append(claims, Claimed(i, id))
      /\ \/ Len(records[i]) >= 2 /\ records' = records
         \/ ~(Len(records[i]) >= 2) /\ records' = [records EXCEPT ![i] = Append(records[i], r)]
      /\ UNCHANGED <<session, forms, held>>
  BY DEF Record
<1>2. /\ Len(operations) \in Nat /\ DOMAIN operations = 1..Len(operations) /\ DOMAIN records = DOMAIN operations
      /\ i \in Nat /\ records \in Seq(Seq(Receipts)) /\ Len(records) = Len(operations)
  BY Numbered DEF SessionInv, ReviewTypeOK
<1>3. r \in Receipts /\ ReceiptOK(r)
  <2>1. NoReceipt \in Receipts /\ ReceiptOK(NoReceipt)
    BY DEF NoReceipt, Receipts, Environments, ReceiptOK
  <2> QED BY <2>1 DEF SessionInv, ReviewTypeOK, ReceiptsOK
<1>4. /\ n \in Nat /\ DOMAIN claims = 1..n /\ claims' \in Seq([index : Nat, id : RecordIDs])
      /\ Len(claims') = n + 1 /\ DOMAIN claims' = 1..(n + 1)
      /\ \A k \in 1..n : claims'[k] = claims[k]
      /\ claims'[n + 1].index = i /\ claims'[n + 1].id = id
  <2> DEFINE R == [index : Nat, id : RecordIDs]
             c == Claimed(i, id)
  <2>1. c \in R /\ c.index = i /\ c.id = id
    BY <1>2 DEF Claimed
  <2>2. claims \in Seq(R) /\ claims' = Append(claims, c)
    BY <1>1 DEF SessionInv, ReviewTypeOK
  <2> HIDE DEF R, c
  <2>3. /\ n \in Nat /\ DOMAIN claims = 1..n /\ claims' \in Seq(R)
        /\ Len(claims') = n + 1 /\ DOMAIN claims' = 1..(n + 1)
        /\ \A k \in 1..n : claims'[k] = claims[k]
        /\ claims'[n + 1] = c
    BY <1>0, <2>1, <2>2
  <2> QED BY <2>1, <2>3 DEF R
<1>5. /\ records' \in Seq(Seq(Receipts)) /\ Len(records') = Len(records) /\ DOMAIN records' = DOMAIN records
      /\ \A j \in DOMAIN records : j # i => records'[j] = records[j]
      /\ \/ Len(records[i]) >= 2 /\ records'[i] = records[i]
         \/ /\ Len(records[i]) \in {0, 1} /\ records'[i] = Append(records[i], r)
            /\ Len(records'[i]) = Len(records[i]) + 1
  <2>1. /\ records[i] \in Seq(Receipts) /\ Len(records[i]) \in Nat /\ Append(records[i], r) \in Seq(Receipts)
        /\ Len(Append(records[i], r)) = Len(records[i]) + 1
    BY <1>2, <1>3
  <2>2. CASE Len(records[i]) >= 2 /\ records' = records
    BY <1>2, <2>2
  <2>3. CASE ~(Len(records[i]) >= 2) /\ records' = [records EXCEPT ![i] = Append(records[i], r)]
    <3> DEFINE new == Append(records[i], r)
    <3>1. new \in Seq(Receipts) /\ records' = [records EXCEPT ![i] = new] /\ Len(new) = Len(records[i]) + 1
      BY <2>1, <2>3
    <3> HIDE DEF new
    <3>1a. Len(records[i]) \in {0, 1}
      <4>1. \A m \in Nat : ~(m >= 2) => m \in {0, 1}
        OBVIOUS
      <4> QED BY <2>1, <2>3, <4>1
    <3>2. /\ records' \in Seq(Seq(Receipts)) /\ Len(records') = Len(records) /\ DOMAIN records' = DOMAIN records
          /\ \A j \in DOMAIN records : j # i => records'[j] = records[j]
          /\ records'[i] = new
      BY <1>2, <3>1
    <3> QED BY <3>1, <3>1a, <3>2 DEF new
  <2> QED BY <1>1, <2>2, <2>3
<1>6. /\ operations' \in Seq(Operations) /\ Len(operations') = Len(operations)
      /\ \A j \in DOMAIN operations : Marked(operations[j], operations'[j])
      /\ \A j \in DOMAIN operations :
           j \in Contested(i, id) => operations'[j].corr.source = "mismatched"
  BY RecordMarks
<1>7. /\ SourcesOK' /\ PendingOK' /\ MatchedIsProven' /\ DOMAIN operations' = DOMAIN operations
      /\ \A j \in DOMAIN operations :
           operations[j].corr.source = "mismatched" => operations'[j].corr.source = "mismatched"
  BY <1>1, <1>6, MarkedSession
<1>8. ReviewTypeOK'
  BY <1>1, <1>4, <1>5, <1>6 DEF SessionInv, ReviewTypeOK
<1>9. PhasesOK'
  BY <1>1 DEF SessionInv, PhasesOK
<1>10. ReceiptsOK'
  <2>1. \A s \in held' : ReceiptOK(s)
    BY <1>1 DEF SessionInv, ReceiptsOK
  <2>2. ASSUME NEW j \in DOMAIN records, NEW m \in DOMAIN records'[j] PROVE ReceiptOK(records'[j][m])
    <3>1. \A o \in DOMAIN records[j] : ReceiptOK(records[j][o])
      BY DEF SessionInv, ReceiptsOK
    <3>2. CASE records'[j] = records[j]
      BY <2>2, <3>1, <3>2
    <3>3. CASE j = i /\ records'[i] = Append(records[i], r)
      <4>1. /\ Len(records[i]) \in Nat /\ DOMAIN records[i] = 1..Len(records[i])
            /\ records[i] \in Seq(Receipts)
        BY <1>2
      <4>2. m \in 1..(Len(records[i]) + 1)
        BY <1>3, <2>2, <3>3, <4>1
      <4>3. CASE m = Len(records[i]) + 1
        BY <1>3, <3>3, <4>1, <4>3
      <4>4. CASE m \in 1..Len(records[i])
        BY <1>3, <3>1, <3>3, <4>1, <4>4
      <4> QED BY <4>1, <4>2, <4>3, <4>4
    <3> QED BY <1>5, <3>2, <3>3
  <2> QED BY <1>5, <2>1, <2>2 DEF ReceiptsOK, ReceiptOK
<1>11. CountsOK'
  <2>1. SUFFICES ASSUME NEW j \in DOMAIN records
                 PROVE  /\ Len(records'[j]) = 0 => \A k \in DOMAIN claims' : claims'[k].index # j
                        /\ Len(records'[j]) = 1 => \E k \in DOMAIN claims' : Alone(j, k)'
    BY <1>5 DEF CountsOK
  <2>2. /\ Len(records[j]) = 0 => \A k \in DOMAIN claims : claims[k].index # j
        /\ Len(records[j]) = 1 => \E k \in DOMAIN claims : Alone(j, k)
    BY DEF SessionInv, CountsOK
  <2>3. \A k \in DOMAIN claims' : k \in DOMAIN claims \/ k = n + 1
    BY <1>4
  <2>4. /\ n + 1 \in DOMAIN claims' /\ n + 1 \notin DOMAIN claims
        /\ \A k \in DOMAIN claims : k \in DOMAIN claims' /\ claims'[k].index = claims[k].index
    BY <1>4
  <2>5. CASE j # i
    <3>1. records'[j] = records[j] /\ claims'[n + 1].index # j
      BY <1>4, <1>5, <2>5
    <3>2. ASSUME NEW k \in DOMAIN claims, Alone(j, k)
          PROVE  Alone(j, k)'
      BY <2>3, <2>4, <3>1, <3>2 DEF Alone
    <3> QED BY <2>2, <2>3, <2>4, <3>1, <3>2
  <2>6. CASE j = i /\ Len(records[i]) >= 2 /\ records'[i] = records[i]
    BY <2>6, SMTT(120)
  <2>7. CASE j = i /\ Len(records[i]) = 0
    <3>1. Alone(i, n + 1)'
      <4>1. \A l \in DOMAIN claims : claims'[l].index # i /\ l # n + 1
        BY <2>2, <2>4, <2>7
      <4>2. claims'[n + 1].index = i
        BY <1>4
      <4> QED BY <2>3, <4>1, <4>2 DEF Alone
    <3>2. Len(records'[i]) = 1
      BY <1>5, <2>7
    <3> QED BY <2>4, <2>7, <3>1, <3>2
  <2>8. CASE j = i /\ Len(records[i]) = 1
    <3>1. Len(records'[i]) = 2
      <4>1. ~(Len(records[i]) >= 2)
        BY <2>8
      <4>2. Len(records'[i]) = Len(records[i]) + 1
        BY <1>5, <4>1
      <4> QED BY <2>8, <4>2
    <3> QED BY <2>8, <3>1
  <2> QED BY <1>5, <2>5, <2>6, <2>7, <2>8
<1>12. ContestOK'
  <2>1. \A k \in 1..(n + 1) : k \in 1..n \/ k = n + 1
    BY <1>4
  <2>2. \A k \in DOMAIN claims' : claims'[k].index \in DOMAIN operations'
    BY <1>4, <1>7, <2>1 DEF SessionInv, ContestOK
  <2>3. ASSUME NEW k \in 1..n, claims[k].id = id, id # ""
        PROVE  operations'[claims[k].index].corr.source = "mismatched" /\ i \in Contested(i, id)
    <3>1. k \in DOMAIN claims /\ claims[k].id # ""
      BY <1>4, <2>3
    <3>2. PICK j \in DOMAIN claims : claims[j].id = id /\ claims[j].index \in Contested(i, id)
      BY <2>3, <3>1, PreviousFacts
    <3>3. claims[k].index \in DOMAIN operations
      BY <3>1 DEF SessionInv, ContestOK
    <3>4. CASE j = k
      BY <1>6, <3>2, <3>3, <3>4, ContestedFacts
    <3>5. CASE j # k
      <4>1. operations[claims[k].index].corr.source = "mismatched"
        BY <2>3, <3>1, <3>2, <3>5 DEF SessionInv, ContestOK
      <4> QED BY <1>7, <3>2, <3>3, <4>1, ContestedFacts
    <3> QED BY <3>4, <3>5
  <2>4. ASSUME NEW k \in 1..(n + 1), NEW l \in 1..(n + 1),
               k # l, claims'[k].id = claims'[l].id, claims'[k].id # ""
        PROVE  operations'[claims'[k].index].corr.source = "mismatched"
    <3>1. CASE k \in 1..n /\ l \in 1..n
      <4>1. operations[claims[k].index].corr.source = "mismatched" /\ claims[k].index \in DOMAIN operations
        BY <1>4, <2>4, <3>1 DEF SessionInv, ContestOK
      <4> QED BY <1>4, <1>7, <3>1, <4>1
    <3>2. CASE k \in 1..n /\ l = n + 1
      <4>1. claims[k].id = id /\ id # "" /\ claims'[k].index = claims[k].index
        BY <1>4, <2>4, <3>2
      <4> QED BY <2>3, <3>2, <4>1
    <3>3. CASE k = n + 1 /\ l \in 1..n
      <4>1. claims[l].id = id /\ id # "" /\ claims'[k].index = i
        BY <1>4, <2>4, <3>3
      <4> QED BY <1>6, <2>3, <3>3, <4>1
    <3> QED BY <2>1, <2>4, <3>1, <3>2, <3>3
  <2>5. ASSUME NEW k \in 1..(n + 1)
        PROVE  \E j \in 1..(n + 1) :
                 /\ claims'[j].id = claims'[k].id
                 /\ \A l \in 1..(n + 1) : claims'[l].id = claims'[k].id => l <= j
    <3>1. CASE claims'[k].id = id
      <4>1. n + 1 \in 1..(n + 1) /\ \A l \in 1..(n + 1) : l <= n + 1
        BY <1>4
      <4> QED BY <1>4, <3>1, <4>1
    <3>2. CASE claims'[k].id # id
      <4>1. k \in 1..n /\ claims'[k].id = claims[k].id
        BY <1>4, <2>1, <3>2
      <4>2. PICK j \in 1..n : /\ claims[j].id = claims[k].id
                              /\ \A l \in 1..n : claims[l].id = claims[k].id => l <= j
        BY <1>4, <4>1 DEF SessionInv, ContestOK
      <4>3. j \in 1..(n + 1) /\ claims'[j].id = claims'[k].id
        BY <1>4, <4>1, <4>2
      <4>4. \A l \in 1..(n + 1) : claims'[l].id = claims'[k].id => l <= j
        BY <1>4, <2>1, <3>2, <4>1, <4>2
      <4> QED BY <4>3, <4>4
    <3> QED BY <3>1, <3>2
  <2> QED BY <1>4, <2>2, <2>4, <2>5 DEF ContestOK
<1> QED BY <1>7, <1>8, <1>9, <1>10, <1>11, <1>12 DEF SessionInv

\* An operation whose verdict or whose flaws are replaced.
SameSource(op, new) == new.static = op.static /\ new.expected = op.expected /\ new.operation = op.operation

LEMMA VerdictFacts ==
  ASSUME NEW op \in Operations, NEW corr \in Corrs, NEW new, new = [op EXCEPT !.corr = corr]
  PROVE  new \in Operations /\ new.corr = corr /\ SameSource(op, new)
BY DEF Operations, SameSource

LEMMA FlawFacts ==
  ASSUME NEW op \in Operations, NEW why \in Flaws
  PROVE  /\ [op EXCEPT !.missing = @ \cup {why}] \in Operations
         /\ [op EXCEPT !.missing = @ \cup {why}].corr = op.corr
         /\ SameSource(op, [op EXCEPT !.missing = @ \cup {why}])
<1> DEFINE missing == op.missing \cup {why}
           new == [op EXCEPT !.missing = @ \cup {why}]
<1>1. new = [op EXCEPT !.missing = missing] /\ missing \in SUBSET Flaws
  BY DEF Operations
<1> HIDE DEF missing, new
<1>2. new \in Operations /\ new.corr = op.corr /\ SameSource(op, new)
  BY <1>1 DEF Operations, SameSource
<1> QED BY <1>2 DEF new

LEMMA MarkMismatchFacts ==
  ASSUME NEW op \in Operations
  PROVE  MarkMismatch(op) \in Operations /\ MarkMismatch(op).corr = op.corr /\ SameSource(op, MarkMismatch(op))
<1>1. "evidence_mismatch" \in Flaws
  BY DEF Flaws, Reasons
<1>2. MarkMismatch(op) \in {op, [op EXCEPT !.missing = @ \cup {"evidence_mismatch"}]}
  BY DEF MarkMismatch
<1>3. SameSource(op, op)
  BY DEF SameSource
<1> QED BY <1>1, <1>2, <1>3, FlawFacts

\* What the comparison of an operation may conclude.
Concluded(op, new, i, rs) ==
  /\ new \in Operations /\ SameSource(op, new)
  /\ new.corr.source = "matched" => session.same /\ Len(rs) = 1 /\ op.corr.source # "mismatched"
  /\ op.corr.source = "mismatched" => new.corr.source = "mismatched"
  /\ Agrees(new.corr, op, i, rs[1])

\* A sequence that is neither empty nor longer than one.
LEMMA OneRecord ==
  ASSUME NEW S, NEW s \in Seq(S), s # <<>>, ~(Len(s) > 1)
  PROVE  Len(s) = 1 /\ 1 \in DOMAIN s
<1>1. Len(s) # 0
  BY EmptySeq, Zenon
<1>2. Len(s) \in Nat /\ DOMAIN s = 1..Len(s)
  OBVIOUS
<1>3. Len(s) = 1
  BY <1>1, <1>2
<1> QED BY <1>2, <1>3

LEMMA ComparedFacts ==
  ASSUME SessionInv, NEW i \in DOMAIN operations, i >= session.next
  PROVE  Concluded(operations[i], Compared(operations[i], records[i]), i, records[i])
<1> DEFINE op == operations[i]
           rs == records[i]
           r == rs[1]
           new == Compared(op, rs)
<1>1. /\ op \in Operations /\ op.corr \in {Unconfirmed, Spoiled(Unconfirmed)}
      /\ rs \in Seq(Receipts) /\ Len(rs) \in Nat
  BY Numbered DEF SessionInv, PendingOK, ReviewTypeOK, Spoiled
<1>2. /\ op.corr \in Corrs
      /\ \A c \in {op.corr, Spoiled(op.corr)} :
           c.source # "matched" /\ c.structure # "matched" /\ c.arguments # "matched" /\ c.context # "matched"
  <2>1. /\ Unconfirmed.source = "unconfirmed" /\ Unconfirmed.structure = "unconfirmed"
        /\ Unconfirmed.arguments = "unconfirmed" /\ Unconfirmed.context = "unconfirmed"
    BY DEF Unconfirmed
  <2>2. Spoiled(op.corr) = Spoiled(Unconfirmed)
    BY <1>1, SpoiledFacts
  <2> QED BY <1>1, <2>1, <2>2, SpoiledFacts
<1>3. ASSUME new.corr \in {op.corr, Spoiled(op.corr)}, new \in Operations, SameSource(op, new)
      PROVE  Concluded(op, new, i, rs)
  <2> HIDE DEF op, rs, new
  <2> QED BY <1>2, <1>3, SpoiledFacts DEF Concluded, Agrees
<1>4. ASSUME NEW why \in Flaws, new = Mismatch(op, why) PROVE Concluded(op, new, i, rs)
  <2>1. Marked(op, new)
    BY <1>1, <1>4, MismatchFacts
  <2> QED BY <1>3, <2>1 DEF Marked, SameSource
<1>5. CASE ~session.same
  <2>1. Reason \in Flaws
    BY DEF Reason, Flaws, SessionInv, ReviewTypeOK
  <2> QED BY <1>4, <1>5, <2>1 DEF Compared
<1>6. CASE session.same /\ op.corr.source = "mismatched"
  <2>1. new = op
    BY <1>6 DEF Compared
  <2> QED BY <1>1, <1>3, <2>1 DEF SameSource
<1>7. CASE session.same /\ op.corr.source # "mismatched" /\ Len(rs) > 1
  <2>1. "duplicate_identity" \in Flaws
    BY DEF Flaws
  <2> QED BY <1>4, <1>7, <2>1 DEF Compared
<1>8. CASE session.same /\ op.corr.source # "mismatched" /\ rs = <<>>
  <2>1. "evidence_missing" \in Flaws
    BY DEF Flaws
  <2>2. new = [op EXCEPT !.missing = @ \cup {"evidence_missing"}]
    BY <1>8 DEF Compared
  <2>3. new \in Operations /\ new.corr = op.corr /\ SameSource(op, new)
    BY <1>1, <2>1, <2>2, FlawFacts
  <2> QED BY <1>3, <2>3
<1>9. CASE session.same /\ op.corr.source # "mismatched" /\ ~(Len(rs) > 1) /\ rs # <<>>
  <2> DEFINE c == CompareReviewReceipts(op, op.expected, r)
             o == CompareReviewOperation(op, r)
             d == IF op.operation = "" THEN c ELSE [c EXCEPT !.operation = o]
             e == IF d.source = "mismatched" THEN d ELSE [d EXCEPT !.source = "matched"]
  <2>1. Len(rs) = 1 /\ r \in Receipts /\ ReceiptOK(r)
    <3>1. Len(rs) = 1 /\ 1 \in DOMAIN rs
      BY <1>1, <1>9, OneRecord
    <3>2. i \in DOMAIN records
      BY Numbered
    <3> QED BY <1>1, <3>1, <3>2 DEF SessionInv, ReceiptsOK
  <2>2. c \in Corrs /\ Agrees(c, op, i, r)
    <3> HIDE DEF r
    <3> QED BY <2>1, ComparisonAgrees DEF SessionInv
  <2>3. o \in Grades
    BY DEF CompareReviewOperation, Same, Grades
  <2>4. new = [op EXCEPT !.corr = e]
    BY <1>9 DEF Compared
  <2> HIDE DEF op, rs, r, new, c, o
  <2>5. d \in Corrs /\ d.structure = c.structure /\ d.arguments = c.arguments /\ d.context = c.context
    BY <2>2, <2>3 DEF Corrs
  <2> HIDE DEF d
  <2>6. e \in Corrs /\ e.structure = c.structure /\ e.arguments = c.arguments /\ e.context = c.context
    BY <2>5 DEF Corrs, Grades
  <2> HIDE DEF e
  <2>7. Agrees(e, op, i, r)
    BY <2>2, <2>6 DEF Agrees
  <2>8. new \in Operations /\ new.corr = e /\ SameSource(op, new)
    <3>1. op \in Operations /\ e \in Corrs
      BY <1>1, <2>6
    <3> QED BY <2>4, <3>1, VerdictFacts, Zenon
  <2>9. Concluded(op, new, i, rs)
    BY <1>9, <2>1, <2>7, <2>8 DEF Concluded, r
  <2> QED BY <2>9 DEF op, new, rs
<1> QED BY <1>1, <1>5, <1>6, <1>7, <1>8, <1>9

\* Only the operation of one claim can be reported as matched, and only if nobody
\* else has used the ID of that claim.
LEMMA OneWitness ==
  ASSUME SessionInv, NEW i \in DOMAIN operations, Len(records[i]) = 1,
         operations[i].corr.source # "mismatched"
  PROVE  /\ Cardinality(ClaimsOf(i)) = 1
         /\ \A k, l \in DOMAIN claims :
              (claims[k].index = i /\ l # k) => claims[l].id # claims[k].id \/ claims[k].id = ""
<1>1. PICK k \in DOMAIN claims : Alone(i, k)
  BY Numbered DEF SessionInv, CountsOK
<1>2. ClaimsOf(i) = {k}
  BY <1>1 DEF Alone, ClaimsOf
<1>3. Cardinality(ClaimsOf(i)) = 1
  BY <1>2, FS_Singleton
<1>4. \A j, l \in DOMAIN claims :
        (claims[j].index = i /\ l # j) => claims[l].id # claims[j].id \/ claims[j].id = ""
  BY DEF SessionInv, ContestOK
<1> QED BY <1>3, <1>4

\* The next operation is compared.
LEMMA CompareSession ==
  ASSUME SessionInv, Compare
  PROVE  SessionInv'
<1>0. PICK i : i = session.next
  OBVIOUS
<1> DEFINE op == operations[i]
           rs == records[i]
           found == Compared(op, rs)
           new == MarkMismatch(found)
<1>1. /\ session.phase = "compare" /\ i <= Len(operations) /\ operations' = [operations EXCEPT ![i] = new]
      /\ session' = [session EXCEPT !.next = i + 1]
      /\ UNCHANGED <<records, claims, forms, held>>
  BY <1>0 DEF Compare
<1> DEFINE Sessions == [phase : {"scan", "evidence", "compare", "done"}, reason : Reasons,
                        next : Nat \ {0}, same : BOOLEAN]
<1>2. session \in Sessions /\ i \in Nat \ {0} /\ operations \in Seq(Operations)
  BY <1>0 DEF SessionInv, ReviewTypeOK
<1>3. /\ session' \in Sessions /\ session'.phase = "compare" /\ session'.reason = session.reason
      /\ session'.next = i + 1 /\ session'.same = session.same
  BY <1>1, <1>2
<1> HIDE DEF Sessions
<1>4. i \in DOMAIN operations /\ i >= session.next
  BY <1>0, <1>1, <1>2
<1>5. Concluded(op, found, i, rs)
  BY <1>4, ComparedFacts
<1> HIDE DEF op, rs, found
<1>6. new \in Operations /\ new.corr = found.corr /\ SameSource(found, new)
  BY <1>5, MarkMismatchFacts DEF Concluded
<1> HIDE DEF new
<1>7. Concluded(op, new, i, rs)
  BY <1>5, <1>6 DEF Concluded, SameSource
<1>8. /\ operations' \in Seq(Operations) /\ Len(operations') = Len(operations)
      /\ DOMAIN operations' = DOMAIN operations
      /\ operations'[i] = new /\ \A j \in DOMAIN operations : j # i => operations'[j] = operations[j]
  BY <1>1, <1>2, <1>4, <1>6
<1>9. ReviewTypeOK'
  BY <1>1, <1>3, <1>8 DEF SessionInv, ReviewTypeOK, Sessions
<1>10. SourcesOK'
  BY <1>1, <1>3, <1>7, <1>8 DEF SessionInv, SourcesOK, Concluded, SameSource, op
<1>11. ReceiptsOK'
  BY <1>1 DEF SessionInv, ReceiptsOK
<1>12. PhasesOK'
  BY <1>1, <1>3 DEF SessionInv, PhasesOK
<1>13. PendingOK'
  <2>1. ASSUME NEW j \in DOMAIN operations, j >= i + 1
        PROVE  operations'[j] = operations[j] /\ j >= session.next
    BY <1>0, <1>2, <1>8, <2>1, Numbered
  <2> QED BY <1>3, <1>8, <2>1 DEF SessionInv, PendingOK
<1>14. CountsOK'
  BY <1>1 DEF SessionInv, CountsOK, Alone
<1>15. ContestOK'
  <2>1. \A j \in DOMAIN operations :
          operations[j].corr.source = "mismatched" => operations'[j].corr.source = "mismatched"
    BY <1>7, <1>8 DEF Concluded, op
  <2> QED BY <1>1, <1>8, <2>1 DEF SessionInv, ContestOK
<1>16. \A j \in DOMAIN operations : Done(j)' => j = i \/ (j # i /\ Done(j))
  BY <1>0, <1>1, <1>2, <1>3, Numbered DEF Done
<1>17. MatchedHasOneWitness'
  <2>1. SUFFICES ASSUME NEW j \in DOMAIN operations', Done(j)', operations'[j].corr.source = "matched"
                 PROVE  Witnessed(j)'
    BY DEF MatchedHasOneWitness, Witnessed
  <2>2. /\ j \in DOMAIN operations
        /\ Witnessed(j) => Witnessed(j)'
    <3>1. session'.same = session.same /\ session'.reason = session.reason
      BY <1>3
    <3>2. ClaimsOf(j)' = ClaimsOf(j)
      BY <1>1 DEF ClaimsOf
    <3>3. claims' = claims /\ DOMAIN operations' = DOMAIN operations
      BY <1>1, <1>8
    <3> QED BY <3>1, <3>2, <3>3 DEF Witnessed
  <2>3. CASE j = i
    <3>1. session.same /\ Len(records[i]) = 1 /\ operations[i].corr.source # "mismatched"
      BY <1>7, <1>8, <2>1, <2>3 DEF Concluded, op, rs
    <3>2. session.reason = ""
      BY <1>1, <3>1 DEF SessionInv, PhasesOK
    <3> QED BY <1>4, <2>2, <2>3, <3>1, <3>2, OneWitness DEF Witnessed
  <2>4. CASE j # i /\ Done(j)
    <3>1. operations[j].corr.source = "matched"
      BY <1>8, <2>1, <2>4
    <3>2. MatchedHasOneWitness
      BY DEF SessionInv, MatchedIsProven
    <3>3. Witnessed(j)
      BY <2>2, <2>4, <3>1, <3>2 DEF MatchedHasOneWitness, Witnessed
    <3> QED BY <2>2, <3>3
  <2> QED BY <1>16, <2>1, <2>2, <2>3, <2>4
<1>18. MatchedPartsAgree'
  <2>1. SUFFICES ASSUME NEW j \in DOMAIN operations, Done(j)'
                 PROVE  Agrees(operations'[j].corr, operations'[j], j, records[j][1])
    BY <1>1, <1>8, PartsAgreeNext, Zenon
  <2>2. CASE j = i
    <3>1. Agrees(new.corr, op, i, rs[1]) /\ new.static = op.static
      BY <1>0, <1>7, <2>1, <2>2, SMTT(30) DEF Concluded, SameSource
    <3>2. operations'[j] = new
      BY <1>8, <2>2
    <3> QED BY <2>2, <3>1, <3>2, Zenon DEF Agrees, ContextAgrees, rs
  <2>3. CASE j # i /\ Done(j)
    <3>1. MatchedPartsAgree
      BY DEF SessionInv, MatchedIsProven
    <3>2. operations'[j] = operations[j]
      BY <1>8, <2>1, <2>3
    <3> QED BY <2>1, <2>3, <3>1, <3>2, PartsAgree, Zenon
  <2> QED BY <1>16, <2>1, <2>2, <2>3, Zenon
<1> QED BY <1>9, <1>10, <1>11, <1>12, <1>13, <1>14, <1>15, <1>17, <1>18 DEF SessionInv, MatchedIsProven

\* At first nothing is reviewed.
LEMMA SessionInit ==
  ASSUME ReviewInit
  PROVE  SessionInv
<1>1. operations = <<>> /\ records = <<>> /\ claims = <<>> /\ held = {}
  BY DEF ReviewInit
<1> DEFINE scan == "scan"
           yes == TRUE
<1>1a. PICK why : why \in Reasons /\ session = [phase |-> scan, reason |-> why, next |-> 1, same |-> yes]
  BY DEF ReviewInit, Reasons
<1>2. forms \in [TestQueries -> FormType]
  BY BudgetInit DEF BudgetInv
<1>3. DOMAIN operations = {} /\ DOMAIN records = {} /\ DOMAIN claims = {} /\ Len(operations) = 0 /\ Len(records) = 0
  BY <1>1
<1>4. ReviewTypeOK
  <2>1. session \in [phase : {"scan", "evidence", "compare", "done"}, reason : Reasons,
                     next : Nat \ {0}, same : BOOLEAN]
    <3>1. yes \in BOOLEAN /\ scan \in {"scan", "evidence", "compare", "done"}
      OBVIOUS
    <3>2. 1 \in Nat \ {0}
      OBVIOUS
    <3> HIDE DEF scan, yes
    <3> QED BY <1>1a, <3>1, <3>2
  <2>2. operations \in Seq(Operations) /\ records \in Seq(Seq(Receipts))
        /\ claims \in Seq([index : Nat, id : RecordIDs])
    BY <1>1
  <2> QED BY <1>1, <1>2, <1>3, <2>1, <2>2 DEF ReviewTypeOK
<1>5. Len(Chains) \in Nat
  BY ChainsAssumption
<1>6. session.phase = "scan" /\ session.next = 1
  <2> HIDE DEF scan, yes
  <2>1. session.phase = scan /\ session.next = 1
    BY <1>1a
  <2> QED BY <2>1 DEF scan
<1>7. SourcesOK /\ ReceiptsOK /\ PhasesOK /\ PendingOK /\ CountsOK /\ ContestOK
  BY <1>1, <1>3, <1>5, <1>6 DEF SourcesOK, ReceiptsOK, PhasesOK, PendingOK, CountsOK, ContestOK
<1> QED BY <1>4, <1>6, <1>7, NothingDone DEF SessionInv

(***************************************************************************)
(* The theorems.                                                           *)
(***************************************************************************)
\* Every step keeps the budget and the session.
LEMMA ReviewStep ==
  ASSUME BudgetInv, SessionInv, [ReviewNext]_reviewVars
  PROVE  BudgetInv' /\ SessionInv'
<1>1. BudgetInv'
  <2>1. Len(operations) \in Nat
    BY Numbered
  <2> QED BY <2>1, ScanBudget, AskBudget, SampledBudget, OtherBudget
<1>2. SessionInv'
  <2>1. CASE Scan
    BY <2>1, ScanSession
  <2>2. CASE BeginEvidence \/ EndEvidence \/ RecordForeign
    BY <2>2, EvidenceSession
  <2>3. CASE Compare
    BY <2>3, CompareSession
  <2>4. CASE Finish
    BY <2>4, FinishSession
  <2>5. ASSUME NEW p \in Samplers, Sampled(p) PROVE SessionInv'
    BY <2>5, SampledSession DEF BudgetInv
  <2>6. CASE Cancel \/ Expire \/ EditInput \/ UNCHANGED reviewVars
               \/ \E p \in Samplers, q \in TestQueries : Ask(p, q)
    BY <2>6, SurroundingsSession
  <2>7. ASSUME NEW i \in DOMAIN operations, NEW r \in held \cup {NoReceipt}, NEW id \in RecordIDs,
               Record(i, r, id)
        PROVE  SessionInv'
    BY <2>7, RecordSession
  <2>8. ASSUME NEW i \in DOMAIN operations, RecordStale(i) PROVE SessionInv'
    BY <2>8, RecordStaleSession
  <2>9. ASSUME NEW q \in TestQueries, NEW form \in Forms, EditQuery(q, form) PROVE SessionInv'
    BY <2>9, EditQuerySession
  <2> QED BY <2>1, <2>2, <2>3, <2>4, <2>5, <2>6, <2>7, <2>8, <2>9 DEF ReviewNext
<1> QED BY <1>1, <1>2

LEMMA ReviewInvariant == ReviewSpec => [](BudgetInv /\ SessionInv)
<1>1. ReviewInit => BudgetInv /\ SessionInv
  BY BudgetInit, SessionInit
<1>2. BudgetInv /\ SessionInv /\ [ReviewNext]_reviewVars => BudgetInv' /\ SessionInv'
  BY ReviewStep
<1> QED BY <1>1, <1>2, PTL DEF ReviewSpec

\* However many goroutines sample at once, and whatever the budget, a session hands out
\* no more receipts and no more bytes than it (ReviewReceipt and its two counters).
THEOREM ReceiptBudgetHolds == ReviewSpec => []ReceiptBudget
<1>1. BudgetInv => ReceiptBudget
  <2> SUFFICES ASSUME BudgetInv PROVE ReceiptBudget
    OBVIOUS
  <2>1. Cardinality(Busy) \in Nat
    BY FS_Subset, FS_CardinalityType, BudgetAssumption DEF Busy
  <2> QED BY <2>1, BudgetAssumption DEF BudgetInv, ReceiptBudget
<1> QED BY <1>1, ReviewInvariant, PTL

\* Whatever the source and the tests, an operation whose source is reported as matched
\* was claimed exactly once, under an ID nobody else claimed and on unchanged inputs, and
\* every part reported as matched agrees with the source and with the query as it was when
\* the tests returned (Record, finish, compareReviewReceipts and current).
THEOREM MatchedIsProvenHolds == ReviewSpec => []MatchedIsProven
<1>1. SessionInv => MatchedIsProven
  BY DEF SessionInv
<1> QED BY <1>1, ReviewInvariant, PTL

-----------------------------------------------------------------------------
(* PlanBinding                                                             *)

(***************************************************************************)
(* Types.                                                                  *)
(***************************************************************************)
Labels == {"idle", "refused", "rebuild", "request", "asking", "check", "bind", "dispatch", "done"}
SentCalls == [attempt : Attempts, handle : Handles, material : Materials, at : Times,
          query : Materials, approval : Expiries, canceled : BOOLEAN,
          decision : Decisions \cup {None}]

BindingTypeOK ==
  /\ now \in Times /\ canceled \in BOOLEAN
  /\ query \in Materials /\ approval \in Expiries
  /\ handle \in [Handles -> HandleStates \cup {None}]
  /\ used \in [Handles -> BOOLEAN]
  /\ pc \in [Attempts -> Labels]
  /\ plan \in [Attempts -> Plans]
  /\ asked \subseteq Attempts

(***************************************************************************)
(* The inductive invariant: what an attempt knows at each of its labels.   *)
(***************************************************************************)
HasHandle(a) == plan[a].handle \in Handles
Sealed == {"request", "asking", "check", "bind", "dispatch", "done"}

\* A claimed handle is marked as used and stays what Validate returned.
ClaimOK(a) ==
  /\ HasHandle(a) => used[plan[a].handle] /\ handle[plan[a].handle] \in HandleStates
                   /\ handle[plan[a].handle] # None
  /\ pc[a] \in Sealed \cup {"rebuild"} => HasHandle(a)
  /\ pc[a] = "idle" => ~HasHandle(a)

\* A sealed plan is the plan that was validated.
SealOK(a) ==
  pc[a] \in Sealed =>
    /\ plan[a].material = handle[plan[a].handle].material
    /\ plan[a].material \in Materials \ Blocked
    /\ plan[a].expires <= handle[plan[a].handle].expires

\* The provider was asked by an attempt that had sealed its plan, and it was
\* asked for whatever is at high risk and beyond the request.
AskOK(a) ==
  /\ a \in asked => HasHandle(a) /\ pc[a] \notin {"idle", "rebuild", "request"}
  /\ pc[a] \in {"asking", "check"} => a \in asked
  /\ pc[a] \in {"bind", "dispatch"} /\ plan[a].material \in Risky => a \in asked

AttemptsOK == \A a \in Attempts : ClaimOK(a) /\ SealOK(a) /\ AskOK(a)
ClaimedOnce ==
  \A a, b \in Attempts : HasHandle(a) /\ plan[a].handle = plan[b].handle => a = b

\* A call of the executor belongs to an attempt that is over.
CallsOK ==
  \A d \in dispatched :
    /\ d \in SentCalls
    /\ pc[d.attempt] = "done" /\ d.handle = plan[d.attempt].handle
    /\ \A e \in dispatched : e.attempt = d.attempt => e = d

BindingInv == BindingTypeOK /\ AttemptsOK /\ ClaimedOnce /\ CallsOK /\ DispatchIsCovered

(***************************************************************************)
(* The proof, one step per action.                                         *)
(***************************************************************************)
\* Earlier is the smaller of two deadlines.
LEMMA EarlierFacts ==
  ASSUME NEW s \in Expiries, NEW t \in Expiries
  PROVE  /\ Earlier(s, t) \in Expiries
         /\ Earlier(s, t) <= s /\ Earlier(s, t) <= t
         /\ \A n \in Times : Earlier(s, t) > n <=> s > n /\ t > n
  BY TimeAssumption DEF Earlier, Expiries, Times

\* Steps of the application and of Validate leave attempts, calls and every
\* validated handle alone.
LEMMA ApplicationStep ==
  ASSUME BindingInv, Tick \/ Mutate \/ CancelContext \/ (\E h \in Handles : Validate(h))
         \/ UNCHANGED bindingVars
  PROVE  BindingInv'
<1> USE DEF BindingInv, queryVars
<1>1. UNCHANGED <<used, pc, plan, asked, dispatched>>
  BY DEF Tick, Mutate, CancelContext, Validate, bindingVars
<1>2. \A h \in Handles : handle[h] # None => handle'[h] = handle[h]
  BY DEF Tick, Mutate, CancelContext, Validate, BindingTypeOK, bindingVars
<1>3. BindingTypeOK'
  <2>1. CASE Tick
    BY <2>1, TimeAssumption DEF Tick, BindingTypeOK, Times
  <2>2. CASE Mutate \/ CancelContext \/ UNCHANGED bindingVars
    BY <2>2 DEF Mutate, CancelContext, BindingTypeOK, bindingVars
  <2>3. ASSUME NEW h \in Handles, Validate(h) PROVE BindingTypeOK'
    <3>1. PICK expiry \in Expiries :
            handle' = [handle EXCEPT ![h] =
                         [material |-> query, expires |-> Earlier(expiry, approval)]]
      BY <2>3 DEF Validate
    <3>2. Earlier(expiry, approval) \in Expiries
      BY EarlierFacts DEF BindingTypeOK
    <3>3. handle' \in [Handles -> HandleStates \cup {None}]
      BY <3>1, <3>2 DEF BindingTypeOK, HandleStates
    <3> QED BY <2>3, <3>3 DEF Validate, BindingTypeOK
  <2> QED BY <2>1, <2>2, <2>3
<1>4. \A a \in Attempts : HasHandle(a) => handle'[plan[a].handle] = handle[plan[a].handle]
  BY <1>2 DEF AttemptsOK, ClaimOK, HasHandle
<1>5. AttemptsOK'
  BY <1>1, <1>4 DEF AttemptsOK, ClaimOK, SealOK, AskOK, HasHandle, Sealed
<1>6. ClaimedOnce'
  BY <1>1 DEF ClaimedOnce, HasHandle
<1>7. CallsOK'
  BY <1>1 DEF CallsOK
<1>8. \A d \in dispatched : handle'[d.handle] = handle[d.handle]
  BY <1>4 DEF CallsOK, SentCalls, HasHandle
<1>9. DispatchIsCovered'
  BY <1>1, <1>8 DEF DispatchIsCovered, RunsWhatWasValidated, HighRiskIsAuthorized
<1> QED BY <1>3, <1>5, <1>6, <1>7, <1>9

\* A step of an attempt that calls no executor and keeps its claim: what it
\* must show is the part of the invariant about itself.
LEMMA AttemptStep ==
  ASSUME BindingInv, NEW a \in Attempts, NEW label \in Labels, NEW p \in Plans,
         pc[a] # "done", label # "done",
         Go(a, label), plan' = [plan EXCEPT ![a] = p], p.handle = plan[a].handle,
         asked' \in {asked, asked \cup {a}},
         UNCHANGED <<queryVars, handle, used, dispatched>>,
         (ClaimOK(a) /\ SealOK(a) /\ AskOK(a))'
  PROVE  BindingInv'
<1> USE DEF BindingInv, queryVars
<1>1. BindingTypeOK'
  BY DEF BindingTypeOK, Go
<1>2. \A b \in Attempts : b # a => pc'[b] = pc[b] /\ plan'[b] = plan[b] /\ (b \in asked' <=> b \in asked)
  BY DEF BindingTypeOK, Go
<1>3. plan'[a] = p /\ \A b \in Attempts : plan'[b].handle = plan[b].handle
  BY <1>2 DEF BindingTypeOK
<1>4. AttemptsOK'
  <2> SUFFICES ASSUME NEW b \in Attempts, b # a PROVE (ClaimOK(b) /\ SealOK(b) /\ AskOK(b))'
    BY DEF AttemptsOK
  <2> QED BY <1>2 DEF AttemptsOK, ClaimOK, SealOK, AskOK, HasHandle
<1>5. ClaimedOnce'
  BY <1>3 DEF ClaimedOnce, HasHandle
<1>6. CallsOK'
  <2>1. \A d \in dispatched : d.attempt \in Attempts /\ d.attempt # a
    BY DEF CallsOK, SentCalls
  <2> QED BY <1>2, <2>1 DEF CallsOK
<1>7. DispatchIsCovered'
  BY DEF DispatchIsCovered, RunsWhatWasValidated, HighRiskIsAuthorized
<1> QED BY <1>1, <1>4, <1>5, <1>6, <1>7

\* Refusing keeps the claim, so the handle stays consumed.
LEMMA RefuseStep ==
  ASSUME BindingInv, NEW a \in Attempts, Refuse(a), pc[a] # "done",
         UNCHANGED <<queryVars, handle, used, asked, dispatched>>
  PROVE  BindingInv'
<1>1. plan' = [plan EXCEPT ![a] = plan[a]] /\ plan[a] \in Plans /\ plan'[a] = plan[a]
  BY DEF BindingInv, BindingTypeOK, Refuse
<1>2. Go(a, "refused") /\ pc'[a] = "refused"
  BY DEF Refuse, Go, BindingInv, BindingTypeOK
<1>3. (ClaimOK(a) /\ SealOK(a) /\ AskOK(a))'
  BY <1>1, <1>2 DEF BindingInv, AttemptsOK, ClaimOK, SealOK, AskOK, HasHandle, Sealed
<1> QED BY <1>1, <1>2, <1>3, AttemptStep DEF Labels

\* A claim takes a handle nobody took, and marks it in the same step.
LEMMA ClaimStep ==
  ASSUME BindingInv, NEW a \in Attempts, NEW h \in Handles, Claim(a, h)
  PROVE  BindingInv'
<1> USE DEF BindingInv, queryVars
<1>1. CASE used[h]
  <2>1. used' = used /\ Refuse(a) /\ pc[a] # "done"
    BY <1>1 DEF Claim, BindingTypeOK
  <2> QED BY <2>1, RefuseStep DEF Claim
<1>2. CASE ~used[h]
  <2>1. /\ Go(a, "rebuild") /\ plan' = [plan EXCEPT ![a].handle = h]
        /\ used' = [used EXCEPT ![h] = TRUE] /\ pc[a] = "idle" /\ handle[h] # None
        /\ UNCHANGED <<now, query, approval, canceled, handle, asked, dispatched>>
    BY <1>2 DEF Claim
  <2>2. plan'[a] = [plan[a] EXCEPT !.handle = h] /\ plan'[a] \in Plans /\ plan'[a].handle = h
        /\ pc'[a] = "rebuild"
    BY <2>1 DEF BindingTypeOK, Plans, Go
  <2>3. \A b \in Attempts : b # a => pc'[b] = pc[b] /\ plan'[b] = plan[b]
    BY <2>1 DEF BindingTypeOK, Go
  <2>4. \A b \in Attempts : HasHandle(b) => plan[b].handle # h
    BY <1>2 DEF AttemptsOK, ClaimOK, HasHandle
  <2>5. BindingTypeOK'
    BY <2>1, <2>2 DEF BindingTypeOK, Go, Labels
  <2>6. (ClaimOK(a) /\ SealOK(a) /\ AskOK(a))'
    BY <2>1, <2>2 DEF AttemptsOK, ClaimOK, SealOK, AskOK, HasHandle, Sealed, BindingTypeOK
  <2>7. ASSUME NEW b \in Attempts, b # a PROVE (ClaimOK(b) /\ SealOK(b) /\ AskOK(b))'
    <3>1. ClaimOK(b)'
      BY <2>1, <2>3, <2>7 DEF AttemptsOK, ClaimOK, HasHandle, BindingTypeOK
    <3> QED BY <2>1, <2>3, <2>7, <3>1 DEF AttemptsOK, SealOK, AskOK, HasHandle
  <2>8. ClaimedOnce'
    <3>1. \A b, c \in Attempts : HasHandle(b) /\ plan[b].handle = plan[c].handle => b = c
      BY Zenon DEF ClaimedOnce
    <3>2. \A b \in Attempts : b # a => (HasHandle(b)' <=> HasHandle(b)) /\ plan'[b].handle = plan[b].handle
      BY <2>3 DEF HasHandle
    <3>3. plan'[a].handle = h /\ h \in Handles
      BY <2>2
    <3>4. \A b \in Attempts : plan[b].handle # h
      BY <2>4, <3>3 DEF HasHandle
    <3>5. \A b, c \in Attempts : HasHandle(b)' /\ plan'[b].handle = plan'[c].handle => b = c
      BY <3>1, <3>2, <3>3, <3>4
    <3> QED BY <3>5 DEF ClaimedOnce, HasHandle
  <2>9. CallsOK'
    <3>1. \A d \in dispatched : d.attempt \in Attempts /\ d.attempt # a
      BY <2>1 DEF CallsOK, SentCalls
    <3> QED BY <2>1, <2>3, <3>1 DEF CallsOK
  <2>10. DispatchIsCovered'
    BY <2>1 DEF DispatchIsCovered, RunsWhatWasValidated, HighRiskIsAuthorized
  <2> QED BY <2>5, <2>6, <2>7, <2>8, <2>9, <2>10 DEF AttemptsOK
<1> QED BY <1>1, <1>2

\* Rebuilding seals the plan only when it is what was validated.
LEMMA RebuildStep ==
  ASSUME BindingInv, NEW a \in Attempts, Rebuild(a)
  PROVE  BindingInv'
<1> DEFINE h == plan[a].handle
           label == IF query \in Risky THEN "request" ELSE "bind"
           p == [plan[a] EXCEPT !.material = query, !.approval = approval,
                                !.expires = Earlier(handle[h].expires, approval)]
<1>1. CASE Refuse(a)
  BY <1>1, RefuseStep DEF Rebuild, queryVars
<1>2. CASE Rebuilds(h) /\ ~Refuse(a)
  <2>1. /\ Go(a, label) /\ plan' = [plan EXCEPT ![a] = p]
        /\ pc[a] = "rebuild" /\ Rebuilds(h)
        /\ UNCHANGED <<queryVars, handle, used, asked, dispatched>>
    BY <1>2 DEF Rebuild, BindingInv, BindingTypeOK
  <2>2. h \in Handles /\ handle[h] \in HandleStates
    BY <2>1 DEF BindingInv, AttemptsOK, ClaimOK, HasHandle
  <2>3. Earlier(handle[h].expires, approval) \in Expiries
        /\ Earlier(handle[h].expires, approval) <= handle[h].expires
    BY <2>2, EarlierFacts DEF BindingInv, BindingTypeOK, HandleStates
  <2>4. /\ p \in Plans /\ p.handle = plan[a].handle /\ p.material = query
        /\ p.expires = Earlier(handle[h].expires, approval)
    BY <2>3 DEF Plans, BindingInv, BindingTypeOK
  <2>5. plan'[a] = p /\ pc'[a] = label /\ label \in {"request", "bind"} /\ label \in Labels
    BY <2>1, <2>4 DEF Go, BindingInv, BindingTypeOK, Labels
  <2>6. ClaimOK(a)'
    BY <2>1, <2>2, <2>4, <2>5 DEF BindingInv, AttemptsOK, ClaimOK, HasHandle, Sealed
  <2>7. SealOK(a)'
    BY <2>1, <2>3, <2>4, <2>5 DEF BindingInv, BindingTypeOK, SealOK, Rebuilds
  <2>8. AskOK(a)'
    BY <2>1, <2>4, <2>5 DEF BindingInv, AttemptsOK, AskOK
  <2> HIDE DEF h, label, p
  <2> QED BY <2>1, <2>4, <2>5, <2>6, <2>7, <2>8, AttemptStep
<1> QED BY <1>1, <1>2 DEF Rebuild

\* Asking the provider records that this attempt asked.
LEMMA RequestStep ==
  ASSUME BindingInv, NEW a \in Attempts, Request(a)
  PROVE  BindingInv'
<1> DEFINE h == plan[a].handle
           ceiling == Earlier(handle[h].expires, plan[a].approval)
           p == [plan[a] EXCEPT !.ceiling = ceiling]
<1>1. CASE Refuse(a) /\ UNCHANGED asked
  BY <1>1, RefuseStep DEF Request, queryVars
<1>2. CASE /\ Go(a, "asking") /\ plan' = [plan EXCEPT ![a].ceiling = ceiling]
           /\ asked' = asked \cup {a}
  <2>1. /\ plan' = [plan EXCEPT ![a] = p] /\ pc[a] = "request"
        /\ UNCHANGED <<queryVars, handle, used, dispatched>>
    BY <1>2 DEF Request, BindingInv, BindingTypeOK
  <2>2. h \in Handles /\ handle[h] \in HandleStates
    BY <2>1 DEF BindingInv, AttemptsOK, ClaimOK, HasHandle, Sealed
  <2>3. ceiling \in Expiries
    BY <2>2, EarlierFacts DEF BindingInv, BindingTypeOK, HandleStates, Plans
  <2>4. /\ p \in Plans /\ p.handle = plan[a].handle /\ p.material = plan[a].material
        /\ p.expires = plan[a].expires
    BY <2>3 DEF Plans, BindingInv, BindingTypeOK
  <2>5. plan'[a] = p /\ pc'[a] = "asking" /\ a \in asked'
    BY <1>2, <2>1, <2>4 DEF Go, BindingInv, BindingTypeOK
  <2>6. (ClaimOK(a) /\ SealOK(a) /\ AskOK(a))'
    BY <2>1, <2>2, <2>4, <2>5 DEF BindingInv, AttemptsOK, ClaimOK, SealOK, AskOK, HasHandle, Sealed
  <2> HIDE DEF h, ceiling, p
  <2> QED BY <1>2, <2>1, <2>4, <2>6, AttemptStep DEF Labels
<1> QED BY <1>1, <1>2 DEF Request

\* The answer changes nothing but the decision the attempt holds.
LEMMA AnswerStep ==
  ASSUME BindingInv, NEW a \in Attempts, Answer(a)
  PROVE  BindingInv'
<1>1. CASE Refuse(a)
  BY <1>1, RefuseStep DEF Answer, queryVars
<1>2. CASE Go(a, "check") /\ ~Refuse(a)
  <2>1. PICK d \in Decisions : plan' = [plan EXCEPT ![a].decision = d]
    BY <1>2 DEF Answer
  <2> DEFINE p == [plan[a] EXCEPT !.decision = d]
  <2>2. /\ plan' = [plan EXCEPT ![a] = p] /\ pc[a] = "asking"
        /\ UNCHANGED <<queryVars, handle, used, asked, dispatched>>
    BY <1>2, <2>1 DEF Answer, BindingInv, BindingTypeOK
  <2>3. /\ p \in Plans /\ p.handle = plan[a].handle /\ p.material = plan[a].material
        /\ p.expires = plan[a].expires
    BY DEF Plans, BindingInv, BindingTypeOK
  <2>4. plan'[a] = p /\ pc'[a] = "check"
    BY <1>2, <2>2, <2>3 DEF Go, BindingInv, BindingTypeOK
  <2>5. (ClaimOK(a) /\ SealOK(a) /\ AskOK(a))'
    BY <2>2, <2>3, <2>4 DEF BindingInv, AttemptsOK, ClaimOK, SealOK, AskOK, HasHandle, Sealed
  <2> HIDE DEF p
  <2> QED BY <1>2, <2>2, <2>3, <2>5, AttemptStep DEF Labels
<1> QED BY <1>1, <1>2 DEF Answer

\* The two gates between the answer and the executor change only the label.
LEMMA GateStep ==
  ASSUME BindingInv, NEW a \in Attempts, Check(a) \/ Bind(a)
  PROVE  BindingInv'
<1>0. /\ UNCHANGED <<queryVars, handle, used, asked, dispatched>>
      /\ pc[a] \in {"check", "bind"}
  BY DEF Check, Bind
<1>1. CASE Refuse(a)
  BY <1>0, <1>1, RefuseStep
<1>2. ASSUME NEW label \in {"bind", "dispatch"}, Go(a, label), UNCHANGED plan
      PROVE  BindingInv'
  <2>1. plan' = [plan EXCEPT ![a] = plan[a]] /\ plan[a] \in Plans /\ plan'[a] = plan[a]
        /\ pc'[a] = label
    BY <1>2 DEF BindingInv, BindingTypeOK, Go
  <2>2. (ClaimOK(a) /\ SealOK(a) /\ AskOK(a))'
    BY <1>0, <2>1 DEF BindingInv, AttemptsOK, ClaimOK, SealOK, AskOK, HasHandle, Sealed
  <2> QED BY <1>0, <1>2, <2>1, <2>2, AttemptStep, ZenonT(60) DEF Labels
<1> QED BY <1>1, <1>2 DEF Check, Bind

\* What reaches the executor is the sealed plan, with the authorization checked
\* in this very step.
LEMMA DispatchStep ==
  ASSUME BindingInv, NEW a \in Attempts, Dispatch(a)
  PROVE  BindingInv'
<1> DEFINE p == plan[a]
           h == plan[a].handle
<1>1. CASE Refuse(a) /\ UNCHANGED dispatched
  BY <1>1, RefuseStep DEF Dispatch, queryVars
<1>2. CASE /\ p.material \in Risky => Authorized(a)
           /\ Go(a, "done") /\ dispatched' = dispatched \cup {Sent(a)}
           /\ UNCHANGED plan
  <2>1. pc[a] = "dispatch" /\ UNCHANGED <<now, query, approval, canceled, handle, used, asked, plan>>
    BY <1>2 DEF Dispatch, queryVars
  <2>2. pc'[a] = "done" /\ \A b \in Attempts : b # a => pc'[b] = pc[b]
    BY <1>2 DEF Go, BindingInv, BindingTypeOK
  <2>3. BindingTypeOK'
    BY <1>2, <2>1 DEF BindingInv, BindingTypeOK, Go, Labels
  <2>4. AttemptsOK' /\ ClaimedOnce'
    BY <2>1, <2>2 DEF BindingInv, AttemptsOK, ClaimedOnce, ClaimOK, SealOK, AskOK, HasHandle, Sealed
  <2>5. /\ h \in Handles /\ handle[h] \in HandleStates
        /\ p.material \in Materials \ Blocked /\ p.material = handle[h].material
        /\ p.material \in Risky => a \in asked
    BY <2>1 DEF BindingInv, AttemptsOK, ClaimOK, SealOK, AskOK, HasHandle, Sealed
  <2>6. /\ Sent(a) \in SentCalls /\ Sent(a).attempt = a /\ Sent(a).handle = h
        /\ Sent(a).material = p.material
    BY <2>5 DEF Sent, SentCalls, BindingInv, BindingTypeOK, Plans
  <2>7. CallsOK'
    <3>1. \A d \in dispatched : d.attempt \in Attempts /\ d.attempt # a
      BY <2>1 DEF BindingInv, CallsOK, SentCalls
    <3>2. ASSUME NEW d \in dispatched'
          PROVE  /\ d \in SentCalls /\ pc'[d.attempt] = "done" /\ d.handle = plan'[d.attempt].handle
                 /\ \A e \in dispatched' : e.attempt = d.attempt => e = d
      <4>1. CASE d = Sent(a)
        BY <1>2, <2>1, <2>2, <2>6, <3>1, <4>1
      <4>2. CASE d \in dispatched
        BY <1>2, <2>1, <2>2, <2>6, <3>1, <4>2 DEF BindingInv, CallsOK
      <4> QED BY <1>2, <4>1, <4>2
    <3> QED BY <3>2 DEF CallsOK
  <2>8. RunsWhatWasValidated'
    BY <1>2, <2>1, <2>5, <2>6 DEF BindingInv, DispatchIsCovered, RunsWhatWasValidated
  <2>9. HighRiskIsAuthorized'
    <3> SUFFICES ASSUME NEW d \in dispatched', d = Sent(a), d.material \in Risky
                 PROVE  /\ d.attempt \in asked
                        /\ d.decision # None /\ d.decision.status = "allow"
                        /\ d.decision.request = d.attempt
                        /\ d.at < d.decision.until /\ d.decision.until <= handle[d.handle].expires
                        /\ d.decision.until <= d.approval
                        /\ ~d.canceled /\ d.query = d.material
      BY <1>2, <2>1 DEF BindingInv, DispatchIsCovered, HighRiskIsAuthorized
    <3>1. Authorized(a) /\ a \in asked
      BY <1>2, <2>5, <2>6
    <3>2. p.decision \in Decisions /\ p.decision # None
      BY <3>1 DEF Authorized, BindingInv, BindingTypeOK, Plans
    <3>3. /\ p.decision.until \in Int /\ handle[h].expires \in Expiries /\ approval \in Expiries
          /\ now \in Int /\ handle[h].expires \in Int /\ approval \in Int
      BY <2>5, <3>2, TimeAssumption
         DEF BindingInv, BindingTypeOK, HandleStates, Decisions, Expiries, Times
    <3>4. /\ now < p.decision.until /\ p.decision.until <= handle[h].expires
          /\ p.decision.until <= approval
      BY <3>1, <3>3 DEF Authorized, Earlier
    <3>5. query = p.material
      BY <2>5, <3>1 DEF Authorized, Rebuilds
    <3> QED BY <3>1, <3>4, <3>5 DEF Sent, Authorized
  <2> QED BY <2>3, <2>4, <2>7, <2>8, <2>9 DEF BindingInv, DispatchIsCovered
<1> QED BY <1>1, <1>2 DEF Dispatch

\* The invariant holds of every behaviour of validated plans.
THEOREM BindingInvariant == BindingSpec => []BindingInv
<1>1. BindingInit => BindingInv
  <2> SUFFICES ASSUME BindingInit PROVE BindingInv
    OBVIOUS
  <2>1. NoPlan \in Plans /\ NoPlan.handle = None
    BY TimeAssumption DEF NoPlan, Plans, Expiries
  <2>2. BindingTypeOK
    <3>1. now \in Times
      BY TimeAssumption DEF BindingInit, Times
    <3>2. canceled \in BOOLEAN /\ used \in [Handles -> BOOLEAN]
      BY DEF BindingInit
    <3> QED BY <2>1, <3>1, <3>2 DEF BindingInit, BindingTypeOK, Labels
  <2>3. \A a \in Attempts : ~HasHandle(a)
    BY <2>1, NoneAssumption DEF BindingInit, HasHandle
  <2>4. AttemptsOK /\ ClaimedOnce
    BY <2>3 DEF BindingInit, AttemptsOK, ClaimedOnce, ClaimOK, SealOK, AskOK, Sealed
  <2>5. CallsOK /\ DispatchIsCovered
    BY DEF BindingInit, CallsOK, DispatchIsCovered, RunsWhatWasValidated, HighRiskIsAuthorized
  <2> QED BY <2>2, <2>4, <2>5 DEF BindingInv
<1>2. BindingInv /\ [BindingNext]_bindingVars => BindingInv'
  BY ApplicationStep, ClaimStep, RebuildStep, RequestStep, AnswerStep, GateStep, DispatchStep
     DEF BindingNext, Step
<1> QED BY <1>1, <1>2, PTL DEF BindingSpec

(***************************************************************************)
(* What follows from the invariant.                                        *)
(***************************************************************************)
\* A set whose members are all equal has at most one.
LEMMA AtMostOne ==
  ASSUME NEW S, \A x, y \in S : x = y
  PROVE  Cardinality(S) <= 1
<1>1. CASE S = {}
  BY <1>1, FS_EmptySet
<1>2. CASE S # {}
  <2>1. PICK x \in S : S = {x}
    BY <1>2
  <2> QED BY <2>1, FS_Singleton
<1> QED BY <1>1, <1>2

\* ExecuteValidated* gives a handle one attempt: for one handle the provider is
\* asked at most once and the executor called at most once, for any number of
\* goroutines that hold copies of it.
THEOREM SingleAttemptHolds == BindingSpec => []SingleAttempt
<1>1. BindingInv => SingleAttempt
  <2> SUFFICES ASSUME BindingInv, NEW h \in Handles
               PROVE  /\ Cardinality({a \in asked : plan[a].handle = h}) <= 1
                      /\ Cardinality({d \in dispatched : d.handle = h}) <= 1
    BY DEF SingleAttempt
  <2>1. \A a, b \in {a \in asked : plan[a].handle = h} : a = b
    BY DEF BindingInv, BindingTypeOK, ClaimedOnce, HasHandle
  <2>2. \A d, e \in {d \in dispatched : d.handle = h} : d = e
    <3> TAKE d, e \in {d \in dispatched : d.handle = h}
    <3>1. /\ d.attempt \in Attempts /\ e.attempt \in Attempts
          /\ plan[d.attempt].handle = h /\ plan[e.attempt].handle = h
      BY DEF BindingInv, CallsOK, SentCalls
    <3>2. d.attempt = e.attempt
      BY <3>1 DEF BindingInv, ClaimedOnce, HasHandle
    <3> QED BY <3>2 DEF BindingInv, CallsOK
  <2> HIDE DEF SingleAttempt
  <2> QED BY <2>1, <2>2, AtMostOne
<1> QED BY <1>1, BindingInvariant, PTL

\* What the executor is called with was validated, is not what the gate refuses
\* and, at high risk, is called under an unexpired allowing decision for this
\* attempt while the Query still is what was validated.
THEOREM DispatchCovered == BindingSpec => []DispatchIsCovered
<1>1. BindingInv => DispatchIsCovered
  BY DEF BindingInv
<1> QED BY <1>1, BindingInvariant, PTL

\* checkExecution admits no attempt whose handle has expired or whose context is
\* done.
THEOREM BoundInTimeHolds == BindingSpec => BoundInTime
<1>1. ASSUME BindingInv, [BindingNext]_bindingVars, NEW a \in Attempts,
             pc[a] = "bind", pc'[a] = "dispatch"
      PROVE  now < handle[plan[a].handle].expires /\ ~canceled
  <2>1. Bind(a)
    <3>1. pc' # pc
      BY <1>1
    <3>2. ASSUME NEW b \in Attempts, Step(b) PROVE b = a
      BY <1>1, <3>2 DEF Step, Claim, Rebuild, Request, Answer, Check, Bind, Dispatch, Go, Refuse,
                        BindingInv, BindingTypeOK
    <3>3. Step(a)
      BY <1>1, <3>1, <3>2 DEF BindingNext, Tick, Mutate, CancelContext, Validate, bindingVars
    <3> QED BY <1>1, <3>3 DEF Step, Claim, Rebuild, Request, Answer, Check, Dispatch
  <2>2. ~canceled /\ plan[a].expires > now
    BY <1>1, <2>1 DEF Bind, Executable, Refuse, BindingInv, BindingTypeOK
  <2>3. plan[a].handle \in Handles /\ handle[plan[a].handle] \in HandleStates
        /\ plan[a].expires <= handle[plan[a].handle].expires
    BY <1>1 DEF BindingInv, AttemptsOK, ClaimOK, SealOK, HasHandle, Sealed
  <2>4. plan[a].expires \in Int /\ handle[plan[a].handle].expires \in Int /\ now \in Int
    BY <1>1, <2>3 DEF BindingInv, BindingTypeOK, Plans, HandleStates, Expiries, Times
  <2> QED BY <2>2, <2>3, <2>4
<1>2. BindingInv /\ [BindingNext]_bindingVars
        => [\A a \in Attempts : pc[a] = "bind" /\ pc'[a] = "dispatch" =>
              /\ now < handle[plan[a].handle].expires
              /\ ~canceled]_bindingVars
  BY <1>1
<1> QED BY <1>2, BindingInvariant, PTL DEF BindingSpec, BoundInTime
=============================================================================
