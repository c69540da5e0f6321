--------------------------- MODULE ReviewSession ---------------------------
(***************************************************************************)
(* The evidence session of a static review (review/precision.go) and its   *)
(* receipts (query/review_receipt.go).  The scanner samples the SELECTs it *)
(* can reconstruct from source; then application tests, called back        *)
(* through Options.Evidence, sample the real queries - possibly from       *)
(* several goroutines - and record a receipt for a source operation; then  *)
(* the session compares the two samples.  Queries and inputs may change    *)
(* until the callback returns, the context may end and the token expire at *)
(* any time.                                                               *)
(*                                                                         *)
(* A query is the sequence of its calls [m, v] with what else the plan     *)
(* depends on; the calls of a chain in source also say whether their       *)
(* arguments are constants.  Inputs (files, go.mod, manifest) are one      *)
(* content number.                                                         *)
(***************************************************************************)
EXTENDS Naturals, Sequences, FiniteSets, SequencesExt

CONSTANTS
    Chains,       \* the operations in the source: [calls, name, partial]
    TestQueries,  \* the queries of the tests
    Forms,        \* what such a query may be: [calls, config, known, env, opaque]
    FirstForm,    \* what each of them is at first
    Samplers,     \* goroutines of the tests
    RecordIDs,    \* IDs a test may give, "" for none
    MaxReceipts,  \* 8192
    MaxBytes,     \* 64 MiB
    MaxEdits,     \* bound: changes of queries and inputs
    MaxRecords    \* bound: calls of Record

Methods == {"select", "where", "limit", "null", "order", "other"}
ASSUME ChainsAssumption ==
    Chains \in Seq([calls : Seq([m : Methods, v : Nat, known : BOOLEAN]), name : STRING, partial : BOOLEAN])
ASSUME FormsAssumption ==
    {FirstForm} \cup Forms \subseteq [calls : Seq([m : Methods, v : Nat]), config : STRING, known : BOOLEAN,
                                     env : STRING, opaque : BOOLEAN]
ASSUME OwnersAssumption == {"static", "none"} \cap TestQueries = {}
ASSUME BudgetAssumption == MaxReceipts \in Nat /\ MaxBytes \in Nat /\ IsFiniteSet(Samplers)

VARIABLES
    session,      \* phase, reason, the operation to compare next, and whether inputs were unchanged
    token,        \* closed, done (context), late (deadline), receipts, bytes
    disk,         \* content of the inputs now, and of the snapshot
    operations,   \* per operation: expected receipt, static operation, correspondence, missing
    records,      \* receipts recorded per operation
    claims,       \* history: accepted Record calls, in order
    forms,        \* the tests' queries now
    asking,       \* asking[p]: the query p is sampling, past the first counter
    held,         \* receipts the tests hold
    issued,       \* history: receipts and bytes handed out
    edits

reviewVars == <<session, token, disk, operations, records, claims, forms, asking, held, issued, edits>>

-----------------------------------------------------------------------------
(* Receipts                                                                *)

Valid == ~token.closed /\ ~token.done /\ ~token.late

(* reviewSnapshot: nothing for what cannot be compared structurally        *)
Snapshot(form) ==
    IF form.opaque THEN {}
    ELSE {[operation |-> "select", target |-> "t",
           structure |-> [i \in DOMAIN form.calls |-> form.calls[i].m],
           args |-> [i \in DOMAIN form.calls |-> form.calls[i].v],
           config |-> form.config, known |-> form.known]}
Size(form) == 1 + Len(form.calls)

NoReceipt == [owner |-> "none", env |-> "", sample |-> {}]
Receipt(q, form) == [owner |-> q, env |-> form.env, sample |-> Snapshot(form)]
Usable(form) == ~form.opaque

(* What the two counters of the token gain when a sample begins and when   *)
(* it ends. Mutant: a receipt is counted when issued                       *)
CountLate(stage, form) ==
    IF stage = "ask" THEN [receipts |-> 0, bytes |-> 0] ELSE [receipts |-> 1, bytes |-> Size(form)]
Count(stage, form) ==
    IF stage = "ask" THEN [receipts |-> 1, bytes |-> 0] ELSE [receipts |-> 0, bytes |-> Size(form)]
Counted(tok, stage, form) ==
    [tok EXCEPT !.receipts = @ + Count(stage, form).receipts, !.bytes = @ + Count(stage, form).bytes]
Issue(form) == issued' = [receipts |-> issued.receipts + 1, bytes |-> issued.bytes + Size(form)]

(* current: the owner plans the same again, on the same context and        *)
(* executor. Mutant: the sample is believed                                *)
currentBelieved(r, form) == Valid /\ r.sample # {}
current(r, form) ==
    /\ Valid /\ r.sample # {} /\ r.env = form.env
    /\ \E x \in Snapshot(form), y \in r.sample : x = [y EXCEPT !.known = x.known]

(* The scanner's private queries never change                              *)
FormOf(r, op) == IF r.owner \in TestQueries THEN forms[r.owner] ELSE op.static

-----------------------------------------------------------------------------
(* Comparison                                                              *)

Unconfirmed == [operation |-> "unconfirmed", target |-> "unconfirmed", structure |-> "unconfirmed",
                arguments |-> "unconfirmed", source |-> "unconfirmed", context |-> "unconfirmed"]
Same(x, y) == IF x = y THEN "matched" ELSE "mismatched"

CompareReviewReceipts(op, a, b) ==
    LET x == CHOOSE s \in a.sample : TRUE
        y == CHOOSE s \in b.sample : TRUE IN
    IF ~current(b, FormOf(b, op)) THEN [Unconfirmed EXCEPT !.source = "mismatched"]
    ELSE IF a.sample = {} THEN Unconfirmed
    ELSE IF ~current(a, FormOf(a, op)) THEN [Unconfirmed EXCEPT !.source = "mismatched"]
    ELSE [operation |-> Same(x.operation, y.operation), target |-> Same(x.target, y.target),
          structure |-> Same(x.structure, y.structure), arguments |-> Same(x.args, y.args),
          source |-> "unconfirmed",
          context |-> IF x.config # y.config THEN "mismatched"
                      ELSE IF x.known /\ y.known THEN "matched" ELSE "unconfirmed"]

CompareReviewOperation(op, r) ==
    IF ~current(r, FormOf(r, op)) THEN "unconfirmed"
    ELSE Same(op.operation, (CHOOSE s \in r.sample : TRUE).operation)

-----------------------------------------------------------------------------
(* The scanner                                                             *)

(* sampleSelect: a call whose arguments are not constants, or a method it  *)
(* does not know, leaves the operation without a sample                    *)
Columns(chain) == \A c \in Range(chain.calls) : c.m = "select" => c.known
Bindings(chain) == \A c \in Range(chain.calls) : c.m # "other" /\ (c.m \in {"where", "limit"} => c.known)
Reconstructible(chain) ==
    /\ chain.name \in {"Get", "GetMaps", "Plan"} /\ ~chain.partial
    /\ Columns(chain) /\ Bindings(chain)
    /\ \A c \in Range(chain.calls) : c.m \in {"null", "order"} => c.known
StaticForm(chain) ==
    [calls |-> [i \in DOMAIN chain.calls |-> [m |-> chain.calls[i].m, v |-> chain.calls[i].v]],
     config |-> "c", known |-> TRUE, env |-> "static", opaque |-> FALSE]

operationForTerminal(chain) ==
    CASE chain.name \in {"Update", "PlanUpdate"} -> "update"
      [] chain.name \in {"Delete", "PlanDelete"} -> "delete"
      [] chain.name \in {"Get", "GetMaps", "First", "FirstMap", "Plan"} -> "select"
      [] OTHER -> ""

Operation(chain, expected) ==
    [expected |-> expected, static |-> StaticForm(chain), operation |-> operationForTerminal(chain),
     corr |-> Unconfirmed, missing |-> {}]

(* terminal and Session.add, for the next operation of the source          *)
Scan ==
    LET chain == Chains[Len(operations) + 1]
        form == StaticForm(chain)
        ask == Counted(token, "ask", form)
        tok == IF ask.receipts > MaxReceipts THEN ask ELSE Counted(ask, "answer", form) IN
    /\ session.phase = "scan" /\ Len(operations) < Len(Chains)
    /\ IF ~Reconstructible(chain)
       THEN operations' = Append(operations, Operation(chain, NoReceipt)) /\ UNCHANGED <<token, issued>>
       ELSE IF Valid /\ tok.receipts <= MaxReceipts /\ tok.bytes <= MaxBytes
       THEN /\ operations' = Append(operations, Operation(chain, Receipt("static", form)))
            /\ token' = tok /\ Issue(form)
       ELSE /\ operations' = Append(operations,
                   [Operation(chain, NoReceipt) EXCEPT !.missing = {"evidence_missing"}])
            /\ token' = (IF Valid THEN tok ELSE token) /\ UNCHANGED issued
    /\ records' = Append(records, <<>>)
    /\ UNCHANGED <<session, disk, claims, forms, asking, held, edits>>

unchanged == session.reason = "" /\ ~token.done /\ disk.now = disk.snapshot

(* finish: the tests run only on unchanged inputs                          *)
BeginEvidence ==
    /\ session.phase = "scan" /\ Len(operations) = Len(Chains)
    /\ session' = IF unchanged THEN [session EXCEPT !.phase = "evidence"]
                  ELSE [session EXCEPT !.phase = "compare", !.same = FALSE]
    /\ UNCHANGED <<token, disk, operations, records, claims, forms, asking, held, issued, edits>>

-----------------------------------------------------------------------------
(* The tests                                                               *)

(* Query.ReviewReceipt up to the planning: the ticket is taken             *)
Ask(p, q) ==
    /\ session.phase = "evidence" /\ asking[p] = {} /\ Valid
    /\ token.receipts <= MaxReceipts   \* bound: further refusals only raise the counter
    /\ token' = Counted(token, "ask", forms[q])
    /\ asking' = IF token'.receipts <= MaxReceipts THEN [asking EXCEPT ![p] = {q}] ELSE asking
    /\ UNCHANGED <<session, disk, operations, records, claims, forms, held, issued, edits>>

(* ... and from the planning on                                            *)
Sampled(p) ==
    \E q \in asking[p] :
       /\ asking' = [asking EXCEPT ![p] = {}]
       /\ IF ~Usable(forms[q]) THEN UNCHANGED <<token, held, issued>>
          ELSE /\ token' = Counted(token, "answer", forms[q])
               /\ IF token'.bytes > MaxBytes THEN UNCHANGED <<held, issued>>
                  ELSE held' = held \cup {Receipt(q, forms[q])} /\ Issue(forms[q])
       /\ UNCHANGED <<session, disk, operations, records, claims, forms, edits>>

Mismatch(op, why) == [op EXCEPT !.corr.source = "mismatched", !.missing = @ \cup {why}]
Claimed(i, id) == [index |-> i, id |-> id]

(* The last operation an ID was given to, if any                           *)
Claimants(id) == {k \in DOMAIN claims : claims[k].id = id}
Previous(id) ==
    IF id = "" THEN {}
    ELSE {claims[k].index : k \in {j \in Claimants(id) : \A l \in Claimants(id) : l <= j}}

(* A reused ID spoils both operations. Mutant: only the one that reuses it *)
ContestedNew(i, id) == IF Previous(id) = {} THEN {} ELSE {i}
Contested(i, id) == IF Previous(id) = {} THEN {} ELSE Previous(id) \cup {i}

(* Session.Record with a reference that names operation i                  *)
Record(i, r, id) ==
    LET marked == [j \in DOMAIN operations |->
            IF j \in Contested(i, id) THEN Mismatch(operations[j], "duplicate_identity") ELSE operations[j]] IN
    /\ session.phase = "evidence" /\ Len(claims) < MaxRecords
    /\ claims' = Append(claims, Claimed(i, id))
    /\ IF Len(records[i]) >= 2
       THEN operations' = [marked EXCEPT ![i].corr.source = "mismatched"] /\ UNCHANGED records
       ELSE operations' = marked /\ records' = [records EXCEPT ![i] = Append(@, r)]
    /\ UNCHANGED <<session, token, disk, forms, asking, held, issued, edits>>

(* A reference altered by the test, and one of another session             *)
RecordStale(i) ==
    /\ session.phase = "evidence" /\ Len(claims) < MaxRecords
    /\ operations' = [operations EXCEPT ![i] = Mismatch(@, "source_changed")]
    /\ UNCHANGED <<session, token, disk, records, claims, forms, asking, held, issued, edits>>
RecordForeign ==
    /\ session.phase = "evidence"
    /\ session' = [session EXCEPT !.reason = "evidence_mismatch"]
    /\ UNCHANGED <<token, disk, operations, records, claims, forms, asking, held, issued, edits>>

EditQuery(q, form) ==
    /\ session.phase = "evidence" /\ edits < MaxEdits /\ form # forms[q]
    /\ forms' = [forms EXCEPT ![q] = form] /\ edits' = edits + 1
    /\ UNCHANGED <<session, token, disk, operations, records, claims, asking, held, issued>>

EndEvidence ==
    /\ session.phase = "evidence"
    /\ session' = [session EXCEPT !.phase = "compare", !.same = unchanged]
    /\ UNCHANGED <<token, disk, operations, records, claims, forms, asking, held, issued, edits>>

-----------------------------------------------------------------------------
(* The comparison of finish, operation by operation                        *)

Reason == IF token.done THEN "canceled" ELSE IF session.reason = "" THEN "source_changed" ELSE session.reason
MarkMismatch(op) ==
    IF \E f \in DOMAIN op.corr : op.corr[f] = "mismatched"
    THEN [op EXCEPT !.missing = @ \cup {"evidence_mismatch"}] ELSE op

Compared(op, rs) ==
    IF ~session.same THEN Mismatch(op, Reason)
    ELSE IF op.corr.source = "mismatched" THEN op
    ELSE IF Len(rs) > 1 THEN Mismatch(op, "duplicate_identity")
    ELSE IF rs = <<>> THEN [op EXCEPT !.missing = @ \cup {"evidence_missing"}]
    ELSE LET c == CompareReviewReceipts(op, op.expected, rs[1])
             d == IF op.operation = "" THEN c
                  ELSE [c EXCEPT !.operation = CompareReviewOperation(op, rs[1])] IN
         [op EXCEPT !.corr = IF d.source = "mismatched" THEN d ELSE [d EXCEPT !.source = "matched"]]

Compare ==
    LET i == session.next IN
    /\ session.phase = "compare" /\ i <= Len(operations)
    /\ operations' = [operations EXCEPT ![i] = MarkMismatch(Compared(@, records[i]))]
    /\ session' = [session EXCEPT !.next = i + 1]
    /\ UNCHANGED <<token, disk, records, claims, forms, asking, held, issued, edits>>

Finish ==
    /\ session.phase = "compare" /\ session.next > Len(operations)
    /\ session' = [session EXCEPT !.phase = "done"]
    /\ token' = [token EXCEPT !.closed = TRUE]
    /\ UNCHANGED <<disk, operations, records, claims, forms, asking, held, issued, edits>>

-----------------------------------------------------------------------------
(* Surroundings                                                            *)

Cancel ==
    /\ ~token.done /\ session.phase # "done" /\ token' = [token EXCEPT !.done = TRUE]
    /\ UNCHANGED <<session, disk, operations, records, claims, forms, asking, held, issued, edits>>
Expire ==
    /\ ~token.late /\ session.phase # "done" /\ token' = [token EXCEPT !.late = TRUE]
    /\ UNCHANGED <<session, disk, operations, records, claims, forms, asking, held, issued, edits>>
EditInput ==
    /\ session.phase # "done" /\ edits < MaxEdits
    /\ disk' = [disk EXCEPT !.now = @ + 1] /\ edits' = edits + 1
    /\ UNCHANGED <<session, token, operations, records, claims, forms, asking, held, issued>>

(* newSession: the snapshot is taken, or its budget is exceeded            *)
ReviewInit ==
    /\ \E reason \in {"", "budget_exceeded"} :
          session = [phase |-> "scan", reason |-> reason, next |-> 1, same |-> TRUE]
    /\ token = [closed |-> FALSE, done |-> FALSE, late |-> FALSE, receipts |-> 0, bytes |-> 0]
    /\ disk = [now |-> 0, snapshot |-> 0]
    /\ operations = <<>> /\ records = <<>> /\ claims = <<>>
    /\ forms = [q \in TestQueries |-> FirstForm] /\ asking = [p \in Samplers |-> {}]
    /\ held = {} /\ issued = [receipts |-> 0, bytes |-> 0] /\ edits = 0

ReviewNext ==
    \/ Scan \/ BeginEvidence \/ EndEvidence \/ Compare \/ Finish
    \/ \E p \in Samplers : Sampled(p) \/ \E q \in TestQueries : Ask(p, q)
    \/ \E i \in DOMAIN operations :
          \/ \E r \in held \cup {NoReceipt}, id \in RecordIDs : Record(i, r, id)
          \/ RecordStale(i)
    \/ RecordForeign
    \/ \E q \in TestQueries, form \in Forms : EditQuery(q, form)
    \/ Cancel \/ Expire \/ EditInput

ReviewSpec == ReviewInit /\ [][ReviewNext]_reviewVars

-----------------------------------------------------------------------------
(* Properties                                                              *)

(* However many goroutines sample at once, a session hands out no more     *)
(* receipts and no more bytes than its budget (the counters of             *)
(* ReviewReceipt are added to before they are compared, and a refused      *)
(* sample keeps what it took).                                             *)
ReceiptBudget == issued.receipts <= MaxReceipts /\ issued.bytes <= MaxBytes

Done(i) == session.phase \in {"compare", "done"} /\ i < session.next

ClaimsOf(i) == {k \in DOMAIN claims : claims[k].index = i}

(* An operation whose source is reported as matched was claimed exactly    *)
(* once, under an ID nobody else claimed, on inputs that were the          *)
(* snapshot's when the tests returned (Record and finish).                 *)
MatchedHasOneWitness ==
    \A i \in DOMAIN operations : (Done(i) /\ operations[i].corr.source = "matched") =>
       /\ session.same /\ session.reason = ""
       /\ Cardinality(ClaimsOf(i)) = 1
       /\ \A k, l \in DOMAIN claims :
             (claims[k].index = i /\ l # k) => claims[l].id # claims[k].id \/ claims[k].id = ""

(* What the report calls matched agrees with the source as written and     *)
(* with the query as it is when the tests return: the same calls in the    *)
(* same order, the same arguments, the same settings, every one of them    *)
(* known from the source (sampleSelect, current, CompareReviewReceipts).   *)
MatchedPartsAgree ==
    \A i \in DOMAIN operations : Done(i) =>
       LET op == operations[i]
           r == records[i][1]
           src == Chains[i].calls IN
       /\ op.corr.structure = "matched" =>
             /\ \A c \in Range(src) : c.known /\ c.m # "other"
             /\ [k \in DOMAIN src |-> src[k].m] = [k \in DOMAIN forms[r.owner].calls |-> forms[r.owner].calls[k].m]
       /\ op.corr.arguments = "matched" =>
             [k \in DOMAIN src |-> src[k].v] = [k \in DOMAIN forms[r.owner].calls |-> forms[r.owner].calls[k].v]
       /\ op.corr.context = "matched" => 
             forms[r.owner].config = op.static.config /\ \A s \in r.sample : s.known

(* Both: a matched operation has one witness that agrees in every part.    *)
MatchedIsProven == MatchedHasOneWitness /\ MatchedPartsAgree
=============================================================================
