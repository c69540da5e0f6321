----------------------------- MODULE OnceLedger -----------------------------
(***************************************************************************)
(* What orm.CommandStore promises to its callers, without transactions,    *)
(* reservations, lookups, contexts or failures: each key (a scope hash     *)
(* and an operation ID) is decided at most once, with one input and one    *)
(* summary of row counts, and every successful answer repeats the decision *)
(* of its key.  Only the application's own retention may forget a decided  *)
(* key; only then can the key be decided again.                            *)
(***************************************************************************)
EXTENDS Integers, Sequences

CONSTANTS
  Keys,       \* primary keys of the ledger: (scope_hash, operation_id)
  Inputs,     \* canonical command inputs
  Undecided   \* the key has no decision

VARIABLES
  record,     \* record[k]: the decision of key k, or Undecided
  answers     \* every successful answer given so far

vars == <<record, answers>>

Summaries == Seq(Nat)
Decisions == [input : Inputs, summary : Summaries]
Answers == [key : Keys, input : Inputs, summary : Summaries, applied : BOOLEAN]

TypeOK ==
  /\ record \in [Keys -> Decisions \cup {Undecided}]
  /\ answers \subseteq Answers

Init ==
  /\ record = [k \in Keys |-> Undecided]
  /\ answers = {}

\* A command takes effect; its caller may learn of it at once, or never.
Decide(k) ==
  LET d == record'[k]
  IN  /\ record[k] = Undecided
      /\ d \in Decisions
      /\ record' = [record EXCEPT ![k] = d]
      /\ \/ answers' = answers
         \/ answers' = answers \cup {[key |-> k, input |-> d.input,
                                      summary |-> d.summary, applied |-> TRUE]}

\* A caller that repeats a decided command is given the decision.
Replay(k) ==
  /\ record[k] # Undecided
  /\ answers' = answers \cup {[key |-> k, input |-> record[k].input,
                               summary |-> record[k].summary, applied |-> FALSE]}
  /\ UNCHANGED record

\* The application's retention deletes the record of a key.
Forget(k) ==
  /\ record[k] # Undecided
  /\ record' = [record EXCEPT ![k] = Undecided]
  /\ UNCHANGED answers

Next ==
  \E k \in Keys :
    \/ Decide(k)
    \/ Replay(k)
    \/ Forget(k)

Spec == Init /\ [][Next]_vars
=============================================================================
