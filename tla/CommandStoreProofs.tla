------------------------- MODULE CommandStoreProofs -------------------------
(***************************************************************************)
(* Proofs about CommandStore for any set of callers, keys and inputs, any  *)
(* number of steps and hooks per input, and any bounds.                    *)
(***************************************************************************)
EXTENDS CommandStore, TLAPS

(***************************************************************************)
(* Types.                                                                  *)
(***************************************************************************)

\* The operations on a transaction's record keep its type.
LEMMA TxTypes ==
  ASSUME NEW t \in Txs
  PROVE  /\ t.summary \in Seq(Nat)
         /\ \A sent \in BOOLEAN : Detached(t, sent) \in Txs
         /\ \A n \in Nat : Counted(t, n) \in Txs
         /\ Saved(t) \in Txs
<1>1. \A n \in Nat : t.summary \in Seq(Nat) /\ Append(t.summary, n) \in Seq(Nat)
  BY DEF Txs, Summaries
<1> QED BY <1>1 DEF Txs, Detached, Counted, Saved, Summaries

\* Corrupting a row keeps it a row, with its input and summary.
LEMMA CorruptionTypes ==
  ASSUME NEW row \in Rows, NEW d \in Corruptions(row)
  PROVE  d \in Rows /\ d.input = row.input /\ d.summary = row.summary
  BY DEF Rows, Corruptions

\* Run's return and the rollback closure of apply keep the types of what they
\* change.
LEMMA ReturnType ==
  ASSUME TypeOK, NEW c \in Callers, NEW kind \in Kinds, NEW s \in Summaries,
         Return(c, kind, s)
  PROVE  pc' \in [Callers -> PCs] /\ returns' \subseteq Returns
  BY DEF Return, Goto, TypeOK, PCs, Returns, Run, Runs

\* The type of what a rollback leaves.
LEMMA RollbackType ==
  ASSUME TypeOK, NEW c \in Callers, NEW cause \in Kinds, Rollback(c, cause)
  PROVE  /\ pc' \in [Callers -> PCs]
         /\ returns' \subseteq Returns
         /\ live' \in [Keys -> Txs \cup {NoTx}]
<1> DEFINE k == call[c].key
<1>0. k \in Keys /\ <<>> \in Summaries /\ "unknown" \in Kinds
  BY DEF TypeOK, Summaries, Kinds
<1>1. PICK kind \in Kinds : Return(c, kind, <<>>)
  BY <1>0 DEF Rollback
<1>2. live' \in [Keys -> Txs \cup {NoTx}]
  <2>1. CASE live' = live
    BY <2>1 DEF TypeOK
  <2>2. CASE Ended(k)
    BY <2>2, <1>0 DEF TypeOK, Ended
  <2>3. CASE Owns(c) /\ Lost(k)
    BY <2>3, <1>0, TxTypes DEF TypeOK, Owns, Holds, Lost
  <2> QED BY <2>1, <2>2, <2>3 DEF Rollback
<1> QED BY <1>0, <1>1, <1>2, ReturnType

\* TypeOK is inductive by itself.
THEOREM TypeCorrect == Spec => []TypeOK
<1> USE DEF Summaries, callerVars, dbVars, envVars
<1>1. Init => TypeOK
  BY DEF Init, TypeOK, PCs
<1>2. TypeOK /\ [Next]_vars => TypeOK'
  <2> SUFFICES ASSUME TypeOK, [Next]_vars PROVE TypeOK'
    OBVIOUS
  <2> USE DEF TypeOK
  <2>0. /\ \A c \in Callers : call[c].key \in Keys /\ call[c].input \in Inputs
        /\ Definite \subseteq Kinds
        /\ {"applied", "unknown", "crashed", "panicked"} \subseteq Kinds
        /\ <<>> \in Seq(Nat)
    BY DEF Kinds
  <2>1. ASSUME NEW c \in Callers, NEW k \in Keys, NEW i \in Inputs, Call(c, k, i)
        PROVE  TypeOK'
    BY <2>1, SMTT(60) DEF Call, Goto, PCs
  <2>2. ASSUME NEW c \in Callers, Validate(c) \/ Begin(c)
        PROVE  TypeOK'
    <3>1. CASE \E kind \in Kinds : Return(c, kind, <<>>)
      BY <2>2, <3>1, <2>0, ReturnType DEF Validate, Begin
    <3>2. CASE \E label \in PCs : Goto(c, label) /\ UNCHANGED returns
      BY <2>2, <3>2 DEF Goto, Validate, Begin
    <3> QED BY <2>2, <3>1, <3>2 DEF Validate, Begin, Definite, Kinds, PCs
  <2>3. ASSUME NEW c \in Callers, Lookup(c) \/ Relookup(c)
        PROVE  TypeOK'
    <3> DEFINE row == ledger[call[c].key]
    <3>0. UNCHANGED <<call, runs, cancelled, dbVars, envVars>>
      BY <2>3 DEF Lookup, Relookup
    <3>1. CASE \E kind \in Kinds : Return(c, kind, <<>>)
      BY <3>0, <3>1, <2>0, ReturnType
    <3>2. CASE Goto(c, "begin") /\ UNCHANGED returns
      BY <3>0, <3>2 DEF Goto, PCs
    <3>3. CASE row # NoRow /\ ReturnFound(c, row)
      <4>1. row \in Rows /\ row.summary \in Seq(Nat)
        BY <3>3, <2>0 DEF Rows
      <4>2. PICK kind \in Kinds, s \in Seq(Nat) : Return(c, kind, s)
        BY <4>1, <3>3, <2>0 DEF ReturnFound, LookupOutcome, Definite, Kinds
      <4> QED BY <4>2, <3>0, ReturnType
    <3> QED BY <2>3, <3>1, <3>2, <3>3 DEF Lookup, Relookup, Definite, Kinds
  <2>4. ASSUME NEW c \in Callers, Reserve(c)
        PROVE  TypeOK'
    <3>1. NewTx(c, TRUE) \in Txs
      BY <2>0 DEF NewTx, Txs, Run, Runs
    <3> QED BY <2>4, <2>0, <3>1 DEF Reserve, Goto, PCs
  <2>5. ASSUME NEW c \in Callers, ReserveDuplicate(c)
        PROVE  TypeOK'
    <3>1. CASE Return(c, "unknown", <<>>)
      BY <2>5, <3>1, <2>0, ReturnType DEF ReserveDuplicate
    <3>2. CASE Goto(c, "relookup") /\ UNCHANGED returns
      BY <2>5, <3>2 DEF Goto, PCs, ReserveDuplicate
    <3> QED BY <2>5, <3>1, <3>2 DEF ReserveDuplicate
  <2>6. ASSUME NEW c \in Callers, ReserveFails(c)
        PROVE  TypeOK'
    <3>1. NewTx(c, FALSE) \in Txs
      BY <2>0 DEF NewTx, Txs, Run, Runs
    <3>2. PICK kind \in Kinds : Return(c, kind, <<>>)
      BY <2>6 DEF ReserveFails, Kinds, Definite
    <3>3. live' \in [Keys -> Txs \cup {NoTx}]
      BY <2>6, <2>0, <3>1 DEF ReserveFails
    <3> QED BY <2>6, <2>0, <3>2, <3>3, ReturnType DEF ReserveFails
  <2>7. ASSUME NEW c \in Callers, ExecStep(c)
        PROVE  TypeOK'
    <3> DEFINE k == call[c].key
    <3>1. live[k] \in Txs
      BY <2>7, <2>0 DEF ExecStep, Owns, Holds
    <3>2. PICK n \in Nat : live' = [live EXCEPT ![k] = Counted(live[k], n)]
      BY <2>7, CountsAssumption DEF ExecStep
    <3> QED BY <2>7, <2>0, <3>1, <3>2, TxTypes DEF ExecStep
  <2>8. ASSUME NEW c \in Callers, ExecFails(c) \/ CommitCancelled(c)
        PROVE  TypeOK'
    <3>1. PICK cause \in Kinds : Rollback(c, cause)
      BY <2>8 DEF ExecFails, CommitCancelled, Kinds, Definite
    <3> QED BY <2>8, <3>1, RollbackType DEF ExecFails, CommitCancelled
  <2>9. ASSUME NEW c \in Callers, SaveResult(c)
        PROVE  TypeOK'
    <3> DEFINE k == call[c].key
    <3>1. live[k] \in Txs
      BY <2>9, <2>0 DEF SaveResult, Owns, Holds
    <3> QED BY <2>9, <2>0, <3>1, TxTypes DEF SaveResult, Goto, PCs
  <2>10. ASSUME NEW k \in Keys, live[k] # NoTx, Durable(k)
         PROVE  /\ ledger' \in [Keys -> Rows \cup {NoRow}]
                /\ live' \in [Keys -> Txs \cup {NoTx}]
                /\ applied' \in [Keys -> Seq(Applications)]
    <3>1. live[k] \in Txs
      BY <2>10
    <3>2. [run |-> live[k].run, input |-> live[k].input, summary |-> live[k].summary]
            \in Applications
      BY <3>1 DEF Txs, Applications
    <3>3. [format |-> 1, status |-> IF live[k].saved THEN 1 ELSE 0, ownScope |-> TRUE,
           input |-> live[k].input, fingerprintOK |-> TRUE, intact |-> TRUE,
           summary |-> live[k].summary] \in Rows
      BY <3>1 DEF Txs, Rows
    <3> QED BY <2>10, <3>2, <3>3 DEF Durable, Ended
  <2>11. ASSUME NEW c \in Callers, Commit(c)
         PROVE  TypeOK'
    <3> DEFINE k == call[c].key
    <3>1. live[k] # NoTx /\ live[k] \in Txs
      BY <2>11, <2>0 DEF Commit, Owns, Holds
    <3>2. live[k].summary \in Seq(Nat)
      BY <3>1 DEF Txs
    <3> QED BY <2>11, <2>0, <3>1, <3>2, <2>10, ReturnType DEF Commit
  <2>12. ASSUME NEW c \in Callers, CommitFails(c) \/ Panic(c) \/ Crash(c)
         PROVE  TypeOK'
    <3> DEFINE k == call[c].key
    <3>1. PICK kind \in Kinds : Return(c, kind, <<>>)
      BY <2>12 DEF CommitFails, Panic, Crash, Kinds
    <3>2. live' \in [Keys -> Txs \cup {NoTx}]
      <4>1. CASE live' = live \/ Ended(k)
        BY <4>1, <2>0 DEF Ended
      <4>2. CASE Owns(c) /\ \E sent \in BOOLEAN :
                   live' = [live EXCEPT ![k] = Detached(live[k], sent)]
        BY <4>2, <2>0, TxTypes DEF Owns, Holds
      <4> QED BY <2>12, <4>1, <4>2 DEF CommitFails, Panic, Crash, Lost
    <3> QED BY <2>12, <2>0, <3>1, <3>2, ReturnType DEF CommitFails, Panic, Crash
  <2>13. ASSUME NEW c \in Callers, Cancel(c) \/ AwaitDone(c)
         PROVE  TypeOK'
    <3> DEFINE k == call[c].key
    <3>1. CASE Cancel(c)
      BY <3>1 DEF Cancel
    <3>2. CASE AwaitDone(c)
      <4>1. live[k] \in Txs
        BY <3>2, <2>0 DEF AwaitDone, Owns, Holds
      <4>2. live' \in [Keys -> Txs \cup {NoTx}]
        BY <3>2, <2>0, <4>1, TxTypes DEF AwaitDone, Lost, Ended
      <4> QED BY <3>2, <4>2 DEF AwaitDone
    <3> QED BY <2>13, <3>1, <3>2
  <2>14. ASSUME NEW k \in Keys, ServerAborts(k) \/ ServerResolves(k)
         PROVE  TypeOK'
    BY <2>14, <2>10 DEF ServerAborts, ServerResolves, Ended
  <2>15. ASSUME NEW k \in Keys, Damage(k) \/ Purge(k)
         PROVE  TypeOK'
    <3>1. ledger[k] \in Rows
      BY <2>15 DEF Damage, Purge
    <3>2. CASE Damage(k)
      <4>1. PICK row \in Corruptions(ledger[k]) : ledger' = [ledger EXCEPT ![k] = row]
        BY <3>2 DEF Damage
      <4>2. row \in Rows
        BY <3>1, CorruptionTypes
      <4> QED BY <3>2, <4>1, <4>2 DEF Damage
    <3>3. CASE Purge(k)
      BY <3>3 DEF Purge
    <3> QED BY <2>15, <3>2, <3>3
  <2>16. CASE UNCHANGED vars
    BY <2>16 DEF vars
  <2> QED
    BY <2>1, <2>2, <2>3, <2>4, <2>5, <2>6, <2>7, <2>8, <2>9, <2>11, <2>12, <2>13,
       <2>14, <2>15, <2>16 DEF Next, Progress
<1> QED BY <1>1, <1>2, PTL DEF Spec

(***************************************************************************)
(* The inductive invariant.                                                *)
(***************************************************************************)

\* What the operations on a transaction's record change, field by field.
LEMMA DetachedFields ==
  ASSUME NEW t \in Txs, NEW sent \in BOOLEAN
  PROVE  /\ Detached(t, sent).run = t.run
         /\ Detached(t, sent).input = t.input
         /\ Detached(t, sent).summary = t.summary
         /\ Detached(t, sent).saved = t.saved
         /\ Detached(t, sent).attached = FALSE
         /\ Detached(t, sent).commit = sent
  BY DEF Txs, Detached

\* The last element of an appended sequence.
LEMMA AppendLast ==
  ASSUME NEW S, NEW q \in Seq(S), NEW x \in S
  PROVE  Append(q, x)[Len(q) + 1] = x
  OBVIOUS

\* The same for a counted statement.
LEMMA CountedFields ==
  ASSUME NEW t \in Txs, NEW n \in Nat
  PROVE  /\ Counted(t, n).run = t.run
         /\ Counted(t, n).input = t.input
         /\ Counted(t, n).summary = Append(t.summary, n)
         /\ Counted(t, n).saved = t.saved
         /\ Counted(t, n).attached = t.attached
         /\ Counted(t, n).commit = t.commit
  BY DEF Txs, Counted

\* The same for a saved result.
LEMMA SavedFields ==
  ASSUME NEW t \in Txs
  PROVE  /\ Saved(t).run = t.run
         /\ Saved(t).input = t.input
         /\ Saved(t).summary = t.summary
         /\ Saved(t).saved = TRUE
         /\ Saved(t).attached = t.attached
         /\ Saved(t).commit = t.commit
  BY DEF Txs, Saved

\* A caller outside the statements of apply has no transaction at the server.
LEMMA OutsideApply ==
  ASSUME TypeOK, Consistent, NEW c \in Callers,
         pc[c] \notin {"idle", "exec", "commit"}
  PROVE  ~Holds(c) /\ ~Owns(c) /\ \A k \in Keys : live[k] # NoTx => live[k].run # Run(c)
  BY DEF TypeOK, Consistent, TransactionOK, Holds, Owns

\* A run that ends without making anything durable keeps the invariant, if its
\* transaction is ended, left to the server, or was not its own any more.
LEMMA EndOfRun ==
  ASSUME TypeOK, Consistent, NEW c \in Callers, NEW kind, NEW s,
         pc[c] # "idle", Return(c, kind, s),
         UNCHANGED <<call, runs, ledger, applied>>,
         \/ ~Owns(c) /\ live' = live
         \/ Owns(c) /\ Ended(call[c].key)
         \/ Owns(c) /\ \E sent \in BOOLEAN :
              /\ sent => pc[c] = "commit"
              /\ live' = [live EXCEPT ![call[c].key] = Detached(live[call[c].key], sent)]
  PROVE  Consistent'
<1> DEFINE k == call[c].key
<1>0. k \in Keys /\ pc' = [pc EXCEPT ![c] = "idle"]
  BY DEF TypeOK, Return, Goto
<1>1. \A d \in Callers : Run(d)' = Run(d) /\ (d # c => pc'[d] = pc[d]) /\ pc'[c] = "idle"
  BY <1>0 DEF Run, TypeOK
<1>2. \A run : Over(run) => Over(run)'
  BY <1>0, <1>1 DEF Over
<1>3. \A run : run = Run(c) => Over(run)'
  BY <1>0, <1>1 DEF Over, Run, TypeOK
<1>4. \A r \in returns' : Over(r.run)'
  BY <1>2, <1>3 DEF Consistent, Return
<1>5. ASSUME NEW j \in Keys, live'[j] # NoTx
      PROVE  TransactionOK(j, live[j])'
  <2>1. CASE live'[j] = live[j] /\ (j = k => ~Owns(c))
    <3>1. TransactionOK(j, live[j]) /\ live[j] \in Txs
      BY <1>5, <2>1 DEF Consistent, TypeOK
    <3>2. live[j].attached => live[j].run[1] # c
      BY <3>1, <2>1, <1>5 DEF TransactionOK, Owns, Holds
    <3>3. live[j].run[1] \in Callers
      BY <3>1, SMTT(60) DEF Txs, Runs
    <3> QED BY <3>1, <3>2, <3>3, <1>1, <2>1 DEF TransactionOK
  <2>2. CASE j = k /\ Owns(c) /\ \E sent \in BOOLEAN :
               (sent => pc[c] = "commit") /\ live'[k] = Detached(live[k], sent)
    <3>1. PICK sent \in BOOLEAN :
            (sent => pc[c] = "commit") /\ live'[k] = Detached(live[k], sent)
      BY <2>2
    <3>2. live[k] # NoTx /\ live[k] \in Txs /\ TransactionOK(k, live[k])
      BY <1>0, <2>2 DEF Owns, Holds, Consistent, TypeOK
    <3>3. /\ live'[k].run = live[k].run /\ live'[k].input = live[k].input
          /\ live'[k].summary = live[k].summary /\ live'[k].saved = live[k].saved
          /\ live'[k].attached = FALSE /\ live'[k].commit = sent
      <4>1. live[k] \in Txs
        BY <3>2
      <4>2. /\ Detached(live[k], sent).run = live[k].run
            /\ Detached(live[k], sent).input = live[k].input
            /\ Detached(live[k], sent).summary = live[k].summary
            /\ Detached(live[k], sent).saved = live[k].saved
            /\ Detached(live[k], sent).attached = FALSE
            /\ Detached(live[k], sent).commit = sent
        BY <4>1, DetachedFields, Zenon
      <4> QED BY <4>2, <3>1, Zenon
    <3>4. live[k].run = Run(c) /\ (sent => live[k].saved)
      BY <2>2, <3>1, <3>2 DEF Owns, Holds, TransactionOK
    <3>5. \A d \in Callers : live[k].run = Run(d) => d = c
      BY <3>4 DEF Run
    <3>6. live[k].run[1] = c
      BY <3>4 DEF Run
    <3> QED BY <2>2, <3>2, <3>3, <3>4, <3>5, <3>6, <1>1, ZenonT(60) DEF TransactionOK
  <2> QED BY <1>0, <1>5, <2>1, <2>2 DEF TypeOK, Ended
<1> QED BY <1>0, <1>1, <1>2, <1>4, <1>5 DEF Consistent, RowOK

\* A caller that moves on before its reservation, or after losing it, keeps
\* the invariant.
LEMMA MoveOutsideApply ==
  ASSUME TypeOK, Consistent, NEW c \in Callers, NEW label,
         pc[c] \notin {"idle", "exec", "commit"}, label # "idle", Goto(c, label),
         UNCHANGED <<call, runs, returns, dbVars>>
  PROVE  Consistent'
<1>0. \A k \in Keys : live[k] # NoTx => live[k] \in Txs /\ live[k].run \in Callers \X Nat
  BY DEF TypeOK, Txs, Runs
<1>1. \A k \in Keys : live[k] # NoTx => live[k].run # Run(c)
  BY OutsideApply
<1>2. \A d \in Callers : Run(d)' = Run(d) /\ (d # c => pc'[d] = pc[d]) /\ pc'[c] # "idle"
  BY DEF Run, Goto, TypeOK
<1>3. \A run : Over(run) => Over(run)'
  BY <1>2 DEF Over
<1>4. \A k \in Keys : live[k] # NoTx /\ TransactionOK(k, live[k]) => TransactionOK(k, live[k])'
  BY <1>0, <1>1, <1>2 DEF TransactionOK, dbVars
<1> QED BY <1>3, <1>4 DEF Consistent, RowOK, dbVars

\* A transaction that disappears for its caller, or altogether, while the run
\* goes on keeps the invariant.
LEMMA TxLost ==
  ASSUME TypeOK, Consistent, NEW k \in Keys, live[k] # NoTx, Ended(k) \/ Lost(k),
         ~live[k].commit,
         UNCHANGED <<callerVars, ledger, applied>>
  PROVE  Consistent'
<1>1. live[k] \in Txs /\ TransactionOK(k, live[k])
  BY DEF TypeOK, Consistent
<1>2. \A d : Run(d)' = Run(d)
  BY DEF Run, callerVars
<1>3. \A run : Over(run) => Over(run)'
  BY <1>2 DEF Over, callerVars
<1>4. CASE Ended(k)
  <2>1. \A j \in Keys : live'[j] # NoTx => live'[j] = live[j]
    BY <1>4 DEF Ended, TypeOK
  <2>2. \A j \in Keys : live'[j] # NoTx => TransactionOK(j, live[j])'
    BY <2>1, <1>2 DEF TransactionOK, callerVars, Consistent
  <2> QED BY <1>3, <2>2 DEF Consistent, RowOK, callerVars
<1>5. CASE Lost(k)
  <2>1. /\ live'[k].run = live[k].run /\ live'[k].input = live[k].input
        /\ live'[k].summary = live[k].summary /\ live'[k].saved = live[k].saved
        /\ live'[k].attached = FALSE /\ live'[k].commit = FALSE
    <3>1. live'[k] = Detached(live[k], FALSE)
      BY <1>5 DEF Lost, TypeOK
    <3> QED BY <1>1, <3>1, DetachedFields, Zenon
  <2>2. \A j \in Keys : j # k => live'[j] = live[j]
    BY <1>5 DEF Lost, TypeOK
  <2>3. TransactionOK(k, live[k])'
    BY <1>1, <1>2, <2>1 DEF TransactionOK, callerVars
  <2>4. \A j \in Keys : live'[j] # NoTx => TransactionOK(j, live[j])'
    BY <2>2, <2>3, <1>2 DEF TransactionOK, callerVars, Consistent
  <2> QED BY <1>3, <2>4 DEF Consistent, RowOK, callerVars
<1> QED BY <1>4, <1>5

\* Making a saved transaction durable keeps the invariant, provided its run is
\* over in the next state.
LEMMA DurableConsistent ==
  ASSUME TypeOK, Consistent, NEW k \in Keys, live[k] # NoTx, live[k].saved, Durable(k),
         UNCHANGED <<call, runs>>,
         \A d \in Callers : pc'[d] = pc[d] \/ (pc'[d] = "idle" /\ live[k].run = Run(d)),
         \A d \in Callers : live[k].run = Run(d) => pc'[d] = "idle",
         \A r \in returns' : r \in returns \/ r.run = live[k].run
  PROVE  Consistent'
<1> DEFINE app == [run |-> live[k].run, input |-> live[k].input, summary |-> live[k].summary]
<1>1. live[k] \in Txs /\ TransactionOK(k, live[k])
  BY DEF TypeOK, Consistent
<1>2. \A d \in Callers : Run(d)' = Run(d)
  BY DEF Run
<1>3. \A run : Over(run) => Over(run)'
  BY <1>2 DEF Over
<1>4. \A run : run = live[k].run => Over(run)'
  BY <1>1, <1>2 DEF Over, TransactionOK
<1>5. \A j \in Keys : /\ j # k => live'[j] = live[j] /\ ledger'[j] = ledger[j]
                      /\ j # k => applied'[j] = applied[j]
  BY DEF Durable, Ended, TypeOK
<1>6. live'[k] = NoTx /\ applied'[k] = Append(applied[k], app) /\ ledger'[k] # NoRow
      /\ ledger'[k].input = app.input /\ ledger'[k].summary = app.summary
  <2>1. live'[k] = NoTx /\ applied'[k] = Append(applied[k], app)
    BY DEF Durable, Ended, TypeOK
  <2>2. ledger'[k] = [format |-> 1, status |-> IF live[k].saved THEN 1 ELSE 0,
                      ownScope |-> TRUE, input |-> live[k].input, fingerprintOK |-> TRUE,
                      intact |-> TRUE, summary |-> live[k].summary]
    BY DEF Durable, TypeOK
  <2>3. ledger'[k] \in Rows
    BY <1>1, <2>2 DEF Rows, Txs
  <2>4. ledger'[k].input = app.input /\ ledger'[k].summary = app.summary
    BY <2>2
  <2> QED BY <2>1, <2>3, <2>4, NoRowAssumption
<1>7. /\ Len(applied'[k]) = Len(applied[k]) + 1
      /\ applied'[k][Len(applied[k]) + 1] = app
      /\ \A n \in 1..Len(applied[k]) : applied'[k][n] = applied[k][n]
      /\ Len(applied[k]) \in Nat
  <2>1. applied[k] \in Seq(Applications) /\ app \in Applications
    BY <1>1 DEF TypeOK, Applications, Txs
  <2> QED BY <1>6, <2>1
<1>8. RowOK(k)'
  BY <1>6, <1>7 DEF RowOK
<1>9. \A j \in Keys : ledger'[j] # NoRow => RowOK(j)'
  BY <1>5, <1>8 DEF RowOK, Consistent
<1>10. \A j \in Keys : live'[j] # NoTx => TransactionOK(j, live[j])'
  <2> SUFFICES ASSUME NEW j \in Keys, live'[j] # NoTx PROVE TransactionOK(j, live[j])'
    OBVIOUS
  <2>1. j # k /\ live'[j] = live[j] /\ ledger'[j] = ledger[j] /\ TransactionOK(j, live[j])
        /\ live[j] \in Txs
    BY <1>5, <1>6 DEF Consistent, TypeOK
  <2>2. \A d \in Callers : live[k].run = Run(d) /\ pc[d] # "idle" => live[j].run # Run(d)
    <3> SUFFICES ASSUME NEW d \in Callers, live[k].run = Run(d), pc[d] # "idle",
                        live[j].run = Run(d)
                 PROVE  FALSE
      OBVIOUS
    <3>1. call[d] = [key |-> k, input |-> live[k].input]
      BY <1>1 DEF TransactionOK
    <3>2. call[d] = [key |-> j, input |-> live[j].input]
      BY <2>1 DEF TransactionOK
    <3> QED BY <3>1, <3>2, <2>1
  <2>3. live[j].run[1] \in Callers
    BY <2>1 DEF Txs, Runs
  <2>4. live[j].attached => pc'[live[j].run[1]] # "idle"
    BY <2>1, <2>2, <2>3 DEF TransactionOK
  <2> QED BY <2>1, <2>3, <2>4, <1>2 DEF TransactionOK
<1>11. \A r \in returns' : Over(r.run)'
  BY <1>3, <1>4 DEF Consistent
<1>12. \A j \in Keys : \A n \in 1..Len(applied'[j]) : Over(applied[j][n].run)'
  <2> SUFFICES ASSUME NEW j \in Keys, NEW n \in 1..Len(applied'[j])
               PROVE  Over(applied[j][n].run)'
    OBVIOUS
  <2>1. CASE j # k
    BY <2>1, <1>3, <1>5 DEF Consistent
  <2>2. CASE j = k /\ n \in 1..Len(applied[k])
    BY <2>2, <1>3, <1>7 DEF Consistent
  <2>3. CASE j = k /\ n = Len(applied[k]) + 1
    BY <2>3, <1>4, <1>7
  <2> QED BY <2>1, <2>2, <2>3, <1>7
<1> QED BY <1>9, <1>10, <1>11, <1>12 DEF Consistent

\* Every step of the specification keeps Consistent.
LEMMA ConsistentStep ==
  ASSUME TypeOK, Consistent, [Next]_vars PROVE Consistent'
<1> USE DEF callerVars, dbVars, envVars
<1>0. \A c \in Callers : call[c].key \in Keys /\ call[c].input \in Inputs /\ runs[c] \in Nat
  BY DEF TypeOK
<1>1. ASSUME NEW c \in Callers, NEW k \in Keys, NEW i \in Inputs, Call(c, k, i)
      PROVE  Consistent'
  <2>1. /\ pc[c] = "idle" /\ pc'[c] = "validate" /\ runs'[c] = runs[c] + 1
        /\ \A d \in Callers : d # c => pc'[d] = pc[d] /\ runs'[d] = runs[d] /\ call'[d] = call[d]
        /\ UNCHANGED <<dbVars, returns>>
    BY <1>1 DEF Call, Goto, TypeOK
  <2>2. ASSUME NEW run \in Callers \X Nat, run[2] <= runs[run[1]]
        PROVE  run[2] <= runs'[run[1]] /\ run # Run(c)'
    BY <2>1, <2>2, <1>0 DEF Run
  <2>3. \A run \in Callers \X Nat : Over(run) => Over(run)'
    BY <2>1, <2>2 DEF Over, Run
  <2>4. ASSUME NEW j \in Keys, live'[j] # NoTx PROVE TransactionOK(j, live[j])'
    <3>1. live'[j] = live[j] /\ live[j] \in Txs /\ TransactionOK(j, live[j])
          /\ live[j].run \in Callers \X Nat
      BY <2>1, <2>4 DEF Consistent, TypeOK, Txs, Runs
    <3>2. live[j].attached => live[j].run[1] # c
      BY <2>1, <3>1 DEF TransactionOK
    <3>3. live[j].run # Run(c)' /\ live[j].run[2] <= runs'[live[j].run[1]]
      BY <2>2, <3>1 DEF TransactionOK
    <3>4. live[j].run[1] \in Callers
      BY <3>1
    <3> QED BY <2>1, <3>1, <3>2, <3>3, <3>4 DEF TransactionOK, Run
  <2>5. /\ \A r \in returns : r.run \in Callers \X Nat
        /\ \A j \in Keys : \A n \in 1..Len(applied[j]) : applied[j][n].run \in Callers \X Nat
    <3>1. \A r \in returns : r.run \in Callers \X Nat
      BY DEF TypeOK, Returns, Runs
    <3>2. ASSUME NEW j \in Keys, NEW n \in 1..Len(applied[j])
          PROVE  applied[j][n].run \in Callers \X Nat
      <4>1. applied[j] \in Seq(Applications)
        BY DEF TypeOK
      <4>2. applied[j][n] \in Applications
        BY <4>1
      <4> QED BY <4>2 DEF Applications, Runs
    <3> QED BY <3>1, <3>2
  <2> QED BY <2>1, <2>3, <2>4, <2>5 DEF Consistent, RowOK
<1>2. ASSUME NEW c \in Callers,
             Validate(c) \/ Lookup(c) \/ Begin(c) \/ ReserveDuplicate(c) \/ Relookup(c)
      PROVE  Consistent'
  <2>1. pc[c] \notin {"idle", "exec", "commit"} /\ UNCHANGED <<call, runs, dbVars>>
    BY <1>2 DEF Validate, Lookup, Begin, ReserveDuplicate, Relookup
  <2>2. CASE \E label \in {"lookup", "begin", "reserve", "relookup"} :
               Goto(c, label) /\ UNCHANGED returns
    BY <2>1, <2>2, MoveOutsideApply
  <2>3. CASE \E kind, s : Return(c, kind, s)
    BY <2>1, <2>3, OutsideApply, EndOfRun
  <2> QED BY <1>2, <2>2, <2>3
          DEF Validate, Lookup, Begin, ReserveDuplicate, Relookup, ReturnFound
<1>3. ASSUME NEW c \in Callers, NEW a \in BOOLEAN, pc[c] = "reserve",
             ledger[call[c].key] = NoRow, live[call[c].key] = NoTx,
             live' = [live EXCEPT ![call[c].key] = NewTx(c, a)],
             UNCHANGED <<call, runs, ledger, applied>>,
             pc' = [pc EXCEPT ![c] = IF a THEN "exec" ELSE "idle"],
             \A r \in returns' : r \in returns \/ (~a /\ r.run = Run(c))
      PROVE  Consistent'
  <2> DEFINE k == call[c].key
  <2>1. live'[k] = NewTx(c, a) /\ \A j \in Keys : j # k => live'[j] = live[j]
    BY <1>0, <1>3 DEF TypeOK
  <2>2. /\ live'[k].run = Run(c) /\ live'[k].input = call[c].input
        /\ live'[k].summary = <<>> /\ live'[k].saved = FALSE
        /\ live'[k].attached = a /\ live'[k].commit = FALSE
    BY <2>1 DEF NewTx
  <2>3. \A d : Run(d)' = Run(d)
    BY <1>3 DEF Run
  <2>4. pc'[c] = (IF a THEN "exec" ELSE "idle") /\ \A d \in Callers : d # c => pc'[d] = pc[d]
    BY <1>3, SMTT(30) DEF TypeOK
  <2>5. TransactionOK(k, live[k])'
    <3>1. Run(c)[1] = c /\ Run(c)[2] = runs[c] /\ \A d \in Callers : Run(d) = Run(c) => d = c
      BY DEF Run
    <3>2. HooksAffectOneRow(live[k].input, live[k].summary)'
      <4>1. live'[k].summary = <<>> /\ k' = k
        BY <1>3, <2>2
      <4> QED BY <4>1 DEF HooksAffectOneRow
    <3>3. call[c] = [key |-> k, input |-> call[c].input]
      BY DEF TypeOK
    <3> QED BY <1>0, <1>3, <2>2, <2>3, <2>4, <3>1, <3>2, <3>3 DEF TransactionOK
  <2>6. \A j \in Keys : live[j] # NoTx => live[j].run # Run(c) /\ live[j] \in Txs
    BY <1>3, OutsideApply DEF TypeOK
  <2>7. ASSUME NEW j \in Keys, live'[j] # NoTx, j # k PROVE TransactionOK(j, live[j])'
    <3>1. live'[j] = live[j] /\ TransactionOK(j, live[j]) /\ live[j].run # Run(c)
          /\ live[j].run[1] \in Callers
      BY <2>1, <2>6, <2>7 DEF Consistent, Txs, Runs
    <3> QED BY <3>1, <1>3, <2>3, <2>4 DEF TransactionOK
  <2>8. \A run : Over(run) => Over(run)'
    BY <1>3, <2>3, <2>4 DEF Over
  <2>9. ~a => \A run : run = Run(c) => Over(run)'
    BY <1>0, <1>3, <2>3, <2>4 DEF Over, Run
  <2>10. \A r \in returns' : Over(r.run)'
    BY <1>3, <2>8, <2>9 DEF Consistent
  <2> QED BY <1>3, <2>5, <2>7, <2>8, <2>10 DEF Consistent, RowOK
<1>4. ASSUME NEW c \in Callers, Reserve(c) PROVE Consistent'
  BY <1>3, <1>4 DEF Reserve, Goto
<1>5. ASSUME NEW c \in Callers, ReserveFails(c) PROVE Consistent'
  <2>1. CASE live' = live
    <3>1. \E kind : Return(c, kind, <<>>)
      BY <1>5, <2>1 DEF ReserveFails
    <3> QED BY <1>5, <2>1, <3>1, OutsideApply, EndOfRun DEF ReserveFails
  <2>2. CASE live' # live
    <3>1. /\ pc[c] = "reserve" /\ ledger[call[c].key] = NoRow /\ live[call[c].key] = NoTx
          /\ live' = [live EXCEPT ![call[c].key] = NewTx(c, FALSE)]
          /\ Return(c, "unknown", <<>>)
          /\ UNCHANGED <<call, runs, ledger, applied>>
      BY <1>5, <2>2 DEF ReserveFails
    <3>2. pc' = [pc EXCEPT ![c] = IF FALSE THEN "exec" ELSE "idle"]
      BY <3>1 DEF Return, Goto
    <3>3. \A r \in returns' : r \in returns \/ (~FALSE /\ r.run = Run(c))
      BY <3>1 DEF Return
    <3> QED BY <1>3, <3>1, <3>2, <3>3
  <2> QED BY <2>1, <2>2
<1>6. ASSUME NEW c \in Callers, ExecStep(c) PROVE Consistent'
  <2> DEFINE k == call[c].key
             t == live[k]
  <2>1. t # NoTx /\ t \in Txs /\ TransactionOK(k, t) /\ t.run = Run(c) /\ t.summary \in Seq(Nat)
    BY <1>0, <1>6 DEF ExecStep, Owns, Holds, Consistent, TypeOK, Txs, Summaries
  <2>2. PICK n \in Nat :
          /\ Len(t.summary) + 1 > Steps[call[c].input] - Hooks[call[c].input] => n = 1
          /\ live' = [live EXCEPT ![k] = Counted(live[k], n)]
    BY <1>6, CountsAssumption DEF ExecStep
  <2>3. live'[k] = Counted(t, n) /\ \A j \in Keys : j # k => live'[j] = live[j]
    BY <1>0, <2>2 DEF TypeOK
  <2>4. /\ live'[k].run = t.run /\ live'[k].input = t.input
        /\ live'[k].summary = Append(t.summary, n) /\ live'[k].saved = t.saved
        /\ live'[k].attached = t.attached /\ live'[k].commit = t.commit
    <3> HIDE DEF t
    <3>1. t \in Txs /\ n \in Nat /\ live'[k] = Counted(t, n)
      BY <2>1, <2>2, <2>3
    <3>2. /\ Counted(t, n).run = t.run /\ Counted(t, n).input = t.input
          /\ Counted(t, n).summary = Append(t.summary, n) /\ Counted(t, n).saved = t.saved
          /\ Counted(t, n).attached = t.attached /\ Counted(t, n).commit = t.commit
      BY <3>1, CountedFields, Zenon
    <3> QED BY <3>1, <3>2, Zenon
  <2>5. pc[c] = "exec" /\ call[c] = [key |-> k, input |-> t.input] /\ ~t.saved /\ ~t.commit
    BY <1>6, <2>1 DEF ExecStep, TransactionOK
  <2>6. HooksAffectOneRow(t.input, Append(t.summary, n))
    <3>1. HooksAffectOneRow(t.input, t.summary) /\ t.input = call[c].input
      BY <2>1, <2>5 DEF TransactionOK
    <3>2. ASSUME NEW j \in 1..Len(Append(t.summary, n)), j > Steps[t.input] - Hooks[t.input]
          PROVE  Append(t.summary, n)[j] = 1
      <4>1. CASE j \in 1..Len(t.summary)
        <5>1. Append(t.summary, n)[j] = t.summary[j]
          BY <2>1, <4>1
        <5> QED BY <5>1, <3>1, <3>2, <4>1 DEF HooksAffectOneRow
      <4>2. CASE j = Len(t.summary) + 1
        <5>1. Append(t.summary, n)[j] = n
          BY <2>1, <4>2, AppendLast
        <5>2. Len(t.summary) + 1 > Steps[call[c].input] - Hooks[call[c].input]
          BY <3>1, <3>2, <4>2
        <5> QED BY <5>1, <5>2, <2>2
      <4>3. j \in 1..Len(t.summary) \/ j = Len(t.summary) + 1
        BY <2>1, SMTT(120)
      <4> QED BY <4>1, <4>2, <4>3
    <3> QED BY <3>2 DEF HooksAffectOneRow
  <2>7. UNCHANGED <<callerVars, ledger, applied>> /\ \A d : Run(d)' = Run(d)
    BY <1>6 DEF ExecStep, Run
  <2>8. TransactionOK(k, live[k])'
    BY <2>1, <2>4, <2>5, <2>6, <2>7, ZenonT(60) DEF TransactionOK
  <2>9. ASSUME NEW j \in Keys, live'[j] # NoTx PROVE TransactionOK(j, live[j])'
    <3>1. CASE j = k
      BY <2>7, <2>8, <3>1
    <3>2. CASE j # k
      <4>1. live'[j] = live[j] /\ TransactionOK(j, live[j])
        BY <2>3, <2>9, <3>2 DEF Consistent
      <4> QED BY <2>7, <4>1, ZenonT(60) DEF TransactionOK
    <3> QED BY <3>1, <3>2
  <2> QED BY <2>7, <2>9 DEF Consistent, RowOK, Over
<1>7. ASSUME NEW c \in Callers, SaveResult(c) PROVE Consistent'
  <2> DEFINE k == call[c].key
             t == live[k]
  <2>1. t # NoTx /\ t \in Txs /\ TransactionOK(k, t) /\ t.run = Run(c)
    BY <1>0, <1>7 DEF SaveResult, Owns, Holds, Consistent, TypeOK
  <2>2. live'[k] = Saved(t) /\ \A j \in Keys : j # k => live'[j] = live[j]
    BY <1>0, <1>7 DEF SaveResult, TypeOK
  <2>3. /\ live'[k].run = t.run /\ live'[k].input = t.input
        /\ live'[k].summary = t.summary /\ live'[k].saved = TRUE
        /\ live'[k].attached = t.attached /\ live'[k].commit = t.commit
    BY <2>1, <2>2, SavedFields, Zenon
  <2>4. pc[c] = "exec" /\ call[c] = [key |-> k, input |-> t.input] /\ ~t.commit
    BY <1>7, <2>1 DEF SaveResult, TransactionOK
  <2>5. Len(t.summary) = Steps[t.input]
    BY <1>7, <2>4 DEF SaveResult
  <2>6. /\ UNCHANGED <<call, runs, returns, ledger, applied>> /\ \A d : Run(d)' = Run(d)
        /\ pc'[c] = "commit" /\ \A d \in Callers : d # c => pc'[d] = pc[d]
    BY <1>7 DEF SaveResult, Run, Goto, TypeOK
  <2>7. \A d \in Callers : t.run = Run(d) => d = c
    BY <2>1, SMTT(60) DEF Run
  <2>8. TransactionOK(k, live[k])'
    <3>1. t.run[1] = c
      BY <2>1 DEF Run
    <3> QED BY <2>1, <2>3, <2>4, <2>5, <2>6, <2>7, <3>1, ZenonT(60) DEF TransactionOK
  <2>9. ASSUME NEW j \in Keys, j # k, live[j] # NoTx PROVE TransactionOK(j, live[j])'
    <3>1. live'[j] = live[j] /\ TransactionOK(j, live[j]) /\ live[j] \in Txs
      BY <2>2, <2>9 DEF Consistent, TypeOK
    <3>2. live[j].run # Run(c) /\ live[j].run[1] \in Callers
      BY <3>1, <2>4, <2>9 DEF TransactionOK, Txs, Runs
    <3> QED BY <2>6, <3>1, <3>2 DEF TransactionOK
  <2>10. \A run : Over(run) => Over(run)'
    BY <2>4, <2>6 DEF Over
  <2> QED BY <2>2, <2>6, <2>8, <2>9, <2>10 DEF Consistent, RowOK
<1>8. ASSUME NEW c \in Callers, ExecFails(c) \/ CommitCancelled(c) PROVE Consistent'
  <2>1. PICK cause : Rollback(c, cause)
    BY <1>8 DEF ExecFails, CommitCancelled
  <2>2. pc[c] # "idle" /\ UNCHANGED <<call, runs, ledger, applied>>
    BY <1>8 DEF ExecFails, CommitCancelled
  <2>3. \E kind : Return(c, kind, <<>>)
    BY <2>1 DEF Rollback
  <2>4. \/ ~Owns(c) /\ live' = live
        \/ Owns(c) /\ (Ended(call[c].key) \/ Lost(call[c].key))
    BY <2>1 DEF Rollback
  <2> QED BY <2>2, <2>3, <2>4, EndOfRun DEF Lost
<1>9. ASSUME NEW c \in Callers, Commit(c) PROVE Consistent'
  <2> DEFINE k == call[c].key
  <2>1. live[k] # NoTx /\ live[k].run = Run(c) /\ TransactionOK(k, live[k]) /\ k \in Keys
    BY <1>0, <1>9 DEF Commit, Owns, Holds, Consistent
  <2>2. live[k].saved
    BY <1>9, <2>1 DEF Commit, TransactionOK
  <2>3. pc' = [pc EXCEPT ![c] = "idle"] /\ Durable(k) /\ UNCHANGED <<call, runs>>
    BY <1>9 DEF Commit, Return, Goto
  <2>4. \A d \in Callers : /\ pc'[d] = pc[d] \/ (pc'[d] = "idle" /\ live[k].run = Run(d))
                           /\ live[k].run = Run(d) => pc'[d] = "idle"
    BY <2>1, <2>3 DEF Run, TypeOK
  <2>5. \A r \in returns' : r \in returns \/ r.run = live[k].run
    BY <1>9, <2>1 DEF Commit, Return
  <2> QED BY <2>1, <2>2, <2>3, <2>4, <2>5, DurableConsistent
<1>10. ASSUME NEW c \in Callers, CommitFails(c) \/ Panic(c) \/ Crash(c) PROVE Consistent'
  <2>1. pc[c] # "idle" /\ UNCHANGED <<call, runs, ledger, applied>>
        /\ \E kind : Return(c, kind, <<>>)
    BY <1>10 DEF CommitFails, Panic, Crash
  <2>2. \/ ~Owns(c) /\ live' = live
        \/ Owns(c) /\ Ended(call[c].key)
        \/ Owns(c) /\ \E sent \in BOOLEAN :
              /\ sent => pc[c] = "commit"
              /\ live' = [live EXCEPT ![call[c].key] = Detached(live[call[c].key], sent)]
    BY <1>10 DEF CommitFails, Panic, Crash, Lost
  <2> QED BY <2>1, <2>2, EndOfRun
<1>11. ASSUME NEW c \in Callers, Cancel(c) PROVE Consistent'
  BY <1>11, SMTT(60) DEF Cancel, Consistent, TransactionOK, RowOK, Over, Run
<1>12. ASSUME NEW c \in Callers, AwaitDone(c) PROVE Consistent'
  <2>1. live[call[c].key] # NoTx /\ TransactionOK(call[c].key, live[call[c].key])
        /\ live[call[c].key].attached
    BY <1>0, <1>12 DEF AwaitDone, Owns, Holds, Consistent
  <2> QED BY <1>0, <1>12, <2>1, TxLost DEF AwaitDone, TransactionOK
<1>13. ASSUME NEW k \in Keys, live[k] # NoTx, Ended(k), UNCHANGED <<callerVars, ledger, applied>>
       PROVE  Consistent'
  <2>1. \A j \in Keys : live'[j] # NoTx => live'[j] = live[j]
    BY <1>13 DEF Ended, TypeOK
  <2>2. \A d : Run(d)' = Run(d)
    BY <1>13 DEF Run
  <2>3. \A j \in Keys : live'[j] # NoTx => TransactionOK(j, live[j])'
    BY <1>13, <2>1, <2>2 DEF TransactionOK, Consistent
  <2> QED BY <1>13, <2>2, <2>3 DEF Consistent, RowOK, Over
<1>14. ASSUME NEW k \in Keys, ServerAborts(k) PROVE Consistent'
  BY <1>13, <1>14 DEF ServerAborts
<1>15. ASSUME NEW k \in Keys, ServerResolves(k) PROVE Consistent'
  <2>1. CASE Ended(k) /\ UNCHANGED <<ledger, applied>>
    BY <1>13, <1>15, <2>1 DEF ServerResolves
  <2>2. CASE live[k].commit /\ Durable(k)
    <3>1. TransactionOK(k, live[k]) /\ live[k] # NoTx /\ UNCHANGED callerVars
      BY <1>15 DEF ServerResolves, Consistent
    <3>2. live[k].saved /\ \A d \in Callers : live[k].run = Run(d) => pc'[d] = "idle"
      BY <2>2, <3>1 DEF TransactionOK
    <3> QED BY <2>2, <3>1, <3>2, DurableConsistent
  <2> QED BY <1>15, <2>1, <2>2 DEF ServerResolves
<1>16. ASSUME NEW k \in Keys, Damage(k) PROVE Consistent'
  <2>1. PICK row \in Corruptions(ledger[k]) : ledger' = [ledger EXCEPT ![k] = row]
    BY <1>16 DEF Damage
  <2>2. ledger[k] \in Rows /\ ledger[k] # NoRow
    BY <1>16 DEF Damage, TypeOK
  <2>3. row \in Rows /\ row.input = ledger[k].input /\ row.summary = ledger[k].summary
    BY <2>2, CorruptionTypes
  <2>4. ledger'[k] = row /\ \A j \in Keys : j # k => ledger'[j] = ledger[j]
    BY <2>1 DEF TypeOK
  <2>5. live[k] = NoTx
    BY <2>2 DEF Consistent, TransactionOK
  <2>6. UNCHANGED <<callerVars, live, applied>> /\ \A d : Run(d)' = Run(d)
    BY <1>16 DEF Damage, Run
  <2>7. \A j \in Keys : live'[j] # NoTx => TransactionOK(j, live[j])'
    BY <2>4, <2>5, <2>6 DEF Consistent, TransactionOK
  <2>8. \A j \in Keys : ledger'[j] # NoRow => RowOK(j)'
    BY <2>2, <2>3, <2>4, <2>6 DEF Consistent, RowOK
  <2> QED BY <2>6, <2>7, <2>8 DEF Consistent, Over
<1>17. ASSUME NEW k \in Keys, Purge(k) PROVE Consistent'
  <2>1. ledger'[k] = NoRow /\ \A j \in Keys : j # k => ledger'[j] = ledger[j]
    BY <1>17 DEF Purge, TypeOK
  <2>2. UNCHANGED <<callerVars, live, applied>> /\ \A d : Run(d)' = Run(d)
    BY <1>17 DEF Purge, Run
  <2> QED BY <2>1, <2>2 DEF Consistent, TransactionOK, RowOK, Over
<1>18. CASE UNCHANGED vars
  BY <1>18 DEF vars, Consistent, TransactionOK, RowOK, Over, Run
<1> QED
  BY <1>1, <1>2, <1>4, <1>5, <1>6, <1>7, <1>8, <1>9, <1>10, <1>11, <1>12, <1>14, <1>15,
     <1>16, <1>17, <1>18 DEF Next, Progress

\* The inductive invariant holds for every instance of the store.
THEOREM ConsistentInvariant == Spec => []Consistent
<1>1. Init => Consistent
  BY DEF Init, Consistent
<1>2. TypeOK /\ Consistent /\ [Next]_vars => Consistent'
  BY ConsistentStep
<1> QED BY <1>1, <1>2, TypeCorrect, PTL DEF Spec

(***************************************************************************)
(* The safety properties.                                                  *)
(***************************************************************************)

\* Only Commit, a COMMIT that arrives late, retention and corruption touch the
\* durable state, and only as far as stated here.
LEMMA DurableSteps ==
  ASSUME TypeOK, Consistent, [Next]_vars
  PROVE  \/ UNCHANGED <<ledger, applied, purges>>
         \/ \E k \in Keys :
              /\ live[k] # NoTx /\ live[k].saved /\ Durable(k) /\ UNCHANGED purges
              /\ live[k].attached \/ live[k].commit
         \/ \E k \in Keys : Damage(k) \/ Purge(k)
<1> USE DEF callerVars, dbVars, envVars
<1>1. ASSUME NEW c \in Callers, Commit(c)
      PROVE  /\ call[c].key \in Keys /\ live[call[c].key] # NoTx /\ live[call[c].key].saved
             /\ Durable(call[c].key) /\ UNCHANGED purges /\ live[call[c].key].attached
  BY <1>1 DEF TypeOK, Consistent, TransactionOK, Commit, Owns, Holds
<1>2. ASSUME NEW k \in Keys, ServerResolves(k), Durable(k), live[k].commit
      PROVE  live[k] # NoTx /\ live[k].saved /\ UNCHANGED purges
  BY <1>2 DEF ServerResolves, Consistent, TransactionOK
<1>3. ASSUME NEW c \in Callers, NEW k \in Keys, NEW i \in Inputs, Call(c, k, i)
      PROVE  UNCHANGED <<ledger, applied, purges>>
  BY <1>3 DEF Call
<1>4. ASSUME NEW c \in Callers, Progress(c), ~Commit(c)
      PROVE  UNCHANGED <<ledger, applied, purges>>
  BY <1>4 DEF Progress, Validate, Lookup, Begin, Reserve, ReserveDuplicate, ReserveFails,
              Relookup, ExecStep, ExecFails, SaveResult, CommitCancelled, CommitFails
<1>5. ASSUME NEW c \in Callers, Panic(c) \/ Cancel(c) \/ AwaitDone(c) \/ Crash(c)
      PROVE  UNCHANGED <<ledger, applied, purges>>
  BY <1>5 DEF Panic, Cancel, AwaitDone, Crash
<1>6. ASSUME NEW k \in Keys, ServerAborts(k)
      PROVE  UNCHANGED <<ledger, applied, purges>>
  BY <1>6 DEF ServerAborts
<1>7. ASSUME NEW k \in Keys, ServerResolves(k)
      PROVE  UNCHANGED <<ledger, applied, purges>> \/ (live[k].commit /\ Durable(k))
  BY <1>7 DEF ServerResolves
<1>8. ASSUME UNCHANGED vars PROVE UNCHANGED <<ledger, applied, purges>>
  BY <1>8 DEF vars
<1> QED BY <1>1, <1>2, <1>3, <1>4, <1>5, <1>6, <1>7, <1>8 DEF Next

\* What making the transaction of k durable does to the history.
LEMMA DurableEffect ==
  ASSUME TypeOK, NEW k \in Keys, live[k] # NoTx, Durable(k)
  PROVE  /\ applied'[k] = Append(applied[k], [run |-> live[k].run, input |-> live[k].input,
                                              summary |-> live[k].summary])
         /\ applied[k] \in Seq(Applications)
         /\ [run |-> live[k].run, input |-> live[k].input, summary |-> live[k].summary]
              \in Applications
         /\ ledger'[k] # NoRow
         /\ \A j \in Keys : j # k => applied'[j] = applied[j] /\ ledger'[j] = ledger[j]
<1>1. live[k] \in Txs
  BY DEF TypeOK
<1>2. ledger'[k] = [format |-> 1, status |-> IF live[k].saved THEN 1 ELSE 0,
                    ownScope |-> TRUE, input |-> live[k].input, fingerprintOK |-> TRUE,
                    intact |-> TRUE, summary |-> live[k].summary]
  BY DEF Durable, TypeOK
<1>3. ledger'[k] \in Rows
  BY <1>1, <1>2 DEF Rows, Txs
<1>4. ledger'[k] # NoRow
  BY <1>3, NoRowAssumption
<1>5. [run |-> live[k].run, input |-> live[k].input, summary |-> live[k].summary]
        \in Applications
  BY <1>1 DEF Txs, Applications
<1>6. /\ applied'[k] = Append(applied[k], [run |-> live[k].run, input |-> live[k].input,
                                           summary |-> live[k].summary])
      /\ applied[k] \in Seq(Applications)
      /\ \A j \in Keys : j # k => applied'[j] = applied[j] /\ ledger'[j] = ledger[j]
  BY DEF Durable, TypeOK
<1> QED BY <1>4, <1>5, <1>6

\* Business statements take effect once per ledger row, however callers retry,
\* race, crash or lose their COMMIT.
THEOREM AppliedOncePerRecord == Spec => []OncePerRecord
<1>1. Init => OncePerRecord
  BY DEF Init, OncePerRecord
<1>2. TypeOK /\ Consistent /\ OncePerRecord /\ [Next]_vars => OncePerRecord'
  <2> SUFFICES ASSUME TypeOK, Consistent, OncePerRecord, [Next]_vars PROVE OncePerRecord'
    OBVIOUS
  <2>1. CASE UNCHANGED <<ledger, applied, purges>>
    BY <2>1 DEF OncePerRecord
  <2>2. ASSUME NEW k \in Keys, live[k] # NoTx, Durable(k), UNCHANGED purges
        PROVE  OncePerRecord'
    <3>1. ledger[k] = NoRow
      BY <2>2 DEF Consistent, TransactionOK
    <3>2. Len(applied'[k]) = Len(applied[k]) + 1 /\ Len(applied[k]) \in Nat
      <4>1. \E a \in Applications : applied'[k] = Append(applied[k], a)
        BY <2>2, DurableEffect, Zenon
      <4> QED BY <4>1 DEF TypeOK
    <3>3. Len(applied[k]) = purges[k]
      BY <3>1 DEF OncePerRecord, TypeOK
    <3> QED BY <2>2, <3>2, <3>3, DurableEffect DEF OncePerRecord
  <2>3. ASSUME NEW k \in Keys, Damage(k) PROVE OncePerRecord'
    <3>1. PICK row \in Corruptions(ledger[k]) : ledger' = [ledger EXCEPT ![k] = row]
      BY <2>3 DEF Damage
    <3>2. row \in Rows /\ ledger[k] # NoRow
      BY <2>3, CorruptionTypes DEF Damage, TypeOK
    <3>3. \A j \in Keys : ledger'[j] = NoRow <=> ledger[j] = NoRow
      BY <3>1, <3>2, NoRowAssumption DEF TypeOK
    <3>4. UNCHANGED <<applied, purges>>
      BY <2>3 DEF Damage
    <3> QED BY <3>3, <3>4 DEF OncePerRecord
  <2>4. ASSUME NEW k \in Keys, Purge(k) PROVE OncePerRecord'
    <3>1. /\ ledger[k] # NoRow /\ ledger'[k] = NoRow /\ purges'[k] = purges[k] + 1
          /\ UNCHANGED applied /\ purges[k] \in Nat
          /\ \A j \in Keys : j # k => ledger'[j] = ledger[j] /\ purges'[j] = purges[j]
      BY <2>4 DEF Purge, TypeOK
    <3> QED BY <3>1 DEF OncePerRecord
  <2> QED BY <2>1, <2>2, <2>3, <2>4, DurableSteps
<1> QED BY <1>1, <1>2, TypeCorrect, ConsistentInvariant, PTL DEF Spec

\* No command is half applied, and hooks affect exactly one row.
THEOREM NothingHalfApplied == Spec => []WholeCommands
<1>1. Init => WholeCommands
  BY DEF Init, WholeCommands
<1>2. TypeOK /\ Consistent /\ WholeCommands /\ [Next]_vars => WholeCommands'
  <2> SUFFICES ASSUME TypeOK, Consistent, WholeCommands, [Next]_vars PROVE WholeCommands'
    OBVIOUS
  <2>1. CASE UNCHANGED applied
    BY <2>1 DEF WholeCommands
  <2>2. ASSUME NEW k \in Keys, live[k] # NoTx, live[k].saved, Durable(k)
        PROVE  WholeCommands'
    <3> DEFINE t == live[k]
               a == [run |-> t.run, input |-> t.input, summary |-> t.summary]
               Whole(b) == /\ Len(b.summary) = Steps[b.input]
                           /\ \A j \in (Steps[b.input] - Hooks[b.input] + 1)..Steps[b.input] :
                                b.summary[j] = 1
    <3>1. t \in Txs /\ TransactionOK(k, t)
      BY <2>2 DEF TypeOK, Consistent
    <3>2. Steps[t.input] \in Nat /\ Hooks[t.input] \in Nat /\ Hooks[t.input] < Steps[t.input]
      BY <3>1, StepsAssumption, HooksAssumption DEF Txs
    <3>3. Len(t.summary) = Steps[t.input] /\ HooksAffectOneRow(t.input, t.summary)
      BY <2>2, <3>1 DEF TransactionOK
    <3>4. Whole(a)
      BY <3>2, <3>3, SMTT(30) DEF HooksAffectOneRow
    <3>5. /\ applied'[k] = Append(applied[k], a) /\ applied[k] \in Seq(Applications)
          /\ a \in Applications
          /\ \A j \in Keys : j # k => applied'[j] = applied[j]
      BY <2>2, DurableEffect, Zenon
    <3> HIDE DEF a, Whole
    <3>6. /\ Len(applied'[k]) = Len(applied[k]) + 1
          /\ \A n \in 1..Len(applied[k]) : applied'[k][n] = applied[k][n]
          /\ applied'[k][Len(applied[k]) + 1] = a
          /\ Len(applied[k]) \in Nat
      BY <3>5
    <3>7. \A j \in Keys : \A n \in 1..Len(applied[j]) : Whole(applied[j][n])
      BY DEF WholeCommands, Whole
    <3>8. \A j \in Keys : \A n \in 1..Len(applied'[j]) : Whole(applied'[j][n])
      BY <3>4, <3>5, <3>6, <3>7, SMTT(60)
    <3> QED BY <3>8 DEF WholeCommands, Whole
  <2> QED BY <2>1, <2>2, DurableSteps DEF Damage, Purge
<1> QED BY <1>1, <1>2, TypeCorrect, ConsistentInvariant, PTL DEF Spec

\* A transaction at the server was there before, with the same run, or was
\* opened by the reservation of a run that is not over.
LEMMA LiveRuns ==
  ASSUME TypeOK, [Next]_vars, NEW k \in Keys, live'[k] # NoTx
  PROVE  \/ live[k] # NoTx /\ live'[k].run = live[k].run
         \/ \E c \in Callers : pc[c] = "reserve" /\ live'[k].run = Run(c)
<1> USE DEF callerVars, dbVars, envVars
<1> DEFINE Goal == \/ live[k] # NoTx /\ live'[k].run = live[k].run
                   \/ \E c \in Callers : pc[c] = "reserve" /\ live'[k].run = Run(c)
<1>1. CASE live' = live
  BY <1>1
<1>2. ASSUME NEW j, Ended(j) PROVE Goal
  BY <1>2 DEF Ended, TypeOK
<1>3. ASSUME NEW j \in Keys, live[j] # NoTx, NEW sent \in BOOLEAN,
             live' = [live EXCEPT ![j] = Detached(live[j], sent)]
      PROVE  Goal
  <2>1. live[j] \in Txs /\ Detached(live[j], sent).run = live[j].run
    BY <1>3, DetachedFields DEF TypeOK
  <2> QED BY <1>3, <2>1 DEF TypeOK
<1>4. ASSUME NEW c \in Callers, ExecStep(c) PROVE Goal
  <2>1. PICK n \in Nat : live' = [live EXCEPT ![call[c].key] = Counted(live[call[c].key], n)]
    BY <1>4, CountsAssumption DEF ExecStep
  <2>2. live[call[c].key] \in Txs /\ call[c].key \in Keys /\ live[call[c].key] # NoTx
    BY <1>4 DEF ExecStep, Owns, Holds, TypeOK
  <2>3. Counted(live[call[c].key], n).run = live[call[c].key].run
    BY <2>2, CountedFields
  <2> QED BY <2>1, <2>2, <2>3 DEF TypeOK
<1>5. ASSUME NEW c \in Callers, SaveResult(c) PROVE Goal
  <2>1. live[call[c].key] \in Txs /\ call[c].key \in Keys /\ live[call[c].key] # NoTx
    BY <1>5 DEF SaveResult, Owns, Holds, TypeOK
  <2>2. Saved(live[call[c].key]).run = live[call[c].key].run
    BY <2>1, SavedFields
  <2> QED BY <1>5, <2>1, <2>2 DEF TypeOK, SaveResult
<1>6. ASSUME NEW c \in Callers, NEW a \in BOOLEAN, pc[c] = "reserve",
             live' = [live EXCEPT ![call[c].key] = NewTx(c, a)]
      PROVE  Goal
  <2>1. NewTx(c, a).run = Run(c)
    BY DEF NewTx
  <2> QED BY <1>6, <2>1 DEF TypeOK
<1>7. ASSUME NEW c \in Callers, ExecFails(c) \/ CommitCancelled(c) PROVE Goal
  <2>1. PICK cause : Rollback(c, cause)
    BY <1>7 DEF ExecFails, CommitCancelled
  <2>2. call[c].key \in Keys /\ (Owns(c) => live[call[c].key] # NoTx)
    BY DEF TypeOK, Owns, Holds
  <2> QED BY <1>1, <1>2, <1>3, <2>1, <2>2 DEF Rollback, Lost
<1>8. ASSUME NEW c \in Callers, CommitFails(c) \/ Panic(c) \/ Crash(c) \/ AwaitDone(c)
      PROVE  Goal
  <2>1. call[c].key \in Keys /\ (Owns(c) => live[call[c].key] # NoTx)
    BY DEF TypeOK, Owns, Holds
  <2> QED BY <1>1, <1>2, <1>3, <1>8, <2>1 DEF CommitFails, Panic, Crash, AwaitDone, Lost
<1>9. ASSUME NEW c \in Callers, Progress(c) PROVE Goal
  <2>1. CASE Validate(c) \/ Lookup(c) \/ Begin(c) \/ ReserveDuplicate(c) \/ Relookup(c)
    BY <1>1, <2>1 DEF Validate, Lookup, Begin, ReserveDuplicate, Relookup
  <2>2. CASE Reserve(c) \/ ReserveFails(c)
    BY <1>1, <1>6, <2>2 DEF Reserve, ReserveFails
  <2>3. CASE Commit(c)
    BY <1>2, <2>3 DEF Commit, Durable
  <2> QED BY <1>4, <1>5, <1>7, <1>8, <1>9, <2>1, <2>2, <2>3 DEF Progress
<1>10. ASSUME NEW j \in Keys, ServerAborts(j) \/ ServerResolves(j) \/ Damage(j) \/ Purge(j)
       PROVE  Goal
  BY <1>1, <1>2, <1>10 DEF ServerAborts, ServerResolves, Damage, Purge, Durable
<1>11. ASSUME NEW c \in Callers, Cancel(c) \/ \E j \in Keys, i \in Inputs : Call(c, j, i)
       PROVE  Goal
  BY <1>1, <1>11 DEF Cancel, Call
<1> QED BY <1>1, <1>8, <1>9, <1>10, <1>11 DEF Next, vars

\* How a run may end: with a definite answer only if nothing of it is left at
\* the server and nothing was made durable.
LEMMA ReturnSteps ==
  ASSUME TypeOK, Consistent, [Next]_vars, NEW r \in returns', r \notin returns
  PROVE  \E c \in Callers :
           /\ pc[c] # "idle" /\ r.run = Run(c)
           /\ r.kind \in Definite =>
                /\ applied' = applied
                /\ \A k \in Keys : live'[k] # NoTx => live'[k].run # Run(c)
<1> USE DEF callerVars, dbVars, envVars
<1> DEFINE Goal(c) == /\ pc[c] # "idle" /\ r.run = Run(c)
                      /\ r.kind \in Definite =>
                           /\ applied' = applied
                           /\ \A k \in Keys : live'[k] # NoTx => live'[k].run # Run(c)
<1>1. \A c, kind, s : Return(c, kind, s) => r.run = Run(c) /\ r.kind = kind
  BY DEF Return
<1>2. \A c \in Callers : pc[c] # "idle" =>
        \A k \in Keys : live[k] # NoTx /\ live[k].run = Run(c) => k = call[c].key
  <2> SUFFICES ASSUME NEW c \in Callers, pc[c] # "idle", NEW k \in Keys, live[k] # NoTx,
                      live[k].run = Run(c)
               PROVE  k = call[c].key
    OBVIOUS
  <2>1. call[c] = [key |-> k, input |-> live[k].input]
    BY DEF Consistent, TransactionOK
  <2> QED BY <2>1
<1>3. ASSUME NEW c \in Callers,
             Validate(c) \/ Lookup(c) \/ Begin(c) \/ ReserveDuplicate(c) \/ Relookup(c)
      PROVE  Goal(c)
  <2>1. pc[c] \notin {"idle", "exec", "commit"} /\ UNCHANGED dbVars
    BY <1>3 DEF Validate, Lookup, Begin, ReserveDuplicate, Relookup
  <2>2. \E kind, s : Return(c, kind, s)
    BY <1>3 DEF Validate, Lookup, Begin, ReserveDuplicate, Relookup, ReturnFound
  <2> QED BY <1>1, <2>1, <2>2, OutsideApply
<1>4. ASSUME NEW c \in Callers, ReserveFails(c) PROVE Goal(c)
  <2>1. CASE live' = live
    <3>1. \E kind, s : Return(c, kind, s)
      BY <1>4, <2>1 DEF ReserveFails
    <3> QED BY <1>1, <1>4, <2>1, <3>1, OutsideApply DEF ReserveFails
  <2>2. CASE live' # live
    <3>1. Return(c, "unknown", <<>>) /\ pc[c] # "idle"
      BY <1>4, <2>2 DEF ReserveFails
    <3>2. r.run = Run(c) /\ r.kind = "unknown"
      BY <1>1, <3>1
    <3> QED BY <3>1, <3>2 DEF Definite
  <2> QED BY <2>1, <2>2
<1>5. ASSUME NEW c \in Callers, ExecFails(c) \/ CommitCancelled(c) PROVE Goal(c)
  <2>1. PICK cause : Rollback(c, cause)
    BY <1>5 DEF ExecFails, CommitCancelled
  <2>2. pc[c] # "idle" /\ applied' = applied
    BY <1>5 DEF ExecFails, CommitCancelled
  <2>3. CASE Return(c, "unknown", <<>>)
    BY <1>1, <2>2, <2>3 DEF Definite
  <2>4. CASE Owns(c) /\ Ended(call[c].key) /\ Return(c, cause, <<>>)
    <3>1. \A k \in Keys : live'[k] # NoTx => k # call[c].key /\ live'[k] = live[k]
      BY <2>4 DEF Ended, TypeOK
    <3> QED BY <1>1, <1>2, <2>2, <2>4, <3>1
  <2>5. CASE ~Holds(c) /\ live' = live /\ Return(c, cause, <<>>)
    BY <1>1, <1>2, <2>2, <2>5 DEF Holds
  <2> QED BY <2>1, <2>3, <2>4, <2>5 DEF Rollback
<1>6. ASSUME NEW c \in Callers, Commit(c) \/ CommitFails(c) \/ Panic(c) \/ Crash(c)
      PROVE  Goal(c)
  <2>1. pc[c] # "idle" /\ \E kind \in {"applied", "unknown", "panicked", "crashed"} :
                            \E s : Return(c, kind, s)
    BY <1>6 DEF Commit, CommitFails, Panic, Crash
  <2> QED BY <1>1, <2>1 DEF Definite
<1>7. ASSUME NEW c \in Callers, Reserve(c) \/ ExecStep(c) \/ SaveResult(c) PROVE FALSE
  BY <1>7 DEF Reserve, ExecStep, SaveResult
<1>8. ASSUME NEW c \in Callers, Cancel(c) \/ AwaitDone(c)
                                \/ \E k \in Keys, i \in Inputs : Call(c, k, i)
      PROVE  FALSE
  BY <1>8 DEF Cancel, AwaitDone, Call
<1>9. ASSUME NEW k \in Keys, ServerAborts(k) \/ ServerResolves(k) \/ Damage(k) \/ Purge(k)
      PROVE  FALSE
  BY <1>9 DEF ServerAborts, ServerResolves, Damage, Purge
<1>10. ~ UNCHANGED vars
  BY DEF vars
<1> QED BY <1>3, <1>4, <1>5, <1>6, <1>7, <1>8, <1>9, <1>10 DEF Next, Progress

\* A definite answer is the truth: its run applied nothing and never will.
THEOREM DefiniteAnswers == Spec => []DefiniteMeansNotApplied
<1>1. Init => DefiniteMeansNotApplied
  BY DEF Init, DefiniteMeansNotApplied
<1>2. TypeOK /\ Consistent /\ DefiniteMeansNotApplied /\ [Next]_vars => DefiniteMeansNotApplied'
  <2> SUFFICES ASSUME TypeOK, Consistent, DefiniteMeansNotApplied, [Next]_vars,
                      NEW r \in returns', r.kind \in Definite
               PROVE  /\ \A k \in Keys : \A n \in 1..Len(applied'[k]) : applied'[k][n].run # r.run
                      /\ \A k \in Keys : live'[k] # NoTx => live'[k].run # r.run
    BY DEF DefiniteMeansNotApplied
  <2>1. CASE r \in returns
    <3>1. /\ \A k \in Keys : \A n \in 1..Len(applied[k]) : applied[k][n].run # r.run
          /\ \A k \in Keys : live[k] # NoTx => live[k].run # r.run
          /\ \A c \in Callers : r.run = Run(c) => pc[c] = "idle"
      BY <2>1 DEF DefiniteMeansNotApplied, Consistent, Over
    <3>2. \A k \in Keys : live'[k] # NoTx => live'[k].run # r.run
      BY <3>1, LiveRuns
    <3>3. \A k \in Keys : \A n \in 1..Len(applied'[k]) : applied'[k][n].run # r.run
      <4>1. CASE applied' = applied
        BY <3>1, <4>1
      <4>2. ASSUME NEW k \in Keys, live[k] # NoTx, Durable(k)
            PROVE  \A j \in Keys : \A n \in 1..Len(applied'[j]) : applied'[j][n].run # r.run
        <5> DEFINE a == [run |-> live[k].run, input |-> live[k].input,
                         summary |-> live[k].summary]
        <5>1. /\ applied'[k] = Append(applied[k], a) /\ applied[k] \in Seq(Applications)
              /\ a \in Applications
              /\ \A j \in Keys : j # k => applied'[j] = applied[j]
          BY <4>2, DurableEffect, Zenon
        <5>2. a.run # r.run
          BY <3>1, <4>2
        <5> HIDE DEF a
        <5>3. /\ Len(applied'[k]) = Len(applied[k]) + 1
              /\ \A n \in 1..Len(applied[k]) : applied'[k][n] = applied[k][n]
              /\ applied'[k][Len(applied[k]) + 1] = a
              /\ Len(applied[k]) \in Nat
          BY <5>1
        <5> QED BY <3>1, <5>1, <5>2, <5>3, SMTT(120)
      <4> QED BY <4>1, <4>2, DurableSteps DEF Damage, Purge
    <3> QED BY <3>2, <3>3
  <2>2. CASE r \notin returns
    <3>1. PICK c \in Callers : /\ pc[c] # "idle" /\ r.run = Run(c) /\ applied' = applied
                               /\ \A k \in Keys : live'[k] # NoTx => live'[k].run # Run(c)
      BY <2>2, ReturnSteps
    <3>2. \A k \in Keys : \A n \in 1..Len(applied[k]) : applied[k][n].run # Run(c)
      BY <3>1 DEF Consistent, Over
    <3> QED BY <3>1, <3>2
  <2> QED BY <2>1, <2>2
<1> QED BY <1>1, <1>2, TypeCorrect, ConsistentInvariant, PTL DEF Spec

\* How a run may end successfully.
LEMMA SuccessSteps ==
  ASSUME TypeOK, Consistent, [Next]_vars, NEW r \in returns', r \notin returns,
         r.kind \in {"applied", "replayed"}
  PROVE  \E c \in Callers :
           LET k == call[c].key IN
           /\ pc[c] # "idle" /\ r.run = Run(c) /\ r.key = k /\ r.input = call[c].input
           /\ k \in Keys
           /\ \/ /\ r.kind = "applied" /\ Owns(c) /\ Durable(k)
                 /\ r.summary = live[k].summary
              \/ /\ r.kind = "replayed" /\ UNCHANGED <<ledger, live, applied>>
                 /\ ledger[k] # NoRow
                 /\ LookupOutcome(ledger[k], call[c].input) = "replayed"
                 /\ r.summary = ledger[k].summary
<1> USE DEF callerVars, dbVars, envVars
<1>1. \A c, kind, s : Return(c, kind, s) =>
        /\ r.run = Run(c) /\ r.kind = kind /\ r.key = call[c].key /\ r.input = call[c].input
        /\ r.summary = s
  BY DEF Return
<1>2. \A c \in Callers : call[c].key \in Keys
  BY DEF TypeOK
<1>3. ASSUME NEW c \in Callers, Lookup(c) \/ Relookup(c)
      PROVE  /\ pc[c] # "idle" /\ r.run = Run(c) /\ r.key = call[c].key
             /\ r.input = call[c].input
             /\ r.kind = "replayed" /\ UNCHANGED <<ledger, live, applied>>
             /\ ledger[call[c].key] # NoRow
             /\ LookupOutcome(ledger[call[c].key], call[c].input) = "replayed"
             /\ r.summary = ledger[call[c].key].summary
  <2>1. pc[c] # "idle" /\ UNCHANGED dbVars
    BY <1>3 DEF Lookup, Relookup
  <2>2. ~Return(c, "error", <<>>) /\ ~Return(c, "unknown", <<>>) /\ returns' # returns
    BY <1>1
  <2>3. ledger[call[c].key] # NoRow /\ ReturnFound(c, ledger[call[c].key])
    BY <1>3, <2>2 DEF Lookup, Relookup
  <2>4. LookupOutcome(ledger[call[c].key], call[c].input) \in {"corrupt", "conflict", "replayed"}
    BY DEF LookupOutcome
  <2> QED BY <1>1, <2>1, <2>3, <2>4 DEF ReturnFound
<1>4. ASSUME NEW c \in Callers, Commit(c)
      PROVE  /\ pc[c] # "idle" /\ r.run = Run(c) /\ r.key = call[c].key
             /\ r.input = call[c].input /\ r.kind = "applied" /\ Owns(c)
             /\ Durable(call[c].key) /\ r.summary = live[call[c].key].summary
  BY <1>1, <1>4 DEF Commit
<1>5. ASSUME NEW c \in Callers,
             Validate(c) \/ Begin(c) \/ ReserveDuplicate(c) \/ ReserveFails(c)
             \/ CommitFails(c) \/ Panic(c) \/ Crash(c)
      PROVE  FALSE
  <2>1. \E kind \in {"refused", "error", "corrupt", "unknown", "panicked", "crashed"} :
          Return(c, kind, <<>>)
    BY <1>5 DEF Validate, Begin, ReserveDuplicate, ReserveFails, CommitFails, Panic, Crash
  <2> QED BY <1>1, <2>1
<1>6. ASSUME NEW c \in Callers, ExecFails(c) \/ CommitCancelled(c) PROVE FALSE
  <2>1. \E kind \in {"error", "corrupt", "unknown"} : Return(c, kind, <<>>)
    BY <1>6 DEF ExecFails, CommitCancelled, Rollback
  <2> QED BY <1>1, <2>1
<1>7. ASSUME NEW c \in Callers, Reserve(c) \/ ExecStep(c) \/ SaveResult(c) PROVE FALSE
  BY <1>7 DEF Reserve, ExecStep, SaveResult
<1>8. ASSUME NEW c \in Callers, Cancel(c) \/ AwaitDone(c)
                                \/ \E k \in Keys, i \in Inputs : Call(c, k, i)
      PROVE  FALSE
  BY <1>8 DEF Cancel, AwaitDone, Call
<1>9. ASSUME NEW k \in Keys, ServerAborts(k) \/ ServerResolves(k) \/ Damage(k) \/ Purge(k)
      PROVE  FALSE
  BY <1>9 DEF ServerAborts, ServerResolves, Damage, Purge
<1>10. ~ UNCHANGED vars
  BY DEF vars
<1>11. \E c \in Callers : Lookup(c) \/ Relookup(c) \/ Commit(c)
  BY <1>5, <1>6, <1>7, <1>8, <1>9, <1>10 DEF Next, Progress
<1> QED BY <1>2, <1>3, <1>4, <1>11

\* Whoever is told that a command succeeded is told the truth: its key, input
\* and summary are those of a committed application.
THEOREM TruthfulAnswers == Spec => []AnswersAreApplications
<1>1. Init => AnswersAreApplications
  BY DEF Init, AnswersAreApplications
<1>2. TypeOK /\ Consistent /\ AnswersAreApplications /\ [Next]_vars => AnswersAreApplications'
  <2> SUFFICES ASSUME TypeOK, Consistent, AnswersAreApplications, [Next]_vars,
                      NEW r \in returns', r.kind \in {"applied", "replayed"}
               PROVE  \E n \in 1..Len(applied'[r.key]) :
                        /\ applied'[r.key][n].input = r.input
                        /\ applied'[r.key][n].summary = r.summary
                        /\ r.kind = "applied" <=> applied'[r.key][n].run = r.run
    BY DEF AnswersAreApplications
  <2>0. ASSUME NEW j \in Keys
        PROVE  /\ Len(applied[j]) \in Nat /\ Len(applied'[j]) \in Nat
               /\ Len(applied[j]) <= Len(applied'[j])
               /\ \A n \in 1..Len(applied[j]) : applied'[j][n] = applied[j][n]
    <3>1. applied[j] \in Seq(Applications)
      BY DEF TypeOK
    <3>2. CASE applied' = applied
      BY <3>1, <3>2
    <3>3. ASSUME NEW k \in Keys, live[k] # NoTx, Durable(k)
          PROVE  applied'[j] = applied[j] \/ \E a \in Applications : applied'[j] = Append(applied[j], a)
      BY <3>3, DurableEffect, Zenon
    <3>4. applied'[j] = applied[j] \/ \E a \in Applications : applied'[j] = Append(applied[j], a)
      BY <3>2, <3>3, DurableSteps DEF Damage, Purge
    <3> QED BY <3>1, <3>4
  <2>1. CASE r \in returns
    <3>1. r.key \in Keys
      BY <2>1 DEF TypeOK, Returns
    <3>2. PICK n \in 1..Len(applied[r.key]) :
            /\ applied[r.key][n].input = r.input
            /\ applied[r.key][n].summary = r.summary
            /\ r.kind = "applied" <=> applied[r.key][n].run = r.run
      BY <2>1 DEF AnswersAreApplications
    <3>3. n \in 1..Len(applied'[r.key]) /\ applied'[r.key][n] = applied[r.key][n]
      BY <2>0, <3>1, <3>2
    <3> QED BY <3>2, <3>3
  <2>2. CASE r \notin returns
    <3>1. PICK c \in Callers :
            LET k == call[c].key IN
            /\ pc[c] # "idle" /\ r.run = Run(c) /\ r.key = k /\ r.input = call[c].input
            /\ k \in Keys
            /\ \/ /\ r.kind = "applied" /\ Owns(c) /\ Durable(k)
                  /\ r.summary = live[k].summary
               \/ /\ r.kind = "replayed" /\ UNCHANGED <<ledger, live, applied>>
                  /\ ledger[k] # NoRow
                  /\ LookupOutcome(ledger[k], call[c].input) = "replayed"
                  /\ r.summary = ledger[k].summary
      BY <2>2, SuccessSteps
    <3> DEFINE k == call[c].key
               m == Len(applied[k])
    <3>2. CASE r.kind = "applied"
      <4>1. live[k] # NoTx /\ live[k].run = Run(c) /\ Durable(k) /\ TransactionOK(k, live[k])
        BY <3>1, <3>2 DEF Owns, Holds, Consistent
      <4>2. live[k].input = call[c].input
        BY <3>1, <4>1 DEF TransactionOK
      <4> DEFINE a == [run |-> live[k].run, input |-> live[k].input,
                       summary |-> live[k].summary]
      <4>3. applied'[k] = Append(applied[k], a) /\ applied[k] \in Seq(Applications)
            /\ a \in Applications
        BY <3>1, <4>1, DurableEffect, Zenon
      <4>4. a.run = r.run /\ a.input = r.input /\ a.summary = r.summary
        BY <3>1, <3>2, <4>1, <4>2
      <4> HIDE DEF a
      <4>5. m + 1 \in 1..Len(applied'[k]) /\ applied'[k][m + 1] = a
        BY <4>3, SMTT(30)
      <4> QED BY <3>1, <3>2, <4>4, <4>5
    <3>3. CASE r.kind = "replayed"
      <4>1. /\ UNCHANGED applied /\ ledger[k] # NoRow /\ ledger[k] \in Rows
            /\ ledger[k].input = call[c].input /\ r.summary = ledger[k].summary
        BY <3>1, <3>3 DEF LookupOutcome, TypeOK
      <4>2. /\ m \in 1..Len(applied[k]) /\ applied[k][m].input = ledger[k].input
            /\ applied[k][m].summary = ledger[k].summary
        BY <3>1, <4>1, <2>0 DEF Consistent, RowOK
      <4>3. applied[k][m].run # Run(c)
        BY <3>1, <4>2 DEF Consistent, Over
      <4> QED BY <3>1, <3>3, <4>1, <4>2, <4>3, ZenonT(60)
    <3> QED BY <3>2, <3>3
  <2> QED BY <2>1, <2>2
<1> QED BY <1>1, <1>2, TypeCorrect, ConsistentInvariant, PTL DEF Spec

(***************************************************************************)
(* The store implements OnceLedger.                                        *)
(***************************************************************************)

\* The successful answers after a run ended: those before, and its own if it
\* succeeded.
LEMMA SuccessesStep ==
  ASSUME NEW S, NEW r
  PROVE  /\ r.kind \in {"applied", "replayed"} =>
              Successes(S \cup {r}) = Successes(S) \cup {Answer(r)}
         /\ r.kind \notin {"applied", "replayed"} => Successes(S \cup {r}) = Successes(S)
  BY DEF Successes

\* A step adds the record of at most one run.
LEMMA OneReturn ==
  ASSUME TypeOK, [Next]_vars
  PROVE  returns' = returns \/ \E r : r \in returns' /\ returns' = returns \cup {r}
<1> USE DEF callerVars, dbVars, envVars
<1>1. ASSUME NEW c, NEW kind, NEW s, Return(c, kind, s)
      PROVE  \E r : r \in returns' /\ returns' = returns \cup {r}
  BY <1>1 DEF Return
<1>2. ASSUME NEW c \in Callers, Progress(c)
      PROVE  returns' = returns \/ \E kind, s : Return(c, kind, s)
  BY <1>2 DEF Progress, Validate, Lookup, Begin, Reserve, ReserveDuplicate, ReserveFails,
              Relookup, ExecStep, ExecFails, SaveResult, Commit, CommitCancelled,
              CommitFails, Rollback, ReturnFound
<1>3. ASSUME NEW c \in Callers, Panic(c) \/ Cancel(c) \/ AwaitDone(c) \/ Crash(c)
      PROVE  returns' = returns \/ \E kind, s : Return(c, kind, s)
  BY <1>3 DEF Panic, Cancel, AwaitDone, Crash
<1>4. ASSUME NEW k \in Keys, ServerAborts(k) \/ ServerResolves(k) \/ Damage(k) \/ Purge(k)
      PROVE  returns' = returns
  BY <1>4 DEF ServerAborts, ServerResolves, Damage, Purge
<1>5. ASSUME NEW c \in Callers, NEW k \in Keys, NEW i \in Inputs, Call(c, k, i)
      PROVE  returns' = returns
  BY <1>5 DEF Call
<1>6. ASSUME UNCHANGED vars PROVE returns' = returns
  BY <1>6 DEF vars
<1> QED BY <1>1, <1>2, <1>3, <1>4, <1>5, <1>6 DEF Next

\* The last application of a key that has a row is the decision of the key.
LEMMA DecisionFacts ==
  ASSUME TypeOK, Consistent, NEW k \in Keys
  PROVE  /\ ledger[k] = NoRow => Decision(k) = NoRow
         /\ ledger[k] # NoRow =>
              /\ Decision(k) = [input |-> ledger[k].input, summary |-> ledger[k].summary]
              /\ Decision(k) \in Once!Decisions
              /\ Decision(k) # NoRow
<1>1. CASE ledger[k] # NoRow
  <2>1. ledger[k] \in Rows /\ RowOK(k) /\ Len(applied[k]) \in Nat
    BY <1>1 DEF TypeOK, Consistent
  <2>2. Decision(k) = [input |-> ledger[k].input, summary |-> ledger[k].summary]
    BY <1>1, <2>1 DEF Decision, RowOK
  <2>3. Decision(k) \in [input : Inputs, summary : Summaries]
    BY <2>1, <2>2 DEF Rows
  <2> QED BY <1>1, <2>2, <2>3, NoRowAssumption DEF Once!Decisions, Once!Summaries, Summaries
<1>2. CASE ledger[k] = NoRow
  BY <1>2 DEF Decision
<1> QED BY <1>1, <1>2

\* Every step of the store is a step of the ledger it promises, or none.
LEMMA OnceStep ==
  ASSUME TypeOK, TypeOK', Consistent, Consistent', [Next]_vars
  PROVE  [Once!Next]_(Once!vars)
<1> DEFINE rec == [k \in Keys |-> Decision(k)]
<1>1. \A k \in Keys : rec[k] = Decision(k) /\ rec'[k] = Decision(k)'
  OBVIOUS
<1>2. CASE UNCHANGED <<ledger, applied>> /\ UNCHANGED returns
  <2>1. Successes(returns)' = Successes(returns) /\ rec' = rec
    BY <1>2 DEF Decision
  <2> QED BY <2>1 DEF Once!vars
<1>3. CASE UNCHANGED <<ledger, applied>> /\ returns' # returns
  <2>1. rec' = rec
    BY <1>3 DEF Decision
  <2>2. PICK r \in returns' : returns' = returns \cup {r} /\ r \notin returns
    BY <1>3, OneReturn
  <2>3. CASE r.kind \notin {"applied", "replayed"}
    BY <2>1, <2>2, <2>3, SuccessesStep DEF Once!vars
  <2>4. CASE r.kind \in {"applied", "replayed"}
    <3>1. PICK c \in Callers :
            LET k == call[c].key IN
            /\ pc[c] # "idle" /\ r.run = Run(c) /\ r.key = k /\ r.input = call[c].input
            /\ k \in Keys
            /\ \/ /\ r.kind = "applied" /\ Owns(c) /\ Durable(k)
                  /\ r.summary = live[k].summary
               \/ /\ r.kind = "replayed" /\ UNCHANGED <<ledger, live, applied>>
                  /\ ledger[k] # NoRow
                  /\ LookupOutcome(ledger[k], call[c].input) = "replayed"
                  /\ r.summary = ledger[k].summary
      BY <2>2, <2>4, SuccessSteps
    <3> DEFINE k == call[c].key
    <3>2. ~(Owns(c) /\ Durable(k))
      <4> SUFFICES ASSUME Owns(c), Durable(k) PROVE FALSE
        OBVIOUS
      <4>1. live[k] # NoTx /\ ledger[k] = NoRow /\ k \in Keys
        BY <3>1 DEF Owns, Holds, Consistent, TransactionOK
      <4>2. ledger'[k] # NoRow
        BY <4>1, DurableEffect
      <4> QED BY <1>3, <4>1, <4>2
    <3>3. /\ r.kind = "replayed" /\ k \in Keys /\ ledger[k] # NoRow /\ r.key = k
          /\ ledger[k].input = r.input /\ r.summary = ledger[k].summary
      BY <3>1, <3>2 DEF LookupOutcome
    <3>4. Answer(r) = [key |-> k, input |-> rec[k].input, summary |-> rec[k].summary,
                       applied |-> FALSE] /\ rec[k] # NoRow
      <4>1. rec[k] = [input |-> ledger[k].input, summary |-> ledger[k].summary] /\ rec[k] # NoRow
        BY <1>1, <3>3, DecisionFacts
      <4>2. rec[k].input = r.input /\ rec[k].summary = r.summary
        BY <4>1, <3>3
      <4> HIDE DEF rec
      <4> QED BY <3>3, <4>1, <4>2 DEF Answer
    <3>5. Successes(returns') = Successes(returns) \cup {Answer(r)}
      BY <2>2, <2>4, SuccessesStep
    <3>6. Once!Replay(k)
      BY <2>1, <3>3, <3>4, <3>5 DEF Once!Replay
    <3> QED BY <3>3, <3>6 DEF Once!Next
  <2> QED BY <2>3, <2>4
<1>4. ASSUME NEW k \in Keys, live[k] # NoTx, Durable(k) PROVE Once!Next
  <2>1. ledger[k] = NoRow
    BY <1>4 DEF Consistent, TransactionOK
  <2>2. /\ ledger'[k] # NoRow
        /\ \A j \in Keys : j # k => ledger'[j] = ledger[j] /\ applied'[j] = applied[j]
    BY <1>4, DurableEffect
  <2> DEFINE d == [input |-> live[k].input, summary |-> live[k].summary]
             a == [run |-> live[k].run, input |-> live[k].input, summary |-> live[k].summary]
  <2>3. d \in Once!Decisions
    BY <1>4 DEF TypeOK, Txs, Once!Decisions, Once!Summaries, Summaries
  <2>4. Decision(k)' = d
    <3>1. applied'[k] = Append(applied[k], a) /\ applied[k] \in Seq(Applications)
          /\ a \in Applications
      BY <1>4, DurableEffect, Zenon
    <3>2. applied'[k][Len(applied'[k])] = a
      <4> HIDE DEF a
      <4> QED BY <3>1
    <3> QED BY <2>2, <3>2 DEF Decision
  <2>5. rec[k] = NoRow /\ rec'[k] = d /\ \A j \in Keys : j # k => rec'[j] = rec[j]
    BY <2>1, <2>2, <2>4 DEF Decision
  <2>6. rec' = [rec EXCEPT ![k] = rec'[k]]
    BY <2>5
  <2>7. \/ Successes(returns') = Successes(returns)
        \/ Successes(returns') = Successes(returns) \cup
             {[key |-> k, input |-> d.input, summary |-> d.summary, applied |-> TRUE]}
    <3>1. CASE returns' = returns
      BY <3>1
    <3>2. CASE returns' # returns
      <4>1. PICK r \in returns' : returns' = returns \cup {r} /\ r \notin returns
        BY <3>2, OneReturn
      <4>2. CASE r.kind \notin {"applied", "replayed"}
        BY <4>1, <4>2, SuccessesStep
      <4>3. CASE r.kind \in {"applied", "replayed"}
        <5>1. PICK c \in Callers :
                LET j == call[c].key IN
                /\ pc[c] # "idle" /\ r.run = Run(c) /\ r.key = j /\ r.input = call[c].input
                /\ j \in Keys
                /\ \/ /\ r.kind = "applied" /\ Owns(c) /\ Durable(j)
                      /\ r.summary = live[j].summary
                   \/ /\ r.kind = "replayed" /\ UNCHANGED <<ledger, live, applied>>
                      /\ ledger[j] # NoRow
                      /\ LookupOutcome(ledger[j], call[c].input) = "replayed"
                      /\ r.summary = ledger[j].summary
          BY <4>1, <4>3, SuccessSteps
        <5> DEFINE j == call[c].key
        <5>2. r.kind = "applied" /\ Owns(c) /\ Durable(j) /\ r.summary = live[j].summary
              /\ j \in Keys /\ r.key = j /\ r.input = call[c].input
          BY <2>1, <2>2, <5>1
        <5>3. live[j] # NoTx /\ TransactionOK(j, live[j]) /\ live[j].run = Run(c)
          BY <5>2 DEF Owns, Holds, Consistent
        <5>4. ledger[j] = NoRow /\ call[c].input = live[j].input
          BY <5>1, <5>3 DEF TransactionOK
        <5>5. ledger'[j] # NoRow
          BY <5>2, <5>3, DurableEffect
        <5>6. j = k
          BY <2>2, <5>2, <5>4, <5>5
        <5>7. Answer(r) = [key |-> k, input |-> d.input, summary |-> d.summary, applied |-> TRUE]
          BY <5>2, <5>4, <5>6 DEF Answer
        <5> QED BY <4>1, <4>3, <5>7, SuccessesStep
      <4> QED BY <4>2, <4>3
    <3> QED BY <3>1, <3>2
  <2>8. Once!Decide(k)
    BY <2>3, <2>5, <2>6, <2>7 DEF Once!Decide
  <2> QED BY <2>8 DEF Once!Next
<1>5. ASSUME NEW k \in Keys, Damage(k) PROVE UNCHANGED (Once!vars)
  <2>1. PICK row \in Corruptions(ledger[k]) : ledger' = [ledger EXCEPT ![k] = row]
    BY <1>5 DEF Damage
  <2>2. row \in Rows /\ ledger[k] # NoRow
    BY <1>5, CorruptionTypes DEF Damage, TypeOK
  <2>3. \A j \in Keys : ledger'[j] = NoRow <=> ledger[j] = NoRow
    BY <2>1, <2>2, NoRowAssumption DEF TypeOK
  <2>4. UNCHANGED <<applied, returns>>
    BY <1>5 DEF Damage, callerVars
  <2>5. \A j \in Keys : Decision(j)' = Decision(j)
    BY <2>3, <2>4 DEF Decision
  <2>6. rec' = rec /\ Successes(returns)' = Successes(returns)
    BY <2>4, <2>5
  <2> QED BY <2>6 DEF Once!vars
<1>6. ASSUME NEW k \in Keys, Purge(k) PROVE Once!Next
  <2>1. /\ ledger[k] # NoRow /\ ledger'[k] = NoRow /\ UNCHANGED <<applied, returns>>
        /\ \A j \in Keys : j # k => ledger'[j] = ledger[j]
    BY <1>6 DEF Purge, TypeOK, callerVars
  <2>2. rec[k] # NoRow
    BY <1>1, <2>1, DecisionFacts
  <2>3. rec' = [rec EXCEPT ![k] = NoRow]
    BY <2>1 DEF Decision
  <2>4. Successes(returns)' = Successes(returns)
    BY <2>1
  <2>5. Once!Forget(k)
    BY <2>2, <2>3, <2>4 DEF Once!Forget
  <2> QED BY <2>5 DEF Once!Next
<1> QED BY <1>2, <1>3, <1>4, <1>5, <1>6, DurableSteps

\* CommandStore implements the ledger it promises to its callers.
THEOREM StoreImplementsOnceLedger == Spec => ImplementsOnceLedger
<1>1. Init => Once!Init
  <2> SUFFICES ASSUME Init PROVE Once!Init
    OBVIOUS
  <2>1. [k \in Keys |-> Decision(k)] = [k \in Keys |-> NoRow]
    BY DEF Init, Decision
  <2>2. Successes(returns) = {}
    BY DEF Init, Successes
  <2> QED BY <2>1, <2>2 DEF Once!Init
<1>2. TypeOK /\ TypeOK' /\ Consistent /\ Consistent' /\ [Next]_vars => [Once!Next]_(Once!vars)
  BY OnceStep
<1> QED BY <1>1, <1>2, TypeCorrect, ConsistentInvariant, PTL DEF Spec, ImplementsOnceLedger, Once!Spec
=============================================================================
