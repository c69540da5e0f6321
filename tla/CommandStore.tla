---------------------------- MODULE CommandStore ----------------------------
(***************************************************************************)
(* orm.CommandStore.Run (orm/command_store.go): callers run commands       *)
(* concurrently against one database that holds the ledger table           *)
(* goquent_commands_v1 and the business tables.  A command has an          *)
(* operation ID chosen by its caller; running it again with the same ID is *)
(* the way to reconcile a lost or ambiguous answer, so callers do run the  *)
(* same key several times, in sequence and concurrently.                   *)
(*                                                                         *)
(* One action is one statement sent to the database together with the code *)
(* that handles its result.  The database is external: a unique key makes  *)
(* an INSERT wait for the open transaction that already holds the key, a   *)
(* transaction is durable as a whole or not at all, and a transaction      *)
(* whose client is gone stays open at the server until the server ends it, *)
(* possibly by executing a COMMIT that was already on its way.             *)
(***************************************************************************)
EXTENDS Integers, Sequences, FiniteSets

CONSTANTS
  Callers,    \* goroutines or processes that call Run
  Keys,       \* (scope_hash, operation_id): the ledger's primary key
  Inputs,     \* canonical command inputs (the bytes snapshotCommand returns)
  Steps,      \* Steps[i]: planned statements of input i, hooks included
  Hooks,      \* Hooks[i]: how many of them, at the end, are command hooks
  Counts,     \* row counts a statement may report
  MaxRuns,    \* bound: a run starts only while fewer runs than this have ended
  MaxPurges,  \* bound: deletions of one key's record by retention
  MaxDamage,  \* bound: out-of-band corruptions of one key's record
  NoRow,      \* the ledger holds no committed row of the key
  NoTx        \* no open transaction holds the key

ASSUME StepsAssumption == Steps \in [Inputs -> Nat \ {0}]
ASSUME HooksAssumption ==
  Hooks \in [Inputs -> Nat] /\ \A i \in Inputs : Hooks[i] < Steps[i]
ASSUME CountsAssumption == Counts \subseteq Nat
ASSUME BoundsAssumption == MaxRuns \in Nat /\ MaxPurges \in Nat /\ MaxDamage \in Nat

VARIABLES
  pc,         \* pc[c]: what caller c does next
  call,       \* call[c]: the key and input of c's current (or last) run
  runs,       \* runs[c]: how many times c called Run
  cancelled,  \* cancelled[c]: the context of c's current run is done
  ledger,     \* ledger[k]: the committed row of key k
  live,       \* live[k]: the open transaction that inserted key k's row
  applied,    \* history: the committed applications of key k, oldest first
  returns,    \* history: how every finished run ended
  purges,     \* purges[k]: how often retention deleted key k's row
  damage      \* damage[k]: how often key k's row was corrupted

callerVars == <<pc, call, runs, cancelled, returns>>
dbVars == <<ledger, live, applied>>
envVars == <<purges, damage>>
vars == <<callerVars, dbVars, envVars>>

(***************************************************************************)
(* Values.                                                                 *)
(***************************************************************************)
Runs == Callers \X Nat
Summaries == Seq(Nat)

\* The kinds of Run's result: a CommandResult (applied or replayed), the
\* error classes of the package, and a caller that died or panicked.
Definite == {"refused", "error", "conflict", "corrupt", "replayed"}
Kinds == Definite \cup {"applied", "unknown", "crashed", "panicked"}

\* A ledger row.  SHA-256 is injective on what the code compares, so the
\* fingerprint of an input is the input; intact says that result is the exact
\* writer format and no column is oversized.
Rows == [format : {1, 2}, status : {0, 1}, ownScope : BOOLEAN, input : Inputs,
         fingerprintOK : BOOLEAN, intact : BOOLEAN, summary : Summaries]

\* An uncommitted transaction that holds the key.  attached: its client still
\* has the connection; commit: a COMMIT is on its way to the server.
Txs == [run : Runs, input : Inputs, summary : Summaries, saved : BOOLEAN,
        attached : BOOLEAN, commit : BOOLEAN]

Applications == [run : Runs, input : Inputs, summary : Summaries]
Returns == [run : Runs, key : Keys, input : Inputs, kind : Kinds, summary : Summaries]

ASSUME NoRowAssumption ==
  NoRow \notin Rows /\ NoRow \notin [input : Inputs, summary : Summaries]
ASSUME NoTxAssumption == NoTx \notin Txs

PCs == {"idle", "validate", "lookup", "begin", "reserve", "relookup", "exec", "commit"}

Run(c) == <<c, runs[c]>>

\* The transaction of c's run is open at the server; and c can still use it.
Holds(c) == live[call[c].key] # NoTx /\ live[call[c].key].run = Run(c)
Owns(c) == Holds(c) /\ live[call[c].key].attached

Init ==
  /\ pc = [c \in Callers |-> "idle"]
  /\ \E k \in Keys, i \in Inputs :
       call = [c \in Callers |-> [key |-> k, input |-> i]]
  /\ runs = [c \in Callers |-> 0]
  /\ cancelled = [c \in Callers |-> FALSE]
  /\ ledger = [k \in Keys |-> NoRow]
  /\ live = [k \in Keys |-> NoTx]
  /\ applied = [k \in Keys |-> <<>>]
  /\ returns = {}
  /\ purges = [k \in Keys |-> 0]
  /\ damage = [k \in Keys |-> 0]

Goto(c, label) == pc' = [pc EXCEPT ![c] = label]

\* Run returns to its caller.
Return(c, kind, summary) ==
  /\ Goto(c, "idle")
  /\ returns' = returns \cup {[run |-> Run(c), key |-> call[c].key,
                               input |-> call[c].input, kind |-> kind,
                               summary |-> summary]}

(***************************************************************************)
(* Run: from the call to the transaction.                                  *)
(***************************************************************************)

\* The application calls Run; a retry uses a fresh context.
Call(c, k, i) ==
  /\ pc[c] = "idle"
  /\ Cardinality(returns) < MaxRuns
  /\ runs' = [runs EXCEPT ![c] = @ + 1]
  /\ call' = [call EXCEPT ![c] = [key |-> k, input |-> i]]
  /\ cancelled' = [cancelled EXCEPT ![c] = FALSE]
  /\ Goto(c, "validate")
  /\ UNCHANGED <<dbVars, returns, envVars>>

\* Input, plans, ledger and table checks, all before any lookup or write.  A
\* done context, a refused statement or a failed read ends the run here.
Validate(c) ==
  /\ pc[c] = "validate"
  /\ \/ ~cancelled[c] /\ Goto(c, "lookup") /\ UNCHANGED returns
     \/ Return(c, "refused", <<>>)
  /\ UNCHANGED <<call, runs, cancelled, dbVars, envVars>>

\* Mutant: scope and input are not compared.
LookupOutcomeNoIdentity(row, i) ==
  CASE row.format # 1 \/ row.status # 1                -> "corrupt"
    [] ~row.intact \/ Len(row.summary) # Steps[row.input] -> "corrupt"
    [] OTHER                                           -> "replayed"

\* What lookup concludes from a row, for a command with input i, in the order
\* of its checks: shape, the row's own fingerprint, identity, result.
LookupOutcome(row, i) ==
  IF row.format # 1 \/ row.status # 1 \/ ~row.fingerprintOK THEN "corrupt"
  ELSE IF ~row.ownScope \/ row.input # i THEN "conflict"
  ELSE IF ~row.intact \/ Len(row.summary) # Steps[i] THEN "corrupt"
  ELSE "replayed"

\* lookup found a row: Run (or apply, after a duplicate) returns what it says.
ReturnFound(c, row) ==
  LET kind == LookupOutcome(row, call[c].input)
  IN  Return(c, kind, IF kind = "replayed" THEN row.summary ELSE <<>>)

\* The replay lookup: a committed row answers, no row goes on to apply.
Lookup(c) ==
  LET row == ledger[call[c].key]
  IN  /\ pc[c] = "lookup"
      /\ \/ ~cancelled[c] /\ row # NoRow /\ ReturnFound(c, row)
         \/ ~cancelled[c] /\ row = NoRow /\ Goto(c, "begin") /\ UNCHANGED returns
         \/ Return(c, "error", <<>>)
      /\ UNCHANGED <<call, runs, cancelled, dbVars, envVars>>

\* BeginTx and the rebind of every planned step.  A failed rebind rolls back
\* a transaction that wrote nothing; that rollback may fail as well.
Begin(c) ==
  /\ pc[c] = "begin"
  /\ \/ ~cancelled[c] /\ Goto(c, "reserve") /\ UNCHANGED returns
     \/ \E kind \in {"error", "unknown"} : Return(c, kind, <<>>)
  /\ UNCHANGED <<call, runs, cancelled, dbVars, envVars>>

(***************************************************************************)
(* apply: reservation, statements, result, commit.                         *)
(***************************************************************************)

\* What happens to the transaction t that holds a key: its client is gone
\* (leaving a COMMIT behind or not), a statement ran, the result was saved.
Detached(t, sent) == [t EXCEPT !.attached = FALSE, !.commit = sent]
Counted(t, n) == [t EXCEPT !.summary = Append(t.summary, n)]
Saved(t) == [t EXCEPT !.saved = TRUE]
Lost(k) == live' = [live EXCEPT ![k] = Detached(live[k], FALSE)]
Ended(k) == live' = [live EXCEPT ![k] = NoTx]

\* The rollback closure of apply.  A confirmed rollback returns the cause; a
\* failed one says "unknown" and may leave the transaction to the server.  If
\* database/sql or the server ended the transaction first, Rollback fails
\* (ErrTxDone, a bad connection); it may succeed only when the server is known
\* to have ended it.
Rollback(c, cause) ==
  LET k == call[c].key
  IN  \/ /\ Owns(c)
         /\ Ended(k)
         /\ Return(c, cause, <<>>)
      \/ /\ Owns(c)
         /\ \/ Ended(k)
            \/ Lost(k)
         /\ Return(c, "unknown", <<>>)
      \/ /\ ~Owns(c)
         /\ \/ Return(c, "unknown", <<>>)
            \/ ~Holds(c) /\ Return(c, cause, <<>>)
         /\ UNCHANGED live

NewTx(c, attached) ==
  [run |-> Run(c), input |-> call[c].input, summary |-> <<>>, saved |-> FALSE,
   attached |-> attached, commit |-> FALSE]

\* Mutant: the reservation is inserted outside the transaction.
ReserveOutsideTx(c) ==
  LET k == call[c].key
  IN  /\ pc[c] = "reserve"
      /\ ~cancelled[c]
      /\ ledger[k] = NoRow /\ live[k] = NoTx
      /\ live' = [live EXCEPT ![k] = NewTx(c, TRUE)]
      /\ ledger' = [ledger EXCEPT ![k] =
           [format |-> 1, status |-> 0, ownScope |-> TRUE, input |-> call[c].input,
            fingerprintOK |-> TRUE, intact |-> TRUE, summary |-> <<>>]]
      /\ Goto(c, "exec")
      /\ UNCHANGED <<call, runs, cancelled, returns, applied, envVars>>

\* The INSERT of the pending row succeeds: no committed row has the key and no
\* open transaction holds it.
Reserve(c) ==
  LET k == call[c].key
  IN  /\ pc[c] = "reserve"
      /\ ~cancelled[c]
      /\ ledger[k] = NoRow /\ live[k] = NoTx
      /\ live' = [live EXCEPT ![k] = NewTx(c, TRUE)]
      /\ Goto(c, "exec")
      /\ UNCHANGED <<call, runs, cancelled, returns, ledger, applied, envVars>>

\* The INSERT reports the duplicate of a committed row.  After a confirmed
\* rollback the row is read again, outside the transaction.
ReserveDuplicate(c) ==
  /\ pc[c] = "reserve"
  /\ ledger[call[c].key] # NoRow
  /\ \/ Goto(c, "relookup") /\ UNCHANGED returns
     \/ Return(c, "unknown", <<>>)
  /\ UNCHANGED <<call, runs, cancelled, dbVars, envVars>>

\* Any other failure of the INSERT: a lock wait that timed out, a deadlock, a
\* done context, a row count other than one, or a connection lost after the
\* server executed the statement (its transaction then stays with the server).
ReserveFails(c) ==
  LET k == call[c].key
  IN  /\ pc[c] = "reserve"
      /\ \/ /\ \E kind \in {"error", "corrupt", "unknown"} : Return(c, kind, <<>>)
            /\ UNCHANGED live
         \/ /\ ledger[k] = NoRow /\ live[k] = NoTx
            /\ live' = [live EXCEPT ![k] = NewTx(c, FALSE)]
            /\ Return(c, "unknown", <<>>)
      /\ UNCHANGED <<call, runs, cancelled, ledger, applied, envVars>>

\* Mutant: the loser of the race answers as if it had applied.
RelookupClaimsApplied(c) ==
  LET row == ledger[call[c].key]
  IN  /\ pc[c] = "relookup"
      /\ row # NoRow
      /\ Return(c, "applied", row.summary)
      /\ UNCHANGED <<call, runs, cancelled, dbVars, envVars>>

\* Mutant: the run reserves again without end.
RelookupRetries(c) ==
  LET row == ledger[call[c].key]
  IN  /\ pc[c] = "relookup"
      /\ \/ ~cancelled[c] /\ row # NoRow /\ ReturnFound(c, row)
         \/ Goto(c, "reserve") /\ UNCHANGED returns
      /\ UNCHANGED <<call, runs, cancelled, dbVars, envVars>>

\* The lookup after a duplicate.  A row that has disappeared since is an
\* unknown outcome; there is no second attempt.
Relookup(c) ==
  LET row == ledger[call[c].key]
  IN  /\ pc[c] = "relookup"
      /\ \/ ~cancelled[c] /\ row # NoRow /\ ReturnFound(c, row)
         \/ ~cancelled[c] /\ row = NoRow /\ Return(c, "unknown", <<>>)
         \/ Return(c, "error", <<>>)
      /\ UNCHANGED <<call, runs, cancelled, dbVars, envVars>>

\* Mutant: any row count passes, a hook's too.
ExecStepAnyCount(c) ==
  LET k == call[c].key
  IN  /\ pc[c] = "exec"
      /\ ~cancelled[c] /\ Owns(c)
      /\ Len(live[k].summary) < Steps[call[c].input]
      /\ \E n \in Counts \cup {-1} :
           live' = [live EXCEPT ![k] = Counted(live[k], n)]
      /\ UNCHANGED <<callerVars, ledger, applied, envVars>>

\* The next planned statement succeeds and its row count joins the summary.
\* A hook must affect exactly one row: any other count is an error of Exec.
ExecStep(c) ==
  LET k == call[c].key
      i == call[c].input
      next == Len(live[k].summary) + 1
  IN  /\ pc[c] = "exec"
      /\ ~cancelled[c] /\ Owns(c)
      /\ next <= Steps[i]
      /\ \E n \in Counts :
           /\ next > Steps[i] - Hooks[i] => n = 1
           /\ live' = [live EXCEPT ![k] = Counted(live[k], n)]
      /\ UNCHANGED <<callerVars, ledger, applied, envVars>>

\* Mutant: the transaction stays open.
ExecFailsNoRollback(c) ==
  /\ pc[c] = "exec"
  /\ Return(c, "error", <<>>)
  /\ UNCHANGED <<call, runs, cancelled, dbVars, envVars>>

\* A statement, its row count, or the update of the ledger row fails (a
\* negative count, or a ledger update that did not change exactly one row, is
\* ErrCommandCorrupt): the transaction is rolled back.
ExecFails(c) ==
  /\ pc[c] = "exec"
  /\ \E cause \in {"error", "corrupt"} : Rollback(c, cause)
  /\ UNCHANGED <<call, runs, cancelled, ledger, applied, envVars>>

\* Mutant: the result is saved before the last statement.
SaveResultEarly(c) ==
  LET k == call[c].key
  IN  /\ pc[c] = "exec"
      /\ ~cancelled[c] /\ Owns(c)
      /\ Len(live[k].summary) + 1 = Steps[call[c].input]
      /\ live' = [live EXCEPT ![k] = Saved(live[k])]
      /\ Goto(c, "commit")
      /\ UNCHANGED <<call, runs, cancelled, returns, ledger, applied, envVars>>

\* After the last statement the pending row gets its result and status 1.
SaveResult(c) ==
  LET k == call[c].key
  IN  /\ pc[c] = "exec"
      /\ ~cancelled[c] /\ Owns(c)
      /\ Len(live[k].summary) = Steps[call[c].input]
      /\ live' = [live EXCEPT ![k] = Saved(live[k])]
      /\ Goto(c, "commit")
      /\ UNCHANGED <<call, runs, cancelled, returns, ledger, applied, envVars>>

\* The server makes the transaction that holds k durable: the ledger row and
\* the business statements together.
Durable(k) ==
  LET t == live[k]
  IN  /\ ledger' = [ledger EXCEPT ![k] =
           [format |-> 1, status |-> IF t.saved THEN 1 ELSE 0, ownScope |-> TRUE,
            input |-> t.input, fingerprintOK |-> TRUE, intact |-> TRUE,
            summary |-> t.summary]]
      /\ applied' = [applied EXCEPT ![k] =
           Append(@, [run |-> t.run, input |-> t.input, summary |-> t.summary])]
      /\ Ended(k)

\* COMMIT is executed and acknowledged.
Commit(c) ==
  LET k == call[c].key
  IN  /\ pc[c] = "commit"
      /\ ~cancelled[c] /\ Owns(c)
      /\ Durable(k)
      /\ Return(c, "applied", live[k].summary)
      /\ UNCHANGED <<call, runs, cancelled, envVars>>

\* The context was done before COMMIT was sent: the last check rolls back.
CommitCancelled(c) ==
  /\ pc[c] = "commit"
  /\ cancelled[c]
  /\ Rollback(c, "error")
  /\ UNCHANGED <<call, runs, cancelled, ledger, applied, envVars>>

\* Mutant: a failed COMMIT counts as a definite error.
CommitFailsDefinite(c) ==
  LET k == call[c].key
  IN  /\ pc[c] = "commit"
      /\ \/ /\ Owns(c)
            /\ \/ Ended(k)
               \/ \E sent \in BOOLEAN :
                    live' = [live EXCEPT ![k] = Detached(live[k], sent)]
         \/ ~Owns(c) /\ UNCHANGED live
      /\ Return(c, "error", <<>>)
      /\ UNCHANGED <<call, runs, cancelled, ledger, applied, envVars>>

\* COMMIT returns an error.  It may have been refused or never sent, or it is
\* still on its way, and the server will execute it later.
CommitFails(c) ==
  LET k == call[c].key
  IN  /\ pc[c] = "commit"
      /\ \/ /\ Owns(c)
            /\ \/ Ended(k)
               \/ \E sent \in BOOLEAN :
                    live' = [live EXCEPT ![k] = Detached(live[k], sent)]
         \/ ~Owns(c) /\ UNCHANGED live
      /\ Return(c, "unknown", <<>>)
      /\ UNCHANGED <<call, runs, cancelled, ledger, applied, envVars>>

\* A panic while apply runs: its deferred Rollback ends the transaction, and
\* the error of that Rollback, if any, is dropped.
Panic(c) ==
  LET k == call[c].key
  IN  /\ pc[c] \in {"reserve", "relookup", "exec", "commit"}
      /\ \/ /\ Owns(c)
            /\ \/ Ended(k)
               \/ Lost(k)
         \/ ~Owns(c) /\ UNCHANGED live
      /\ Return(c, "panicked", <<>>)
      /\ UNCHANGED <<call, runs, cancelled, ledger, applied, envVars>>

(***************************************************************************)
(* The environment: contexts, processes, the database server, operators.   *)
(***************************************************************************)

\* The context of a run is cancelled or times out.
Cancel(c) ==
  /\ pc[c] # "idle"
  /\ ~cancelled[c]
  /\ cancelled' = [cancelled EXCEPT ![c] = TRUE]
  /\ UNCHANGED <<pc, call, runs, returns, dbVars, envVars>>

\* database/sql rolls a transaction back on its own once its context is done.
AwaitDone(c) ==
  /\ cancelled[c] /\ Owns(c)
  /\ \/ Ended(call[c].key)
     \/ Lost(call[c].key)
  /\ UNCHANGED <<callerVars, ledger, applied, envVars>>

\* The process of a caller dies.  Its transaction stays with the server, with
\* a COMMIT on its way if the caller was about to commit.
Crash(c) ==
  LET k == call[c].key
  IN  /\ pc[c] # "idle"
      /\ \/ /\ Owns(c)
            /\ \E sent \in BOOLEAN :
                 /\ sent => pc[c] = "commit"
                 /\ live' = [live EXCEPT ![k] = Detached(live[k], sent)]
         \/ ~Owns(c) /\ UNCHANGED live
      /\ Return(c, "crashed", <<>>)
      /\ UNCHANGED <<call, runs, cancelled, ledger, applied, envVars>>

\* The server aborts an open transaction (deadlock victim, restart, killed
\* session); its client, if any, learns of it from its next statement.
ServerAborts(k) ==
  /\ live[k] # NoTx
  /\ Ended(k)
  /\ UNCHANGED <<callerVars, ledger, applied, envVars>>

\* The server ends a transaction that has no client any more: it rolls it
\* back, or executes the COMMIT it received.
ServerResolves(k) ==
  /\ live[k] # NoTx
  /\ ~live[k].attached
  /\ \/ Ended(k) /\ UNCHANGED <<ledger, applied>>
     \/ live[k].commit /\ Durable(k)
  /\ UNCHANGED <<callerVars, envVars>>

Corruptions(row) ==
  { [row EXCEPT !.format = 2], [row EXCEPT !.status = 0],
    [row EXCEPT !.ownScope = FALSE], [row EXCEPT !.fingerprintOK = FALSE],
    [row EXCEPT !.intact = FALSE] }

\* Out-of-band corruption of a committed row, of a kind lookup looks for.
Damage(k) ==
  /\ ledger[k] # NoRow
  /\ damage[k] < MaxDamage
  /\ damage' = [damage EXCEPT ![k] = @ + 1]
  /\ \E row \in Corruptions(ledger[k]) : ledger' = [ledger EXCEPT ![k] = row]
  /\ UNCHANGED <<callerVars, live, applied, purges>>

\* The application's retention deletes a committed row.
Purge(k) ==
  /\ ledger[k] # NoRow
  /\ purges[k] < MaxPurges
  /\ purges' = [purges EXCEPT ![k] = @ + 1]
  /\ ledger' = [ledger EXCEPT ![k] = NoRow]
  /\ UNCHANGED <<callerVars, live, applied, damage>>

(***************************************************************************)
(* The specification.                                                      *)
(***************************************************************************)

\* What the code of a run does next by itself.
Progress(c) ==
  \/ Validate(c) \/ Lookup(c) \/ Begin(c)
  \/ Reserve(c) \/ ReserveDuplicate(c) \/ ReserveFails(c) \/ Relookup(c)
  \/ ExecStep(c) \/ ExecFails(c) \/ SaveResult(c)
  \/ Commit(c) \/ CommitCancelled(c) \/ CommitFails(c)

Next ==
  \/ \E c \in Callers :
       \/ \E k \in Keys, i \in Inputs : Call(c, k, i)
       \/ Progress(c)
       \/ Panic(c) \/ Cancel(c) \/ AwaitDone(c) \/ Crash(c)
  \/ \E k \in Keys :
       ServerAborts(k) \/ ServerResolves(k) \/ Damage(k) \/ Purge(k)

Spec == Init /\ [][Next]_vars

\* The Go scheduler runs every caller, each database call returns (with an
\* error if need be), and the server ends transactions that lost their client.
Fairness ==
  /\ \A c \in Callers : WF_vars(Progress(c))
  /\ \A k \in Keys : WF_vars(ServerResolves(k))

FairSpec == Spec /\ Fairness

(***************************************************************************)
(* Properties.                                                             *)
(***************************************************************************)

\* Every variable stays in its type; in particular no negative row count ever
\* enters a summary, because Run rolls back on one.
TypeOK ==
  /\ pc \in [Callers -> PCs]
  /\ call \in [Callers -> [key : Keys, input : Inputs]]
  /\ runs \in [Callers -> Nat]
  /\ cancelled \in [Callers -> BOOLEAN]
  /\ ledger \in [Keys -> Rows \cup {NoRow}]
  /\ live \in [Keys -> Txs \cup {NoTx}]
  /\ applied \in [Keys -> Seq(Applications)]
  /\ returns \subseteq Returns
  /\ purges \in [Keys -> Nat]
  /\ damage \in [Keys -> Nat]

\* Between two deletions of its row by retention a key's business statements
\* take effect exactly once for each ledger row: the reservation, the
\* statements and the result commit together, whatever callers run, retry,
\* lose or crash at the same time, and whatever happened to the row since.
OncePerRecord ==
  \A k \in Keys :
    Len(applied[k]) = purges[k] + (IF ledger[k] = NoRow THEN 0 ELSE 1)

\* No command is ever half applied: a durable application ran every statement
\* of its input, and each of its hooks affected exactly one row.
WholeCommands ==
  \A k \in Keys : \A n \in 1..Len(applied[k]) :
    LET a == applied[k][n]
    IN  /\ Len(a.summary) = Steps[a.input]
        /\ \A j \in (Steps[a.input] - Hooks[a.input] + 1)..Steps[a.input] :
             a.summary[j] = 1

\* A run that returned a definite answer (a refusal, an ordinary error, a
\* conflict, a corrupt record or a replay) did not apply its command, and no
\* transaction of it is left that could still commit.  Only "unknown" leaves
\* the caller in doubt.
DefiniteMeansNotApplied ==
  \A r \in returns : r.kind \in Definite =>
    /\ \A k \in Keys : \A n \in 1..Len(applied[k]) : applied[k][n].run # r.run
    /\ \A k \in Keys : live[k] # NoTx => live[k].run # r.run

\* A successful answer repeats an application of its own key with its own
\* input: Applied = true is only reported by the run that applied it, and a
\* replay returns the summary that was committed.
AnswersAreApplications ==
  \A r \in returns : r.kind \in {"applied", "replayed"} =>
    \E n \in 1..Len(applied[r.key]) :
      LET a == applied[r.key][n]
      IN  /\ a.input = r.input
          /\ a.summary = r.summary
          /\ r.kind = "applied" <=> a.run = r.run

(***************************************************************************)
(* The inductive invariant behind those properties.                        *)
(***************************************************************************)

HooksAffectOneRow(i, summary) ==
  \A j \in 1..Len(summary) : j > Steps[i] - Hooks[i] => summary[j] = 1

\* An open transaction t of key k: no committed row has the key; t belongs to
\* a run that was started; a saved result is complete; a COMMIT is on its way
\* only for a saved transaction whose run is over; and while its run is not
\* over, the run is inside apply and works on this very key.
TransactionOK(k, t) ==
  /\ ledger[k] = NoRow
  /\ t.run[2] <= runs[t.run[1]]
  /\ HooksAffectOneRow(t.input, t.summary)
  /\ t.saved => Len(t.summary) = Steps[t.input]
  /\ t.commit => t.saved /\ ~t.attached
  /\ t.attached => t.run = Run(t.run[1]) /\ pc[t.run[1]] # "idle"
  /\ \A c \in Callers : t.run = Run(c) /\ pc[c] # "idle" =>
       /\ pc[c] \in {"exec", "commit"}
       /\ call[c] = [key |-> k, input |-> t.input]
       /\ t.saved <=> pc[c] = "commit"
       /\ ~t.commit

\* A committed row carries the input and the summary of the last application.
RowOK(k) ==
  LET n == Len(applied[k])
  IN  /\ n > 0
      /\ applied[k][n].input = ledger[k].input
      /\ applied[k][n].summary = ledger[k].summary

\* A run that is named in the history was started, and is over.
Over(run) == /\ run[2] <= runs[run[1]]
             /\ \A c \in Callers : run = Run(c) => pc[c] = "idle"

\* What the steps of callers, servers and operators preserve together.
Consistent ==
  /\ \A k \in Keys : live[k] # NoTx => TransactionOK(k, live[k])
  /\ \A k \in Keys : ledger[k] # NoRow => RowOK(k)
  /\ \A r \in returns : Over(r.run)
  /\ \A k \in Keys : \A n \in 1..Len(applied[k]) : Over(applied[k][n].run)

\* Every call of Run returns.
RunReturns == \A c \in Callers : (pc[c] # "idle") ~> (pc[c] = "idle")

\* A reservation does not block its key for ever: every transaction that
\* holds a key is ended, on every path out of apply.
KeyReleased == \A k \in Keys : (live[k] # NoTx) ~> (live[k] = NoTx)

\* Every call returns and leaves its key free.
RunsSettle == RunReturns /\ KeyReleased

\* The store implements the ledger its documentation promises: the decision of
\* a key is the last application, for as long as its row is there.
Decision(k) ==
  IF ledger[k] = NoRow THEN NoRow
  ELSE LET a == applied[k][Len(applied[k])]
       IN  [input |-> a.input, summary |-> a.summary]

Answer(r) == [key |-> r.key, input |-> r.input, summary |-> r.summary,
              applied |-> r.kind = "applied"]

Successes(S) == {Answer(r) : r \in {s \in S : s.kind \in {"applied", "replayed"}}}

Once == INSTANCE OnceLedger WITH
  Undecided <- NoRow,
  record <- [k \in Keys |-> Decision(k)],
  answers <- Successes(returns)

\* The specification promised to callers; its steps are those of OnceLedger.
ImplementsOnceLedger == Once!Spec
=============================================================================
