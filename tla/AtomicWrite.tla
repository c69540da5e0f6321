---------------------------- MODULE AtomicWrite ----------------------------
(***************************************************************************)
(* Write execution (orm/query/write_results.go, execution.go, optimistic.go*)
(* and internal/writecheck): goroutines execute sealed write plans against *)
(* one row of a database.  A plan is executed at most once, by whoever     *)
(* claims it first.  Its mode says how:                                    *)
(*   "versioned"  OptimisticVersion: WHERE version = expected, SET version *)
(*                = expected + 1, in an owned transaction, exactly one row;*)
(*   "counted"    AtomicWrite with ExpectAffected(1);                      *)
(*   "auto"       ExpectAffected(1) alone, autocommitted.                  *)
(* (On a caller's managed transaction the same check runs, but the outcome *)
(* is then that transaction's: it is not part of this module.)             *)
(* The database is external: an uncommitted change locks the row, and a    *)
(* transaction that lost its client is ended by the server, which may      *)
(* still execute a COMMIT that was on its way.                             *)
(***************************************************************************)
EXTENDS Integers, FiniteSets

CONSTANTS
  Writers,     \* goroutines that execute a write, one each
  Plans,       \* sealed plans
  MaxVersion,  \* the largest value of the version column
  None

ASSUME VersionAssumption == MaxVersion \in Nat
ASSUME NoneAssumption == None \notin Writers \cup Plans

VARIABLES
  version,     \* the committed version of the row
  lock,        \* the writer whose transaction changed the row, uncommitted
  seal,        \* seal[p]: mode and expected version of plan p
  used,        \* used[p]: p was claimed
  pc, run,     \* run[w]: the plan w executes
  cause,       \* cause[w]: the error w rolls back for
  tx,          \* tx[w]: the transaction of w, as the server and database/sql see it
  outcome,     \* outcome[w]: what w's call returned
  applied      \* history: the writers whose change is durable

planVars == <<seal, used>>
dbVars == <<version, lock, tx, applied>>
vars == <<dbVars, planVars, pc, run, cause, outcome>>

Modes == {"versioned", "counted", "auto"}
Seals == [mode : Modes, expected : 0..MaxVersion]
Definite == {"refused", "conflict", "count", "error"}
Outcomes == Definite \cup {"none", "ok", "unknown", "panicked"}

Plan(w) == seal[run[w]]
Mode(w) == Plan(w).mode

Init ==
  /\ version = 0 /\ lock = None /\ applied = {}
  /\ seal = [p \in Plans |-> None]
  /\ used = [p \in Plans |-> FALSE]
  /\ pc = [w \in Writers |-> "idle"]
  /\ run = [w \in Writers |-> None]
  /\ cause = [w \in Writers |-> "none"]
  /\ tx = [w \in Writers |-> "none"]
  /\ outcome = [w \in Writers |-> "none"]

Goto(w, label) == pc' = [pc EXCEPT ![w] = label]
Return(w, kind) == Goto(w, "done") /\ outcome' = [outcome EXCEPT ![w] = kind]

(***************************************************************************)
(* Planning and claiming.                                                  *)
(***************************************************************************)
\* Mutant: a version without a successor is accepted.
SealVersionWraps(p, m, v) ==
  /\ seal[p] = None /\ v <= version
  /\ seal' = [seal EXCEPT ![p] = [mode |-> m, expected |-> v]]
  /\ UNCHANGED <<dbVars, used, pc, run, cause, outcome>>

\* The application plans a write with the version it has read, now or earlier.
\* A version whose successor does not fit the column is refused here.
Seal(p, m, v) ==
  /\ seal[p] = None /\ v <= version
  /\ m = "versioned" => v < MaxVersion
  /\ seal' = [seal EXCEPT ![p] = [mode |-> m, expected |-> v]]
  /\ UNCHANGED <<dbVars, used, pc, run, cause, outcome>>

\* checkExecution and the checks of the options, all before the claim.
Check(w, p) ==
  /\ pc[w] = "idle" /\ seal[p] # None
  /\ run' = [run EXCEPT ![w] = p]
  /\ \/ ~used[p] /\ Goto(w, "bind") /\ UNCHANGED outcome
     \/ Return(w, "refused")
  /\ UNCHANGED <<dbVars, planVars, cause>>

\* Mutant: the loser of the claim waits instead of returning.
BindWaits(w) ==
  /\ pc[w] = "bind" /\ ~used[run[w]]
  /\ used' = [used EXCEPT ![run[w]] = TRUE]
  /\ Goto(w, IF Mode(w) = "auto" THEN "run" ELSE "begin")
  /\ UNCHANGED <<dbVars, seal, run, cause, outcome>>

\* Mutant: the claim trusts the check made before it.
BindOnStaleCheck(w) ==
  /\ pc[w] = "bind"
  /\ used' = [used EXCEPT ![run[w]] = TRUE]
  /\ Goto(w, IF Mode(w) = "auto" THEN "run" ELSE "begin")
  /\ UNCHANGED <<dbVars, seal, run, cause, outcome>>

\* bindExecution: of those that passed the check one claims the plan.
Bind(w) ==
  /\ pc[w] = "bind"
  /\ \/ /\ ~used[run[w]]
        /\ used' = [used EXCEPT ![run[w]] = TRUE]
        /\ Goto(w, IF Mode(w) = "auto" THEN "run" ELSE "begin")
        /\ UNCHANGED outcome
     \/ used[run[w]] /\ Return(w, "refused") /\ UNCHANGED used
  /\ UNCHANGED <<dbVars, seal, run, cause>>

(***************************************************************************)
(* The owned transaction of runWrite.                                      *)
(***************************************************************************)
Begin(w) ==
  /\ pc[w] = "begin"
  /\ \/ tx' = [tx EXCEPT ![w] = "open"] /\ Goto(w, "recheck") /\ UNCHANGED outcome
     \/ Return(w, "error") /\ UNCHANGED tx
  /\ UNCHANGED <<version, lock, applied, planVars, run, cause>>

Abort(w, c) == Goto(w, "rollback") /\ cause' = [cause EXCEPT ![w] = c]

\* checkAtomicStorage, then the plan is sealed, checked and bound once more, on
\* the transaction.
Recheck(w) ==
  /\ pc[w] = "recheck"
  /\ \/ Goto(w, "run") /\ UNCHANGED cause
     \/ \E c \in {"error", "refused"} : Abort(w, c)
  /\ UNCHANGED <<dbVars, planVars, run, outcome>>

\* The rows an UPDATE of w's plan affects.
Affects(w) ==
  IF Mode(w) = "versioned" THEN {IF Plan(w).expected = version THEN 1 ELSE 0} ELSE {0, 1, 2}

\* Options.Check: one row, or an error that names what was wrong.
Verdict(w, n) ==
  CASE n = 1                               -> "none"
    [] n = 0 /\ Mode(w) = "versioned"      -> "conflict"
    [] OTHER                               -> "count"

\* Mutant: the version is not part of the WHERE.
RunBlind(w) ==
  /\ pc[w] = "run" /\ Mode(w) # "auto" /\ tx[w] = "open"
  /\ lock = None
  /\ lock' = w /\ Goto(w, "commit") /\ UNCHANGED cause
  /\ UNCHANGED <<version, tx, applied, planVars, run, outcome>>

\* Mutant: the row count is judged after the commit.
RunCommitsFirst(w) ==
  /\ pc[w] = "run" /\ Mode(w) # "auto" /\ tx[w] = "open"
  /\ lock = None
  /\ \E n \in Affects(w) :
       /\ lock' = IF n > 0 THEN w ELSE None
       /\ Goto(w, "commit")
       /\ cause' = [cause EXCEPT ![w] = Verdict(w, n)]
  /\ UNCHANGED <<version, tx, applied, planVars, run, outcome>>

\* The UPDATE waits for the lock; then it sees the committed row.
RunUpdate(w) ==
  /\ pc[w] = "run" /\ Mode(w) # "auto" /\ tx[w] = "open"
  /\ lock = None
  /\ \E n \in Affects(w) :
       /\ lock' = IF n > 0 THEN w ELSE None
       /\ IF Verdict(w, n) = "none" THEN Goto(w, "commit") /\ UNCHANGED cause
                                    ELSE Abort(w, Verdict(w, n))
  /\ UNCHANGED <<version, tx, applied, planVars, run, outcome>>

\* The statement, its result stream or its count fails.
RunFails(w) ==
  /\ pc[w] = "run" /\ Mode(w) # "auto"
  /\ Abort(w, "error")
  /\ \/ lock = None /\ tx[w] = "open" /\ lock' = w
     \/ UNCHANGED lock
  /\ UNCHANGED <<version, tx, applied, planVars, run, outcome>>

\* What becomes of the transaction of w: it is gone and its lock with it, or it
\* has lost its client and stays with the server.
Gone(w) ==
  /\ tx' = [tx EXCEPT ![w] = "none"]
  /\ lock' = IF lock = w THEN None ELSE lock
Stays(w, s) == tx' = [tx EXCEPT ![w] = s] /\ UNCHANGED lock

\* Mutant: the transaction is left open.
RollbackSkipped(w) ==
  /\ pc[w] = "rollback"
  /\ Return(w, cause[w])
  /\ UNCHANGED <<dbVars, planVars, run, cause>>

\* The rollback closure: a failed rollback makes the outcome unknown.
Rollback(w) ==
  /\ pc[w] = "rollback"
  /\ \/ tx[w] = "open" /\ Gone(w) /\ Return(w, cause[w])
     \/ tx[w] = "open" /\ (Gone(w) \/ Stays(w, "lost")) /\ Return(w, "unknown")
     \/ tx[w] # "open" /\ Return(w, "unknown") /\ UNCHANGED <<tx, lock>>
  /\ UNCHANGED <<version, applied, planVars, run, cause>>

\* The change of w becomes durable.
Durable(w) ==
  /\ applied' = applied \cup {w}
  /\ version' = IF Mode(w) = "versioned" THEN Plan(w).expected + 1 ELSE version

Commit(w) ==
  /\ pc[w] = "commit" /\ tx[w] = "open"
  /\ Durable(w) /\ Gone(w)
  /\ Return(w, "ok")
  /\ UNCHANGED <<planVars, run, cause>>

\* Mutant: a failed COMMIT counts as a definite error.
CommitFailsDefinite(w) ==
  /\ pc[w] = "commit"
  /\ \/ tx[w] = "open" /\ (Gone(w) \/ Stays(w, "lost") \/ Stays(w, "committing"))
     \/ tx[w] # "open" /\ UNCHANGED <<tx, lock>>
  /\ Return(w, "error")
  /\ UNCHANGED <<version, applied, planVars, run, cause>>

\* Commit returns an error: refused, never sent, or still on its way.
CommitFails(w) ==
  /\ pc[w] = "commit"
  /\ \/ tx[w] = "open" /\ (Gone(w) \/ Stays(w, "lost") \/ Stays(w, "committing"))
     \/ tx[w] # "open" /\ UNCHANGED <<tx, lock>>
  /\ Return(w, "unknown")
  /\ UNCHANGED <<version, applied, planVars, run, cause>>

\* A scanner callback panics: the deferred Rollback runs, its error is dropped.
Panic(w) ==
  /\ pc[w] = "run" /\ Mode(w) # "auto"
  /\ \/ tx[w] = "open" /\ (Gone(w) \/ Stays(w, "lost"))
     \/ tx[w] = "open" /\ lock = None /\ lock' = w /\ tx' = [tx EXCEPT ![w] = "lost"]
     \/ tx[w] # "open" /\ UNCHANGED <<tx, lock>>
  /\ Return(w, "panicked")
  /\ UNCHANGED <<version, applied, planVars, run, cause>>

\* An autocommitted statement is durable when it has run, whatever its check
\* says; its answer may be lost as well.
RunAuto(w) ==
  /\ pc[w] = "run" /\ Mode(w) = "auto"
  /\ \/ /\ lock = None
        /\ \E n \in Affects(w) :
             /\ applied' = IF n > 0 THEN applied \cup {w} ELSE applied
             /\ \E kind \in {IF Verdict(w, n) = "none" THEN "ok" ELSE Verdict(w, n),
                             "error", "panicked"} :
                  Return(w, kind)
     \/ Return(w, "error") /\ UNCHANGED applied
  /\ UNCHANGED <<version, lock, tx, planVars, run, cause>>

(***************************************************************************)
(* The environment.                                                        *)
(***************************************************************************)

\* The context ended and database/sql rolled back on its own, or the
\* connection was lost.
Abandon(w) ==
  /\ tx[w] = "open"
  /\ Gone(w) \/ Stays(w, "lost")
  /\ UNCHANGED <<version, applied, planVars, pc, run, cause, outcome>>

ServerEnds(w) ==
  /\ tx[w] \in {"lost", "committing"}
  /\ \/ UNCHANGED <<version, applied>>
     \/ tx[w] = "committing" /\ Durable(w)
  /\ Gone(w)
  /\ UNCHANGED <<planVars, pc, run, cause, outcome>>

Step(w) ==
  \/ Bind(w) \/ Begin(w) \/ Recheck(w) \/ RunUpdate(w) \/ RunFails(w) \/ RunAuto(w)
  \/ Rollback(w) \/ Commit(w) \/ CommitFails(w)

Next ==
  \/ \E p \in Plans, m \in Modes, v \in 0..MaxVersion : Seal(p, m, v)
  \/ \E w \in Writers :
       (\E p \in Plans : Check(w, p)) \/ Step(w) \/ Panic(w) \/ Abandon(w) \/ ServerEnds(w)

Spec == Init /\ [][Next]_vars

\* A goroutine in a call is scheduled and its statements return, at the latest
\* with a timeout; the server ends every transaction that lost its client.
FairSpec ==
  Spec /\ \A w \in Writers : WF_vars(Step(w)) /\ WF_vars(ServerEnds(w))

(***************************************************************************)
(* Properties.                                                             *)
(***************************************************************************)
\* The type of every variable: no version the column cannot hold.
TypeOK ==
  /\ version \in 0..MaxVersion /\ lock \in Writers \cup {None}
  /\ seal \in [Plans -> Seals \cup {None}] /\ used \in [Plans -> BOOLEAN]
  /\ pc \in [Writers -> {"idle", "bind", "begin", "recheck", "run", "rollback", "commit", "done"}]
  /\ run \in [Writers -> Plans \cup {None}]
  /\ cause \in [Writers -> {"none", "conflict", "count", "error", "refused"}]
  /\ tx \in [Writers -> {"none", "open", "lost", "committing"}]
  /\ outcome \in [Writers -> Outcomes]
  /\ applied \subseteq Writers

\* Two goroutines that hold the same plan never both change the database, even
\* when both passed the check before either claimed it.
PlanAppliedOnce ==
  \A v, w \in applied : run[v] = run[w] => v = w

\* No update is lost: durable versioned writes have pairwise different expected
\* versions, and the version counts them.  A writer that read an old version
\* never overwrites a newer one.
NoLostUpdate ==
  LET versioned == {w \in applied : Mode(w) = "versioned"}
  IN /\ version = Cardinality(versioned)
     /\ \A v, w \in versioned : Plan(v).expected = Plan(w).expected => v = w

\* Each plan changes the database once, to a version the column can hold, and no
\* change is lost.
UpdatesAreKept == TypeOK /\ PlanAppliedOnce /\ NoLostUpdate

\* An atomic write that returned a definite error changed nothing and never
\* will: only "unknown" (and a panic) leaves a question, and a panic no change.
DefiniteMeansUnchanged ==
  \A w \in Writers :
    outcome[w] \in Definite \cup {"panicked"} /\ (run[w] # None => Mode(w) # "auto") =>
      w \notin applied /\ tx[w] # "committing"

\* A success is durable, and an atomic change is durable only if exactly the
\* expected rows were affected: no commit after a failed check.
SuccessIsDurable ==
  \A w \in Writers :
    /\ outcome[w] = "ok" => w \in applied
    /\ w \in applied /\ Mode(w) # "auto" => outcome[w] \in {"ok", "unknown"} /\ cause[w] = "none"

\* What runWrite returns is true of the database, now and later.
AnswersAreTrue == DefiniteMeansUnchanged /\ SuccessIsDurable

\* Every call of runWrite returns, also the one that loses the race for the plan
\* and the ones that wait for the row behind a transaction that failed.
WritesReturn == \A w \in Writers : (pc[w] \notin {"idle", "done"}) ~> (pc[w] = "done")

\* No lock on the row outlives its writer for good: a transaction that an error
\* path of runWrite left open would block every other writer.
LockReleased == (lock # None) ~> (lock = None)

\* Every call returns and leaves the row free.
WritesSettle == WritesReturn /\ LockReleased
=============================================================================
