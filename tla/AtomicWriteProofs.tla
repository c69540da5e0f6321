-------------------------- MODULE AtomicWriteProofs --------------------------
(***************************************************************************)
(* Proofs about AtomicWrite for any set of writers and plans and any width *)
(* of the version column.                                                  *)
(***************************************************************************)
EXTENDS AtomicWrite, FiniteSetTheorems, TLAPS

PCs == {"idle", "bind", "begin", "recheck", "run", "rollback", "commit", "done"}
Causes == {"none", "conflict", "count", "error", "refused"}
Phases == {"none", "open", "lost", "committing"}

(***************************************************************************)
(* The inductive invariant.                                                *)
(***************************************************************************)
Sealed(p) == seal[p] \in Seals /\ seal[p] # None
Executing == {"begin", "recheck", "run", "rollback", "commit"}

\* A writer whose plan has changed the database, may still, or will.
Claims(w) == pc[w] \in Executing \/ tx[w] # "none" \/ w \in applied

\* The version a sealed versioned plan writes fits the column.
SealsFit ==
  \A p \in Plans : Sealed(p) /\ seal[p].mode = "versioned" => seal[p].expected < MaxVersion

\* Where a writer is, and the plan it claimed.
CallOK(w) ==
  /\ pc[w] = "idle" => run[w] = None /\ ~Claims(w)
  /\ pc[w] = "bind" => ~Claims(w)
  /\ pc[w] # "idle" => run[w] \in Plans /\ Sealed(run[w])
  /\ Claims(w) => used[run[w]]
  /\ pc[w] = "done" <=> outcome[w] # "none"
  /\ pc[w] \in Executing \ {"run"} => Mode(w) # "auto"
  /\ pc[w] \notin {"rollback", "done"} => cause[w] = "none"
  /\ pc[w] = "rollback" => cause[w] # "none"

\* The transaction of a writer, and its lock on the row.
TransactionOK(w) ==
  /\ tx[w] # "none" => Mode(w) # "auto" /\ w \notin applied /\ pc[w] # "begin"
  /\ tx[w] = "open" => pc[w] \in {"recheck", "run", "rollback", "commit"}
  /\ tx[w] = "committing" => outcome[w] = "unknown" /\ cause[w] = "none" /\ lock = w
  /\ lock = w => tx[w] # "none"
  /\ pc[w] = "commit" /\ tx[w] = "open" => lock = w
  /\ (tx[w] = "open" /\ pc[w] = "commit") \/ tx[w] = "committing" =>
       (Mode(w) = "versioned" => Plan(w).expected = version)

\* A durable change, and what its writer says of it.
AnswerOK(w) ==
  /\ w \in applied => pc[w] = "done"
  /\ w \in applied /\ Mode(w) # "auto" => outcome[w] \in {"ok", "unknown"} /\ cause[w] = "none"
  /\ outcome[w] = "ok" => w \in applied
  /\ w \in applied /\ Mode(w) = "versioned" => Plan(w).expected < version

WriterOK(w) == CallOK(w) /\ TransactionOK(w) /\ AnswerOK(w)
WritersOK == \A w \in Writers : WriterOK(w)
ClaimedOnce == \A v, w \in Writers : Claims(v) /\ Claims(w) /\ run[v] = run[w] => v = w
Versioned == {w \in applied : Mode(w) = "versioned"}
Counted == IsFiniteSet(applied) /\ NoLostUpdate

WriteInv == TypeOK /\ SealsFit /\ WritersOK /\ ClaimedOnce /\ Counted
(***************************************************************************)
(* The frame of a step of one writer.                                      *)
(***************************************************************************)
\* Writer w is now at a label, with a cause, a transaction and an outcome.
Moves(w, label, c, t, o) ==
  /\ pc' = [pc EXCEPT ![w] = label] /\ cause' = [cause EXCEPT ![w] = c]
  /\ tx' = [tx EXCEPT ![w] = t] /\ outcome' = [outcome EXCEPT ![w] = o]

\* What the step of one writer may do to what it shares with the others.
Shares(w) ==
  /\ lock' = lock \/ (lock \in {w, None} /\ lock' \in {w, None})
  /\ version' = version \/ (lock = w /\ version' > version)
  /\ \A p \in Plans : used[p] => used'[p]
  /\ seal' = seal
  /\ applied' \subseteq applied \cup {w} /\ applied \subseteq applied'

\* The part of the invariant about the other writers.
LEMMA OthersOK ==
  ASSUME WriteInv, NEW w \in Writers, Shares(w),
         NEW label, NEW c, NEW t, NEW o, Moves(w, label, c, t, o),
         \A v \in Writers \ {w} : run'[v] = run[v],
         version' \in Nat,
         NEW v \in Writers \ {w}
  PROVE  WriterOK(v)' /\ (Claims(v)' <=> Claims(v)) /\ run'[v] = run[v]
<1>1. /\ pc'[v] = pc[v] /\ run'[v] = run[v] /\ cause'[v] = cause[v] /\ tx'[v] = tx[v]
      /\ outcome'[v] = outcome[v] /\ (v \in applied' <=> v \in applied)
      /\ (lock' = v <=> lock = v) /\ seal' = seal
  BY NoneAssumption DEF Moves, Shares, WriteInv, TypeOK
<1>2. Claims(v)' <=> Claims(v)
  BY <1>1 DEF Claims
<1>3. CallOK(v)'
  BY <1>1, <1>2 DEF WriteInv, WritersOK, WriterOK, CallOK, Shares, Sealed, Mode, Plan, Claims, Executing, TypeOK
<1>4. TransactionOK(v)'
  <2>1. (tx[v] = "open" /\ pc[v] = "commit") \/ tx[v] = "committing" => version' = version
    BY DEF WriteInv, WritersOK, WriterOK, TransactionOK, Shares
  <2> QED BY <1>1, <2>1 DEF WriteInv, WritersOK, WriterOK, TransactionOK, Mode, Plan
<1>5. AnswerOK(v)'
  <2>1. v \in applied /\ Mode(v) = "versioned" => Plan(v).expected \in Int
    BY DEF WriteInv, WritersOK, WriterOK, AnswerOK, CallOK, Sealed, Seals, Plan
  <2>2. version \in Int /\ version' >= version
    BY VersionAssumption DEF WriteInv, TypeOK, Shares
  <2> QED BY <1>1, <2>1, <2>2 DEF WriteInv, WritersOK, WriterOK, AnswerOK, Mode, Plan
<1> QED BY <1>1, <1>2, <1>3, <1>4, <1>5 DEF WriterOK

\* A step of a writer that owns its plan and makes nothing durable.
LEMMA QuietStep ==
  ASSUME WriteInv, NEW w \in Writers, Claims(w),
         NEW label \in PCs, NEW c \in Causes, NEW t \in Phases, NEW o \in Outcomes,
         Moves(w, label, c, t, o),
         lock' = lock \/ (lock \in {w, None} /\ lock' \in {w, None}),
         UNCHANGED <<version, applied, planVars, run>>,
         WriterOK(w)'
  PROVE  WriteInv'
<1>1. UNCHANGED <<version, applied, seal, used, run>>
  BY DEF planVars
<1>2. TypeOK'
  BY <1>1 DEF WriteInv, TypeOK, Moves, PCs, Causes, Phases
<1>3. Shares(w) /\ version' \in Nat
  BY <1>1, VersionAssumption DEF Shares, WriteInv, TypeOK
<1>4. \A v \in Writers \ {w} : WriterOK(v)' /\ (Claims(v)' <=> Claims(v))
  BY <1>1, <1>3, OthersOK
<1>5. WritersOK'
  BY <1>4 DEF WritersOK
<1>6. ClaimedOnce'
  BY <1>1, <1>4 DEF WriteInv, ClaimedOnce
<1>7. SealsFit' /\ Counted'
  BY <1>1 DEF WriteInv, SealsFit, Sealed, Counted, NoLostUpdate, Mode, Plan
<1> QED BY <1>2, <1>5, <1>6, <1>7 DEF WriteInv

(***************************************************************************)
(* The steps that make nothing durable.                                    *)
(***************************************************************************)
\* What the invariant says of a writer, and of its plan, at once.
LEMMA WriterFacts ==
  ASSUME WriteInv, NEW w \in Writers
  PROVE  /\ CallOK(w) /\ TransactionOK(w) /\ AnswerOK(w)
         /\ pc[w] \in PCs /\ cause[w] \in Causes /\ tx[w] \in Phases /\ outcome[w] \in Outcomes
         /\ lock \in Writers \cup {None} /\ version \in Nat
         /\ Claims(w) => run[w] \in Plans /\ seal[run[w]] \in Seals /\ seal[run[w]] # None
  BY VersionAssumption
     DEF WriteInv, TypeOK, WritersOK, WriterOK, CallOK, Sealed, PCs, Causes, Phases

\* What such a step must show of the writer itself, value by value.
LEMMA MoveStep ==
  ASSUME WriteInv, NEW w \in Writers, Claims(w), w \notin applied,
         NEW label \in (Executing \ {"begin"}) \cup {"done"}, NEW c \in Causes, NEW t \in Phases, NEW o \in Outcomes,
         Moves(w, label, c, t, o),
         lock' = lock \/ (lock \in {w, None} /\ lock' \in {w, None}),
         UNCHANGED <<version, applied, planVars, run>>,
         label = "done" <=> o # "none", o # "ok",
         label \notin {"rollback", "done"} => c = "none", label = "rollback" => c # "none",
         Mode(w) = "auto" => t = "none" /\ label \in {"run", "done"},
         t = "open" => label \in {"recheck", "run", "rollback", "commit"},
         t = "committing" => o = "unknown" /\ c = "none",
         lock' = w => t # "none",
         (t = "open" /\ label = "commit") \/ t = "committing" =>
           lock' = w /\ (Mode(w) = "versioned" => Plan(w).expected = version)
  PROVE  WriteInv'
<1>1. /\ pc'[w] = label /\ cause'[w] = c /\ tx'[w] = t /\ outcome'[w] = o
      /\ UNCHANGED <<version, applied, seal, used, run>>
      /\ label \in PCs
  BY DEF Moves, WriteInv, TypeOK, planVars, Executing, PCs
<1>2. run'[w] \in Plans /\ Sealed(run[w])' /\ Mode(w)' = Mode(w) /\ Plan(w)' = Plan(w)
      /\ used[run[w]]
  BY <1>1, WriterFacts DEF Sealed, Mode, Plan, CallOK
<1>3. CallOK(w)'
  BY <1>1, <1>2 DEF CallOK, Executing
<1>4. TransactionOK(w)'
  BY <1>1, <1>2 DEF TransactionOK, Executing
<1>5. AnswerOK(w)'
  BY <1>1 DEF AnswerOK
<1> QED BY <1>1, <1>3, <1>4, <1>5, QuietStep DEF WriterOK

\* UNCHANGED of a variable of the writers, as a move.
LEMMA Unmoved ==
  ASSUME WriteInv, NEW w \in Writers
  PROVE  /\ pc = [pc EXCEPT ![w] = pc[w]] /\ cause = [cause EXCEPT ![w] = cause[w]]
         /\ tx = [tx EXCEPT ![w] = tx[w]] /\ outcome = [outcome EXCEPT ![w] = outcome[w]]
  BY DEF WriteInv, TypeOK

\* Begin opens the owned transaction, or the write ends before there is one.
LEMMA BeginStep ==
  ASSUME WriteInv, NEW w \in Writers, Begin(w)
  PROVE  WriteInv'
<1>1. /\ pc[w] = "begin" /\ Claims(w) /\ w \notin applied /\ tx[w] = "none" /\ lock # w
      /\ cause[w] = "none" /\ outcome[w] = "none" /\ Mode(w) # "auto"
      /\ UNCHANGED <<version, lock, applied, planVars, run, cause>>
  BY WriterFacts DEF Begin, Claims, Executing, CallOK, TransactionOK, AnswerOK, Phases
<1>2. CASE tx' = [tx EXCEPT ![w] = "open"] /\ Goto(w, "recheck") /\ UNCHANGED outcome
  <2>1. Moves(w, "recheck", "none", "open", "none")
    BY <1>1, <1>2, Unmoved DEF Goto, Moves
  <2> QED BY <1>1, <2>1, MoveStep DEF Executing, Causes, Phases, Outcomes
<1>3. CASE Return(w, "error") /\ UNCHANGED tx
  <2>1. Moves(w, "done", "none", "none", "error")
    BY <1>1, <1>3, Unmoved DEF Return, Goto, Moves
  <2> QED BY <1>1, <2>1, MoveStep DEF Executing, Causes, Phases, Outcomes, Definite
<1> QED BY <1>2, <1>3 DEF Begin

\* The re-check on the transaction goes on, or turns to the rollback.
LEMMA RecheckStep ==
  ASSUME WriteInv, NEW w \in Writers, Recheck(w)
  PROVE  WriteInv'
<1>1. /\ pc[w] = "recheck" /\ Claims(w) /\ w \notin applied
      /\ cause[w] = "none" /\ outcome[w] = "none" /\ Mode(w) # "auto"
      /\ tx[w] # "committing" /\ tx[w] \in Phases /\ (lock = w => tx[w] # "none")
      /\ UNCHANGED <<version, lock, tx, applied, planVars, run, outcome>>
  BY WriterFacts DEF Recheck, Claims, Executing, CallOK, TransactionOK, AnswerOK, dbVars
<1>2. CASE Goto(w, "run") /\ UNCHANGED cause
  <2>1. Moves(w, "run", "none", tx[w], "none")
    BY <1>1, <1>2, Unmoved DEF Goto, Moves
  <2> QED BY <1>1, <2>1, MoveStep DEF Executing, Causes, Outcomes
<1>3. ASSUME NEW c \in {"error", "refused"}, Abort(w, c)
      PROVE  WriteInv'
  <2>1. Moves(w, "rollback", c, tx[w], "none")
    BY <1>1, <1>3, Unmoved DEF Abort, Goto, Moves
  <2> QED BY <1>1, <2>1, MoveStep DEF Executing, Causes, Outcomes
<1> QED BY <1>2, <1>3 DEF Recheck

\* The UPDATE of an atomic write: it holds the row only on an open transaction,
\* and goes on to the commit only when it affected one row, which then has the
\* version it expected.
LEMMA UpdateStep ==
  ASSUME WriteInv, NEW w \in Writers, RunUpdate(w)
  PROVE  WriteInv'
<1>1. /\ pc[w] = "run" /\ Claims(w) /\ w \notin applied /\ lock = None
      /\ cause[w] = "none" /\ outcome[w] = "none" /\ Mode(w) # "auto" /\ tx[w] = "open"
      /\ UNCHANGED <<version, tx, applied, planVars, run, outcome>>
  BY WriterFacts DEF RunUpdate, Claims, Executing, CallOK, TransactionOK, AnswerOK
<1>2. PICK n \in Affects(w) :
        /\ lock' = IF n > 0 THEN w ELSE None
        /\ IF Verdict(w, n) = "none" THEN Goto(w, "commit") /\ UNCHANGED cause
                                     ELSE Abort(w, Verdict(w, n))
  BY DEF RunUpdate
<1>3. n \in {0, 1, 2} /\ Verdict(w, n) \in {"none", "conflict", "count"}
      /\ (Verdict(w, n) = "none" => n = 1)
  BY DEF Affects, Verdict
<1>4. CASE Verdict(w, n) = "none"
  <2>1. Moves(w, "commit", "none", "open", "none") /\ lock' = w
    BY <1>1, <1>2, <1>3, <1>4, Unmoved DEF Goto, Moves
  <2>2. Mode(w) = "versioned" => Plan(w).expected = version
    BY <1>3, <1>4 DEF Affects
  <2> QED BY <1>1, <2>1, <2>2, MoveStep DEF Executing, Causes, Phases, Outcomes
<1>5. CASE Verdict(w, n) # "none"
  <2>1. Moves(w, "rollback", Verdict(w, n), "open", "none") /\ lock' \in {w, None}
    BY <1>1, <1>2, <1>5, Unmoved DEF Abort, Goto, Moves
  <2> QED BY <1>1, <1>3, <1>5, <2>1, MoveStep DEF Executing, Causes, Phases, Outcomes
<1> QED BY <1>4, <1>5

\* How a transaction that was open ends or is left with the server.
LEMMA Leaving ==
  ASSUME WriteInv, NEW w \in Writers, NEW s \in {"lost", "committing"}, Gone(w) \/ Stays(w, s)
  PROVE  \E t \in {"none", s} :
           /\ tx' = [tx EXCEPT ![w] = t]
           /\ lock' = lock \/ (lock \in {w, None} /\ lock' \in {w, None})
           /\ lock' = w => t # "none"
           /\ t = s => lock' = lock
<1>1. CASE Gone(w)
  <2>1. tx' = [tx EXCEPT ![w] = "none"] /\ lock' # w
        /\ (lock' = lock \/ (lock \in {w, None} /\ lock' \in {w, None}))
    BY <1>1, NoneAssumption DEF Gone
  <2> QED BY <2>1
<1>2. CASE Stays(w, s)
  BY <1>2 DEF Stays
<1> QED BY <1>1, <1>2

\* A failure of the statement turns to the rollback.
LEMMA FailStep ==
  ASSUME WriteInv, NEW w \in Writers, RunFails(w)
  PROVE  WriteInv'
<1>1. /\ pc[w] = "run" /\ Claims(w) /\ w \notin applied /\ outcome[w] = "none" /\ Mode(w) # "auto"
      /\ tx[w] \in Phases /\ tx[w] # "committing" /\ (lock = w => tx[w] # "none")
      /\ UNCHANGED <<version, tx, applied, planVars, run, outcome>>
  BY WriterFacts DEF RunFails, Claims, Executing, CallOK, TransactionOK, AnswerOK
<1>2. Moves(w, "rollback", "error", tx[w], "none")
  BY <1>1, Unmoved DEF RunFails, Abort, Goto, Moves
<1>3. lock' = lock \/ (lock = None /\ lock' = w /\ tx[w] = "open")
  BY DEF RunFails
<1> QED BY <1>1, <1>2, <1>3, MoveStep DEF Executing, Causes, Outcomes

\* The rollback returns its cause only when the transaction is gone.
LEMMA RollbackStep ==
  ASSUME WriteInv, NEW w \in Writers, Rollback(w)
  PROVE  WriteInv'
<1>1. /\ pc[w] = "rollback" /\ Claims(w) /\ w \notin applied /\ Mode(w) # "auto"
      /\ cause[w] \in Causes \ {"none"} /\ tx[w] \in Phases /\ tx[w] # "committing"
      /\ (lock = w => tx[w] # "none")
      /\ UNCHANGED <<version, applied, planVars, run, cause>>
  BY WriterFacts DEF Rollback, Claims, Executing, CallOK, TransactionOK, AnswerOK
<1>2. PICK kind \in {cause[w], "unknown"} : Return(w, kind)
  BY DEF Rollback
<1>3. kind \in Outcomes \ {"none", "ok"}
  BY <1>1 DEF Causes, Outcomes, Definite
<1>4. CASE Gone(w) \/ Stays(w, "lost")
  <2>1. PICK t \in {"none", "lost"} :
          /\ tx' = [tx EXCEPT ![w] = t]
          /\ lock' = lock \/ (lock \in {w, None} /\ lock' \in {w, None})
          /\ lock' = w => t # "none"
    BY <1>4, Leaving
  <2>2. Moves(w, "done", cause[w], t, kind)
    BY <1>1, <1>2, <2>1, Unmoved DEF Return, Goto, Moves
  <2> QED BY <1>1, <1>3, <2>1, <2>2, MoveStep DEF Executing, Phases
<1>5. CASE tx[w] # "open" /\ UNCHANGED <<tx, lock>>
  <2>1. Moves(w, "done", cause[w], tx[w], kind)
    BY <1>1, <1>2, <1>5, Unmoved DEF Return, Goto, Moves
  <2> QED BY <1>1, <1>3, <1>5, <2>1, MoveStep DEF Executing
<1> QED BY <1>4, <1>5 DEF Rollback

\* A failed Commit leaves the question open: the change may be on its way, and
\* then the row is still locked at the version it expects.
LEMMA CommitFailsStep ==
  ASSUME WriteInv, NEW w \in Writers, CommitFails(w)
  PROVE  WriteInv'
<1>1. /\ pc[w] = "commit" /\ Claims(w) /\ w \notin applied /\ Mode(w) # "auto"
      /\ cause[w] = "none" /\ tx[w] \in Phases /\ tx[w] # "committing"
      /\ (lock = w => tx[w] # "none")
      /\ Return(w, "unknown")
      /\ UNCHANGED <<version, applied, planVars, run, cause>>
  BY WriterFacts DEF CommitFails, Claims, Executing, CallOK, TransactionOK, AnswerOK
<1>2. ASSUME NEW s \in {"lost", "committing"}, tx[w] = "open", Gone(w) \/ Stays(w, s)
      PROVE  WriteInv'
  <2>1. PICK t \in {"none", s} :
          /\ tx' = [tx EXCEPT ![w] = t]
          /\ lock' = lock \/ (lock \in {w, None} /\ lock' \in {w, None})
          /\ lock' = w => t # "none"
          /\ t = s => lock' = lock
    BY <1>2, Leaving
  <2>2. Moves(w, "done", "none", t, "unknown")
    BY <1>1, <2>1, Unmoved DEF Return, Goto, Moves
  <2>3. lock = w /\ (Mode(w) = "versioned" => Plan(w).expected = version)
    BY <1>1, <1>2, WriterFacts DEF TransactionOK
  <2> QED BY <1>1, <2>1, <2>2, <2>3, MoveStep DEF Executing, Phases, Causes, Outcomes
<1>3. CASE tx[w] # "open" /\ UNCHANGED <<tx, lock>>
  <2>1. Moves(w, "done", "none", tx[w], "unknown")
    BY <1>1, <1>3, Unmoved DEF Return, Goto, Moves
  <2> QED BY <1>1, <1>3, <2>1, MoveStep DEF Executing, Causes, Outcomes
<1> QED BY <1>2, <1>3 DEF CommitFails

\* A panic rolls back, or leaves the transaction with the server.
LEMMA PanicStep ==
  ASSUME WriteInv, NEW w \in Writers, Panic(w)
  PROVE  WriteInv'
<1>1. /\ pc[w] = "run" /\ Claims(w) /\ w \notin applied /\ Mode(w) # "auto"
      /\ cause[w] = "none" /\ tx[w] \in Phases /\ tx[w] # "committing"
      /\ (lock = w => tx[w] # "none")
      /\ Return(w, "panicked")
      /\ UNCHANGED <<version, applied, planVars, run, cause>>
  BY WriterFacts DEF Panic, Claims, Executing, CallOK, TransactionOK, AnswerOK
<1>2. CASE Gone(w) \/ Stays(w, "lost")
  <2>1. PICK t \in {"none", "lost"} :
          /\ tx' = [tx EXCEPT ![w] = t]
          /\ lock' = lock \/ (lock \in {w, None} /\ lock' \in {w, None})
          /\ lock' = w => t # "none"
    BY <1>2, Leaving
  <2>2. Moves(w, "done", "none", t, "panicked")
    BY <1>1, <2>1, Unmoved DEF Return, Goto, Moves
  <2> QED BY <1>1, <2>1, <2>2, MoveStep DEF Executing, Phases, Causes, Outcomes
<1>3. CASE lock = None /\ lock' = w /\ tx' = [tx EXCEPT ![w] = "lost"]
  <2>1. Moves(w, "done", "none", "lost", "panicked")
    BY <1>1, <1>3, Unmoved DEF Return, Goto, Moves
  <2> QED BY <1>1, <1>3, <2>1, MoveStep DEF Executing, Phases, Causes, Outcomes
<1>4. CASE tx[w] # "open" /\ UNCHANGED <<tx, lock>>
  <2>1. Moves(w, "done", "none", tx[w], "panicked")
    BY <1>1, <1>4, Unmoved DEF Return, Goto, Moves
  <2> QED BY <1>1, <1>4, <2>1, MoveStep DEF Executing, Causes, Outcomes
<1> QED BY <1>2, <1>3, <1>4 DEF Panic

\* The environment may take the transaction away at any time.
LEMMA AbandonStep ==
  ASSUME WriteInv, NEW w \in Writers, Abandon(w)
  PROVE  WriteInv'
<1>1. /\ tx[w] = "open" /\ Claims(w) /\ w \notin applied /\ Mode(w) # "auto"
      /\ pc[w] \in {"recheck", "run", "rollback", "commit"}
      /\ cause[w] \in Causes /\ outcome[w] = "none"
      /\ (pc[w] # "rollback" => cause[w] = "none") /\ (pc[w] = "rollback" => cause[w] # "none")
      /\ UNCHANGED <<version, applied, planVars, pc, run, cause, outcome>>
  BY WriterFacts DEF Abandon, Claims, CallOK, TransactionOK
<1>2. PICK t \in {"none", "lost"} :
        /\ tx' = [tx EXCEPT ![w] = t]
        /\ lock' = lock \/ (lock \in {w, None} /\ lock' \in {w, None})
        /\ lock' = w => t # "none"
  BY Leaving DEF Abandon
<1>3. Moves(w, pc[w], cause[w], t, "none")
  BY <1>1, <1>2, Unmoved DEF Moves
<1> QED BY <1>1, <1>2, <1>3, MoveStep DEF Executing, Phases, Outcomes

(***************************************************************************)
(* Planning, claiming and the durable steps.                               *)
(***************************************************************************)
\* Any step of one writer that keeps the frame.
LEMMA WriterStep ==
  ASSUME WriteInv, NEW w \in Writers, Shares(w),
         NEW label, NEW c, NEW t, NEW o, Moves(w, label, c, t, o),
         \A v \in Writers \ {w} : run'[v] = run[v],
         \A v \in Writers \ {w} : Claims(v) /\ Claims(w)' => run[v] # run'[w],
         TypeOK', WriterOK(w)', Counted'
  PROVE  WriteInv'
<1>1. version' \in Nat
  BY VersionAssumption DEF TypeOK
<1>2. \A v \in Writers \ {w} : WriterOK(v)' /\ (Claims(v)' <=> Claims(v)) /\ run'[v] = run[v]
  BY <1>1, OthersOK
<1>3. WritersOK'
  BY <1>2 DEF WritersOK
<1>4. ClaimedOnce'
  BY <1>2 DEF WriteInv, ClaimedOnce
<1>5. SealsFit'
  BY DEF WriteInv, SealsFit, Sealed, Shares
<1> QED BY <1>3, <1>4, <1>5 DEF WriteInv

\* A plan is sealed once, so sealing another leaves every writer's plan alone.
LEMMA SealStep ==
  ASSUME WriteInv, NEW p \in Plans, NEW m \in Modes, NEW v \in 0..MaxVersion, Seal(p, m, v)
  PROVE  WriteInv'
<1>1. /\ seal' = [seal EXCEPT ![p] = [mode |-> m, expected |-> v]] /\ seal[p] = None
      /\ m = "versioned" => v < MaxVersion
      /\ UNCHANGED <<version, lock, tx, applied, used, pc, run, cause, outcome>>
  BY DEF Seal, dbVars
<1>2. [mode |-> m, expected |-> v] \in Seals
  BY DEF Seals
<1>3. TypeOK'
  BY <1>1, <1>2 DEF WriteInv, TypeOK
<1>4. SealsFit'
  BY <1>1, <1>2 DEF WriteInv, TypeOK, SealsFit, Sealed
<1>5. \A w \in Writers : pc[w] # "idle" => Mode(w)' = Mode(w) /\ Plan(w)' = Plan(w) /\ Sealed(run[w])'
  BY <1>1 DEF WriteInv, TypeOK, WritersOK, WriterOK, CallOK, Sealed, Mode, Plan
<1>6. \A w \in Writers : (Claims(w)' <=> Claims(w)) /\ (Claims(w) => pc[w] # "idle")
  BY <1>1 DEF Claims, WriteInv, WritersOK, WriterOK, CallOK
<1>7. WritersOK'
  <2> SUFFICES ASSUME NEW w \in Writers PROVE WriterOK(w)'
    BY DEF WritersOK
  <2>1. CallOK(w) /\ TransactionOK(w) /\ AnswerOK(w)
    BY DEF WriteInv, WritersOK, WriterOK
  <2>2. CallOK(w)'
    BY <1>1, <1>5, <1>6, <2>1 DEF CallOK, Executing
  <2>3. TransactionOK(w)' /\ AnswerOK(w)'
    <3>1. CASE pc[w] # "idle"
      BY <1>1, <1>5, <2>1, <3>1 DEF TransactionOK, AnswerOK
    <3>2. CASE pc[w] = "idle"
      BY <1>1, <1>6, <2>1, <3>2 DEF TransactionOK, AnswerOK, Claims
    <3> QED BY <3>1, <3>2
  <2> QED BY <2>2, <2>3 DEF WriterOK
<1>8. ClaimedOnce'
  BY <1>1, <1>6 DEF WriteInv, ClaimedOnce
<1>9. Counted'
  <2>1. \A w \in applied : w \in Writers /\ Mode(w)' = Mode(w) /\ Plan(w)' = Plan(w)
    BY <1>5, <1>6 DEF WriteInv, TypeOK, Claims
  <2>2. {w \in applied : Mode(w)' = "versioned"} = {w \in applied : Mode(w) = "versioned"}
    BY <2>1
  <2> QED BY <1>1, <2>1, <2>2 DEF WriteInv, Counted, NoLostUpdate
<1> QED BY <1>3, <1>4, <1>7, <1>8, <1>9 DEF WriteInv

\* Checking a plan claims nothing.
LEMMA CheckStep ==
  ASSUME WriteInv, NEW w \in Writers, NEW p \in Plans, Check(w, p)
  PROVE  WriteInv'
<1>1. /\ pc[w] = "idle" /\ ~Claims(w) /\ outcome[w] = "none" /\ cause[w] = "none" /\ tx[w] = "none"
      /\ w \notin applied /\ lock # w /\ Sealed(p)
      /\ run' = [run EXCEPT ![w] = p]
      /\ UNCHANGED <<version, lock, tx, applied, seal, used, cause>>
  BY WriterFacts DEF Check, dbVars, planVars, CallOK, TransactionOK, Claims, Executing, Sealed, WriteInv, TypeOK
<1>2. PICK label \in {"bind", "done"}, o \in {"none", "refused"} :
        Moves(w, label, "none", "none", o) /\ (label = "done" <=> o # "none")
  <2>1. CASE Goto(w, "bind") /\ UNCHANGED outcome
    <3>1. Moves(w, "bind", "none", "none", "none")
      BY <1>1, <2>1, Unmoved DEF Goto, Moves
    <3> QED BY <3>1
  <2>2. CASE Return(w, "refused")
    <3>1. Moves(w, "done", "none", "none", "refused")
      BY <1>1, <2>2, Unmoved DEF Return, Goto, Moves
    <3> QED BY <3>1
  <2> QED BY <2>1, <2>2 DEF Check
<1>3. /\ pc'[w] = label /\ cause'[w] = "none" /\ tx'[w] = "none" /\ outcome'[w] = o /\ run'[w] = p
      /\ \A v \in Writers \ {w} : run'[v] = run[v]
  BY <1>1, <1>2 DEF Moves, WriteInv, TypeOK
<1>4. TypeOK'
  BY <1>1, <1>2 DEF WriteInv, TypeOK, Moves, Outcomes, Definite
<1>5. ~Claims(w)'
  BY <1>1, <1>3 DEF Claims, Executing
<1>6. WriterOK(w)'
  BY <1>1, <1>2, <1>3, <1>5 DEF WriterOK, CallOK, TransactionOK, AnswerOK, Executing, Sealed
<1>7. Counted'
  <2>1. \A v \in applied : v \in Writers /\ Mode(v)' = Mode(v) /\ Plan(v)' = Plan(v)
    BY <1>1, <1>3 DEF WriteInv, TypeOK, Mode, Plan
  <2>2. {v \in applied : Mode(v)' = "versioned"} = {v \in applied : Mode(v) = "versioned"}
    BY <2>1
  <2> QED BY <1>1, <2>1, <2>2, ZenonT(60) DEF WriteInv, Counted, NoLostUpdate
<1>8. Shares(w)
  BY <1>1 DEF Shares
<1> QED BY <1>2, <1>3, <1>4, <1>5, <1>6, <1>7, <1>8, WriterStep

\* The claim: nobody else holds the plan that was not used before.
LEMMA BindStep ==
  ASSUME WriteInv, NEW w \in Writers, Bind(w)
  PROVE  WriteInv'
<1>1. /\ pc[w] = "bind" /\ ~Claims(w) /\ outcome[w] = "none" /\ cause[w] = "none" /\ tx[w] = "none"
      /\ w \notin applied /\ lock # w /\ run[w] \in Plans /\ Sealed(run[w])
      /\ UNCHANGED <<version, lock, tx, applied, seal, run, cause>>
  BY WriterFacts DEF Bind, dbVars, CallOK, TransactionOK, Claims
<1>2. PICK label \in {"run", "begin", "done"}, o \in {"none", "refused"} :
        /\ Moves(w, label, "none", "none", o) /\ (label = "done" <=> o # "none")
        /\ label = "begin" => Mode(w) # "auto"
        /\ label # "done" => ~used[run[w]] /\ used' = [used EXCEPT ![run[w]] = TRUE]
        /\ label = "done" => used' = used
  <2>1. CASE /\ ~used[run[w]] /\ used' = [used EXCEPT ![run[w]] = TRUE]
             /\ Goto(w, IF Mode(w) = "auto" THEN "run" ELSE "begin") /\ UNCHANGED outcome
    <3>1. Moves(w, IF Mode(w) = "auto" THEN "run" ELSE "begin", "none", "none", "none")
      BY <1>1, <2>1, Unmoved DEF Goto, Moves
    <3> QED BY <2>1, <3>1
  <2>2. CASE used[run[w]] /\ Return(w, "refused") /\ UNCHANGED used
    <3>1. Moves(w, "done", "none", "none", "refused")
      BY <1>1, <2>2, Unmoved DEF Return, Goto, Moves
    <3> QED BY <2>2, <3>1
  <2> QED BY <2>1, <2>2 DEF Bind
<1>3. pc'[w] = label /\ cause'[w] = "none" /\ tx'[w] = "none" /\ outcome'[w] = o
  BY <1>2 DEF Moves, WriteInv, TypeOK
<1>4. TypeOK'
  <2>1. used' \in [Plans -> BOOLEAN]
    BY <1>2 DEF WriteInv, TypeOK
  <2> QED BY <1>1, <1>2, <2>1 DEF WriteInv, TypeOK, Moves, Outcomes, Definite
<1>5. used'[run[w]] \/ label = "done"
  BY <1>1, <1>2 DEF WriteInv, TypeOK
<1>6. Claims(w)' => label # "done"
  BY <1>1, <1>3 DEF Claims, Executing
<1>7. WriterOK(w)'
  <2>1. CallOK(w)'
    BY <1>1, <1>2, <1>3, <1>5, <1>6 DEF CallOK, Executing, Sealed, Mode, Plan
  <2>2. TransactionOK(w)' /\ AnswerOK(w)'
    BY <1>1, <1>2, <1>3 DEF TransactionOK, AnswerOK
  <2> QED BY <2>1, <2>2 DEF WriterOK
<1>8. Counted'
  BY <1>1 DEF WriteInv, Counted, NoLostUpdate, Mode, Plan
<1>9. Shares(w)
  <2>1. \A p \in Plans : used[p] => used'[p]
    BY <1>2 DEF WriteInv, TypeOK
  <2> QED BY <1>1, <2>1 DEF Shares
<1>10. \A v \in Writers \ {w} : Claims(v) /\ Claims(w)' => run[v] # run'[w]
  <2>1. \A v \in Writers : Claims(v) => used[run[v]]
    BY DEF WriteInv, WritersOK, WriterOK, CallOK
  <2> QED BY <1>1, <1>2, <1>6, <2>1
<1> QED BY <1>1, <1>2, <1>4, <1>7, <1>8, <1>9, <1>10, WriterStep

\* A change that becomes durable is counted once, by the version it expected.
LEMMA CountStep ==
  ASSUME WriteInv, NEW w \in Writers, w \notin applied, applied' = applied \cup {w},
         UNCHANGED <<seal, run>>,
         IF Mode(w) = "versioned" THEN Plan(w).expected = version /\ version' = version + 1
                                  ELSE version' = version
  PROVE  Counted'
<1> DEFINE counted == {v \in applied : Mode(v) = "versioned"}
           counted2 == {v \in applied' : Mode(v)' = "versioned"}
<1>1. \A v \in Writers : Mode(v)' = Mode(v) /\ Plan(v)' = Plan(v)
  BY DEF Mode, Plan
<1>2. /\ IsFiniteSet(applied) /\ applied \subseteq Writers /\ version = Cardinality(counted)
      /\ \A u, v \in counted : Plan(u).expected = Plan(v).expected => u = v
      /\ version \in Nat
  BY VersionAssumption DEF WriteInv, TypeOK, Counted, NoLostUpdate
<1>3. IsFiniteSet(applied') /\ IsFiniteSet(counted)
  BY <1>2, FS_AddElement, FS_Subset
<1>4. \A v \in counted : Plan(v).expected \in Int /\ Plan(v).expected < version
  <2> SUFFICES ASSUME NEW v \in counted
               PROVE  Plan(v).expected \in Int /\ Plan(v).expected < version
    OBVIOUS
  <2>1. v \in Writers /\ Claims(v)
    BY <1>2 DEF Claims
  <2>2. seal[run[v]] \in Seals
    BY <2>1, WriterFacts
  <2> QED BY <2>1, <2>2, WriterFacts DEF AnswerOK, Plan, Seals
<1>5. CASE Mode(w) = "versioned"
  <2>1. counted2 = counted \cup {w}
    BY <1>1, <1>2, <1>5
  <2>2. Cardinality(counted2) = Cardinality(counted) + 1
    BY <1>3, <2>1, FS_AddElement
  <2>3. \A u, v \in counted2 : Plan(u).expected = Plan(v).expected => u = v
    BY <1>2, <1>4, <1>5, <2>1
  <2>4. \A u, v \in counted2 : Plan(u)'.expected = Plan(v)'.expected => u = v
    BY <1>1, <1>2, <2>3
  <2> QED BY <1>2, <1>3, <1>5, <2>2, <2>4 DEF Counted, NoLostUpdate
<1>6. CASE Mode(w) # "versioned"
  <2>1. counted2 = counted
    BY <1>1, <1>2, <1>6
  <2>2. \A u, v \in counted2 : Plan(u)'.expected = Plan(v)'.expected => u = v
    BY <1>1, <1>2, <2>1
  <2> QED BY <1>2, <1>3, <1>6, <2>1, <2>2 DEF Counted, NoLostUpdate
<1> QED BY <1>5, <1>6

\* A transaction that holds the row commits: by the call, or by the server after
\* the call has returned.
LEMMA DurableStep ==
  ASSUME WriteInv, NEW w \in Writers, Claims(w), w \notin applied, lock = w, Mode(w) # "auto",
         cause[w] = "none", Mode(w) = "versioned" => Plan(w).expected = version,
         Durable(w), Gone(w), NEW o \in {"ok", "unknown"}, Moves(w, "done", "none", "none", o),
         UNCHANGED <<planVars, run>>
  PROVE  WriteInv'
<1>1. /\ UNCHANGED <<seal, used, run>> /\ applied' = applied \cup {w} /\ lock' = None
      /\ pc'[w] = "done" /\ cause'[w] = "none" /\ tx'[w] = "none" /\ outcome'[w] = o
  BY DEF planVars, Durable, Gone, Moves, WriteInv, TypeOK
<1>2. run[w] \in Plans /\ Sealed(run[w]) /\ used[run[w]] /\ version \in Nat
      /\ Mode(w)' = Mode(w) /\ Plan(w)' = Plan(w)
  BY <1>1, WriterFacts DEF CallOK, Sealed, Mode, Plan
<1>3. IF Mode(w) = "versioned" THEN Plan(w).expected = version /\ version' = version + 1
                               ELSE version' = version
  BY DEF Durable
<1>4. Counted'
  BY <1>1, <1>3, CountStep
<1>5. version' \in 0..MaxVersion /\ (version' = version \/ version' > version)
  <2>1. version \in 0..MaxVersion
    BY DEF WriteInv, TypeOK
  <2>2. Mode(w) = "versioned" => Plan(w).expected < MaxVersion
    BY <1>2 DEF WriteInv, SealsFit, Mode, Plan
  <2> QED BY <1>3, <2>1, <2>2, VersionAssumption
<1>6. TypeOK'
  BY <1>1, <1>5 DEF WriteInv, TypeOK, Moves, Outcomes
<1>7. Shares(w)
  BY <1>1, <1>5 DEF Shares
<1>8. WriterOK(w)'
  <2>1. CallOK(w)'
    BY <1>1, <1>2 DEF CallOK, Executing, Sealed
  <2>2. TransactionOK(w)' /\ AnswerOK(w)'
    BY <1>1, <1>2, <1>3, NoneAssumption DEF TransactionOK, AnswerOK
  <2> QED BY <2>1, <2>2 DEF WriterOK
<1>9. \A v \in Writers \ {w} : Claims(v) /\ Claims(w)' => run[v] # run'[w]
  BY <1>1 DEF WriteInv, ClaimedOnce
<1> QED BY <1>1, <1>4, <1>6, <1>7, <1>8, <1>9, WriterStep

\* Commit answers ok exactly when the change is durable.
LEMMA CommitStep ==
  ASSUME WriteInv, NEW w \in Writers, Commit(w)
  PROVE  WriteInv'
<1>1. /\ Claims(w) /\ w \notin applied /\ lock = w /\ Mode(w) # "auto" /\ cause[w] = "none"
      /\ Mode(w) = "versioned" => Plan(w).expected = version
      /\ Durable(w) /\ Gone(w) /\ UNCHANGED <<planVars, run, cause>>
  BY WriterFacts DEF Commit, Claims, Executing, CallOK, TransactionOK
<1>2. Moves(w, "done", "none", "none", "ok")
  BY <1>1, Unmoved DEF Commit, Return, Goto, Gone, Moves
<1> QED BY <1>1, <1>2, DurableStep

\* The server ends a transaction that lost its client, and may still commit one
\* whose COMMIT was on its way.
LEMMA ServerStep ==
  ASSUME WriteInv, NEW w \in Writers, ServerEnds(w)
  PROVE  WriteInv'
<1>1. /\ tx[w] \in {"lost", "committing"} /\ Claims(w) /\ w \notin applied /\ Mode(w) # "auto"
      /\ Gone(w) /\ UNCHANGED <<planVars, pc, run, cause, outcome>>
  BY WriterFacts DEF ServerEnds, Claims, TransactionOK
<1>2. CASE tx[w] = "committing" /\ Durable(w)
  <2>1. /\ lock = w /\ outcome[w] = "unknown" /\ cause[w] = "none" /\ pc[w] = "done"
        /\ Mode(w) = "versioned" => Plan(w).expected = version
    BY <1>2, WriterFacts DEF TransactionOK, CallOK
  <2>2. Moves(w, "done", "none", "none", "unknown")
    BY <1>1, <2>1, Unmoved DEF Gone, Moves
  <2> QED BY <1>1, <1>2, <2>1, <2>2, DurableStep
<1>3. CASE UNCHANGED <<version, applied>>
  <2>1. PICK t \in {"none"} :
          /\ tx' = [tx EXCEPT ![w] = t] /\ lock' # w
          /\ lock' = lock \/ (lock \in {w, None} /\ lock' \in {w, None})
    BY <1>1, NoneAssumption DEF Gone
  <2>2. Moves(w, pc[w], cause[w], "none", outcome[w])
    BY <1>1, <2>1, Unmoved DEF Moves
  <2>3. /\ pc[w] \in (Executing \ {"begin"}) \cup {"done"} /\ cause[w] \in Causes
        /\ outcome[w] \in Outcomes /\ (pc[w] = "done" <=> outcome[w] # "none") /\ outcome[w] # "ok"
        /\ (pc[w] \notin {"rollback", "done"} => cause[w] = "none")
        /\ (pc[w] = "rollback" => cause[w] # "none")
    BY <1>1, WriterFacts DEF CallOK, TransactionOK, AnswerOK, PCs, Executing
  <2> QED BY <1>1, <1>3, <2>1, <2>2, <2>3, MoveStep DEF Phases
<1> QED BY <1>2, <1>3 DEF ServerEnds

\* An autocommitted statement is durable as it runs, and writes no version.
LEMMA AutoStep ==
  ASSUME WriteInv, NEW w \in Writers, RunAuto(w)
  PROVE  WriteInv'
<1>1. /\ pc[w] = "run" /\ Claims(w) /\ w \notin applied /\ Mode(w) = "auto" /\ cause[w] = "none"
      /\ tx[w] = "none" /\ lock # w
      /\ UNCHANGED <<version, lock, tx, seal, used, run, cause>>
  BY WriterFacts DEF RunAuto, Claims, Executing, CallOK, TransactionOK, AnswerOK, planVars
<1>2. PICK kind \in {"ok", "conflict", "count", "error", "panicked"} :
        /\ Return(w, kind)
        /\ \/ applied' = applied \cup {w}
           \/ applied' = applied /\ kind # "ok"
  <2>1. CASE lock = None /\ \E n \in Affects(w) :
                /\ applied' = IF n > 0 THEN applied \cup {w} ELSE applied
                /\ \E kind \in {IF Verdict(w, n) = "none" THEN "ok" ELSE Verdict(w, n),
                                "error", "panicked"} : Return(w, kind)
    <3>1. PICK n \in Affects(w) :
            /\ applied' = IF n > 0 THEN applied \cup {w} ELSE applied
            /\ \E kind \in {IF Verdict(w, n) = "none" THEN "ok" ELSE Verdict(w, n),
                            "error", "panicked"} : Return(w, kind)
      BY <2>1
    <3>2. n \in {0, 1, 2} /\ Verdict(w, n) \in {"none", "conflict", "count"}
          /\ (Verdict(w, n) = "none" => n = 1)
      BY DEF Affects, Verdict
    <3> QED BY <3>1, <3>2
  <2>2. CASE Return(w, "error") /\ UNCHANGED applied
    BY <2>2
  <2> QED BY <2>1, <2>2 DEF RunAuto
<1>3. Moves(w, "done", "none", "none", kind)
  BY <1>1, <1>2, Unmoved DEF Return, Goto, Moves
<1>4. CASE applied' = applied \cup {w}
  <2>1. /\ pc'[w] = "done" /\ cause'[w] = "none" /\ tx'[w] = "none" /\ outcome'[w] = kind
        /\ run[w] \in Plans /\ Sealed(run[w]) /\ used[run[w]] /\ Mode(w)' = "auto"
    BY <1>1, <1>3, WriterFacts DEF Moves, WriteInv, TypeOK, CallOK, Mode, Plan
  <2>2. TypeOK'
    BY <1>1, <1>3, <1>4 DEF WriteInv, TypeOK, Moves, Outcomes, Definite
  <2>3. WriterOK(w)'
    <3>1. CallOK(w)'
      BY <1>1, <2>1 DEF CallOK, Executing, Sealed
    <3>2. TransactionOK(w)' /\ AnswerOK(w)'
      BY <1>1, <1>4, <2>1 DEF TransactionOK, AnswerOK
    <3> QED BY <3>1, <3>2 DEF WriterOK
  <2>4. Counted'
    BY <1>1, <1>4, CountStep
  <2>5. Shares(w) /\ \A v \in Writers \ {w} : Claims(v) /\ Claims(w)' => run[v] # run'[w]
    BY <1>1, <1>4 DEF Shares, WriteInv, ClaimedOnce
  <2> QED BY <1>1, <1>3, <2>2, <2>3, <2>4, <2>5, WriterStep
<1>5. CASE applied' = applied /\ kind # "ok"
  BY <1>1, <1>3, <1>5, MoveStep DEF Executing, Causes, Phases, Outcomes, Definite, planVars
<1> QED BY <1>2, <1>4, <1>5

\* The invariant holds of every behaviour of concurrent writers.
THEOREM WriteInvariant == Spec => []WriteInv
<1>1. Init => WriteInv
  <2> SUFFICES ASSUME Init PROVE WriteInv
    OBVIOUS
  <2>1. TypeOK
    <3>1. version \in 0..MaxVersion
      BY VersionAssumption DEF Init
    <3>2. used \in [Plans -> BOOLEAN]
      BY DEF Init
    <3> QED BY <3>1, <3>2 DEF Init, TypeOK, Outcomes
  <2>2. SealsFit
    BY DEF Init, SealsFit, Sealed
  <2>3. WritersOK /\ ClaimedOnce
    BY NoneAssumption DEF Init, WritersOK, WriterOK, CallOK, TransactionOK, AnswerOK, ClaimedOnce,
                          Claims, Executing
  <2>4. Counted
    BY FS_EmptySet DEF Init, Counted, NoLostUpdate
  <2> QED BY <2>1, <2>2, <2>3, <2>4 DEF WriteInv
<1>2. WriteInv /\ [Next]_vars => WriteInv'
  <2> SUFFICES ASSUME WriteInv, [Next]_vars PROVE WriteInv'
    BY SMTT(30)
  <2>1. CASE UNCHANGED vars
    BY <2>1 DEF vars, dbVars, planVars, WriteInv, TypeOK, SealsFit, Sealed, WritersOK, WriterOK,
                CallOK, TransactionOK, AnswerOK, ClaimedOnce, Claims, Counted, NoLostUpdate, Mode, Plan
  <2>2. CASE Next
    BY <2>2, SealStep, CheckStep, BindStep, BeginStep, RecheckStep, UpdateStep, FailStep, AutoStep,
       RollbackStep, CommitStep, CommitFailsStep, PanicStep, AbandonStep, ServerStep
       DEF Next, Step
  <2> QED BY <2>1, <2>2
<1> QED BY <1>1, <1>2, PTL DEF Spec

(***************************************************************************)
(* What follows from the invariant.                                        *)
(***************************************************************************)
\* For any number of goroutines and plans: a plan changes the database at most
\* once, no durable versioned update is lost, and the version fits its column.
THEOREM UpdatesAreKeptHolds == Spec => []UpdatesAreKept
<1>1. WriteInv => UpdatesAreKept
  BY DEF WriteInv, TypeOK, ClaimedOnce, Claims, Counted, UpdatesAreKept, PlanAppliedOnce
<1> QED BY <1>1, WriteInvariant, PTL

\* What runWrite returns is true of the database, now and later: a definite error
\* changed nothing and never will, and a success is durable.
THEOREM AnswersAreTrueHolds == Spec => []AnswersAreTrue
<1>1. ASSUME WriteInv, NEW w \in Writers
      PROVE  /\ outcome[w] \in Definite \cup {"panicked"} /\ (run[w] # None => Mode(w) # "auto") =>
                  w \notin applied /\ tx[w] # "committing"
             /\ outcome[w] = "ok" => w \in applied
             /\ w \in applied /\ Mode(w) # "auto" => outcome[w] \in {"ok", "unknown"} /\ cause[w] = "none"
  BY <1>1, NoneAssumption, WriterFacts DEF CallOK, TransactionOK, AnswerOK, Definite
<1>2. WriteInv => AnswersAreTrue
  BY <1>1 DEF AnswersAreTrue, DefiniteMeansUnchanged, SuccessIsDurable
<1> QED BY <1>2, WriteInvariant, PTL
=============================================================================
