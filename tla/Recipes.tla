------------------------------ MODULE Recipes ------------------------------
(***************************************************************************)
(* Writes of several statements: TransactionContext (driver/driver.go,     *)
(* orm.go) and the recipes on top of it - RunTransactionWithHooks,         *)
(* RunIdempotentCommand, ReplaceNestedCollection with and without Tx - and *)
(* InsertOnceReturning, whose two statements share no transaction.         *)
(* Callers run concurrently against one database; a statement that meets   *)
(* another caller's uncommitted key waits.  All calls are about the same   *)
(* idempotency key and the same parent.                                    *)
(***************************************************************************)
EXTENDS Naturals, Sequences, FiniteSets, SequencesExt

CONSTANTS
    Callers,     \* goroutines, one call each
    Calls,       \* the calls they may make
    Old,         \* rows of the collection before
    MaxPurges    \* how often another session deletes the key's row

ASSUME CallsAssumption ==
    /\ Calls \subseteq [kind : {"hooks", "command", "once", "nested"}, tx : BOOLEAN, parent : BOOLEAN,
                        scoped : BOOLEAN, strict : BOOLEAN, valid : BOOLEAN, deadline : BOOLEAN]
    /\ \A k \in Calls : (k.kind \in {"hooks", "command"} => k.tx) /\ (k.kind = "once" => ~k.tx)
ASSUME OldAssumption ==
    /\ \A r \in Old : r.by \notin Callers
    /\ \A r, s \in Old : r.t = "child" /\ s.t = "child" => r.by = s.by

VARIABLES
    call,       \* call[c]: the call c makes, a set of at most one
    pc,         \* pc[c]: where it is
    todo,       \* todo[c]: the statements it still has to run
    children,   \* children[c]: spec.Children, as the caller's memory holds them
    ids,        \* ids[c]: the child IDs collected so far
    tx,         \* tx[c]: "none", "open", "ended"
    ctx,        \* ctx[c]: "live" or "done"
    pend,       \* pend[c]: uncommitted inserts and deletes
    cause,      \* cause[c]: the error a rollback is for
    ret,        \* ret[c]: what the call returned
    table,      \* the committed rows
    ever,       \* history: the rows ever committed
    nextId,     \* the next generated ID
    purges

callVars == <<call, todo, children, ids, cause, ret>>
dbVars == <<table, ever, nextId, pend>>
recipeVars == <<callVars, pc, tx, ctx, dbVars, purges>>

Row(t, val, id, c) == [t |-> t, val |-> val, id |-> id, by |-> c]
NoWrites == [ins |-> {}, del |-> {}]
Nothing == [kind |-> "none", row |-> {}]
It(c) == CHOOSE k \in call[c] : TRUE

Goto(c, label) == pc' = [pc EXCEPT ![c] = label]
Return(c, kind, rows) ==
    /\ Goto(c, "done")
    /\ ret' = [ret EXCEPT ![c] = [kind |-> kind, row |-> rows]]

-----------------------------------------------------------------------------
(* Statements                                                              *)

Step(phase, val, dest) == [phase |-> phase, val |-> val, dest |-> dest]

(* Rows a statement of c sees: the committed ones and its own              *)
Visible(c) == (table \ pend[c].del) \cup pend[c].ins
Keys(t, rows) == {r \in rows : r.t = t}
LockedByOther(c, t) == \E d \in Callers \ {c} : Keys(t, pend[d].ins \cup pend[d].del) # {}

(* A write lands in the open transaction or, on the plain database, is     *)
(* durable at once                                                         *)
Write(c, dest, ins, del) ==
    IF dest = "tx"
    THEN /\ tx[c] \notin {"none", "ended"}
         /\ pend' = [pend EXCEPT ![c] = [ins |-> (@.ins \ del) \cup ins, del |-> @.del \cup (del \cap table)]]
         /\ UNCHANGED <<table, ever>>
    ELSE /\ table' = (table \ del) \cup ins /\ ever' = ever \cup ins /\ UNCHANGED pend

(* The parent's row lock comes before anything of the collection is        *)
(* touched. Mutant: the parent is written last                             *)
ParentLast(parent, rest) == rest \o parent
ParentFirst(parent, rest) == parent \o rest

(* prepareNested: every statement planned on the caller's database, in the *)
(* order executeNested runs them; a parent may be skipped, a delete with   *)
(* scopes stays unresolved                                                 *)
ChildSteps(vals) == [j \in DOMAIN vals |-> Step("child", vals[j], "db")]
NestedSteps(k, vals) ==
    ParentFirst(IF k.parent THEN <<Step("parent", 0, "db")>> ELSE <<>>,
                <<Step("delete", 0, "db")>> \o ChildSteps(vals) \o <<Step("grand", 0, "db")>>)

(* The database handed to executeNested                                    *)
Dest(k) == IF k.tx THEN "tx" ELSE "db"

StepsOf(k, vals) ==
    CASE k.kind = "hooks" -> <<Step("main", 1, "tx"), Step("hook", 1, "tx"), Step("hook", 2, "tx")>>
      [] k.kind = "command" -> <<Step("main", 1, "tx"), Step("hook", 1, "tx")>>
      [] k.kind = "once" -> <<Step("once", 1, "db")>>
      [] OTHER -> NestedSteps(k, vals)

-----------------------------------------------------------------------------
(* A call begins                                                           *)

(* rejectOpaqueCompound: strict settings refuse callbacks they cannot see  *)
(* into; the other checks refuse what can be known before any statement    *)
Refused(k) == ~k.valid \/ (k.strict /\ k.kind \in {"hooks", "command", "nested"})

First(k) == IF k.kind = "command" THEN "lookup" ELSE IF k.tx THEN "begin" ELSE "run"

Start(c, k) ==
    /\ pc[c] = "idle"
    /\ call' = [call EXCEPT ![c] = {k}]
    /\ IF Refused(k) THEN Return(c, "refused", {}) /\ UNCHANGED todo
       ELSE /\ todo' = [todo EXCEPT ![c] = StepsOf(k, children[c])]
            /\ Goto(c, First(k)) /\ UNCHANGED ret
    /\ UNCHANGED <<children, ids, cause, tx, ctx, dbVars, purges>>

(* The row of the key as the database holds it. Mutant: the caller's own   *)
(* input is echoed                                                         *)
FoundInput(c) == {Row("main", 1, 0, c)}
Found(c) == Keys("main", table)

(* LookupExisting: on the database, outside any transaction                *)
Lookup(c) ==
    /\ pc[c] = "lookup"
    /\ \/ /\ Keys("main", table) # {}
          /\ Return(c, "existing", Found(c))
       \/ /\ Keys("main", table) = {} /\ Goto(c, "begin") /\ UNCHANGED ret
       \/ Return(c, "error", {})
    /\ UNCHANGED <<call, todo, children, ids, cause, tx, ctx, dbVars, purges>>

-----------------------------------------------------------------------------
(* TransactionContext                                                      *)

(* Mutant: the transaction does not know the context                       *)
BeginBackground(c) == [tx EXCEPT ![c] = "detached"]
BeginTx(c) == [tx EXCEPT ![c] = "open"]

Begin(c) ==
    /\ pc[c] = "begin"
    /\ \/ /\ ctx[c] = "live" /\ tx' = BeginTx(c)
          /\ Goto(c, IF It(c).kind = "nested" THEN "rebind" ELSE "run") /\ UNCHANGED ret
       \/ Return(c, "error", {}) /\ UNCHANGED tx
    /\ UNCHANGED <<call, todo, children, ids, cause, ctx, dbVars, purges>>

(* rebind: every known statement is planned again on the transaction       *)
(* Mutant: the plans of the plain database are kept                        *)
ReboundNot(steps) == steps
Rebound(steps) == [i \in DOMAIN steps |-> [steps[i] EXCEPT !.dest = "tx"]]

Rebind(c) ==
    /\ pc[c] = "rebind"
    /\ todo' = [todo EXCEPT ![c] = Rebound(@)]
    /\ Goto(c, "run")
    /\ UNCHANGED <<call, children, ids, cause, ret, tx, ctx, dbVars, purges>>

(* An error of the body: roll back, or return it when nothing is open      *)
Fail(c, err) ==
    IF tx[c] = "none" THEN Return(c, err, {}) /\ UNCHANGED cause
    ELSE Goto(c, "rollback") /\ cause' = [cause EXCEPT ![c] = err] /\ UNCHANGED ret

(* A statement, a hook or a callback returns an error                      *)
StepFails(c) ==
    /\ pc[c] \in {"rebind", "run"}
    /\ Fail(c, "error")
    /\ UNCHANGED <<call, todo, children, ids, tx, ctx, dbVars, purges>>

(* A callback panics: there is no deferred rollback                        *)
Panic(c) ==
    /\ pc[c] = "run" /\ It(c).kind # "once"
    /\ Return(c, "panicked", {})
    /\ UNCHANGED <<call, todo, children, ids, cause, tx, ctx, dbVars, purges>>

Rollback(c) ==
    /\ pc[c] = "rollback"
    /\ tx' = [tx EXCEPT ![c] = "ended"] /\ pend' = [pend EXCEPT ![c] = NoWrites]
    /\ IF It(c).kind = "command" /\ cause[c] = "conflict"
       THEN Goto(c, "relookup") /\ UNCHANGED ret
       ELSE Return(c, cause[c], {})
    /\ UNCHANGED <<call, todo, children, ids, cause, ctx, table, ever, nextId, purges>>

Durable(c) ==
    /\ table' = (table \ pend[c].del) \cup pend[c].ins
    /\ ever' = ever \cup pend[c].ins
    /\ pend' = [pend EXCEPT ![c] = NoWrites] /\ UNCHANGED nextId

(* Commit, with its three ends: done, lost, and done with the answer lost  *)
Commit(c) ==
    /\ pc[c] = "run" /\ todo[c] = <<>> /\ It(c).tx
    /\ \/ /\ tx[c] # "ended" /\ Durable(c)
          /\ \/ Return(c, "applied", {r \in pend[c].ins : r.t = "main"})
             \/ Return(c, "commit_error", {})
       \/ /\ pend' = [pend EXCEPT ![c] = NoWrites] /\ UNCHANGED <<table, ever, nextId>>
          /\ Return(c, "commit_error", {})
    /\ tx' = [tx EXCEPT ![c] = "ended"]
    /\ UNCHANGED <<call, todo, children, ids, cause, ctx, purges>>

(* The second lookup of RunIdempotentCommand: a row, the conflict when     *)
(* there is none any more, or its own error                                *)
Relookup(c) ==
    /\ pc[c] = "relookup"
    /\ \/ /\ Keys("main", table) # {}
          /\ Return(c, "existing", Found(c))
       \/ Keys("main", table) = {} /\ Return(c, "conflict", {})
       \/ Return(c, "error", {})
    /\ UNCHANGED <<call, todo, children, ids, cause, tx, ctx, dbVars, purges>>

-----------------------------------------------------------------------------
(* The body                                                                *)

Head1(c) == todo[c][1]
Running(c, phase) == pc[c] = "run" /\ todo[c] # <<>> /\ Head1(c).phase = phase
Advance(c) == todo' = [todo EXCEPT ![c] = Tail(@)]
Same(c) == UNCHANGED <<call, pc, cause, ret, tx, ctx, purges>>

(* Apply inserts the row that carries the unique key                       *)
InsertMain(c) ==
    /\ Running(c, "main") /\ ~LockedByOther(c, "main")
    /\ IF Keys("main", Visible(c)) = {}
       THEN Write(c, "tx", {Row("main", 1, 0, c)}, {}) /\ Advance(c) /\ Same(c)
       ELSE /\ Fail(c, "conflict")
            /\ UNCHANGED <<call, todo, tx, ctx, table, ever, pend, purges>>
    /\ UNCHANGED <<children, ids, nextId>>

(* InsertHook, InsertManyHook and the further statements of Apply          *)
InsertHook(c) ==
    /\ Running(c, "hook")
    /\ Write(c, "tx", {Row("hook", Head1(c).val, 0, c)}, {}) /\ Advance(c) /\ Same(c)
    /\ UNCHANGED <<children, ids, nextId>>

(* The upsert of the parent                                                *)
WriteParent(c) ==
    /\ Running(c, "parent") /\ ~LockedByOther(c, "parent")
    /\ Write(c, Head1(c).dest, {Row("parent", 0, 0, c)}, Keys("parent", Visible(c)))
    /\ Advance(c) /\ Same(c) /\ UNCHANGED <<children, ids, nextId>>

(* A scope may change what the caller passed; the children, the next of    *)
(* the steps, are then planned again                                       *)
Replanned(k, steps, vals) ==
    IF k.scoped
    THEN [i \in DOMAIN steps |-> IF steps[i].phase = "child" THEN Step("child", vals[i], Dest(k)) ELSE steps[i]]
    ELSE steps

(* DeleteBefore: with scopes the statement is planned only now, on the     *)
(* database of the execution                                               *)
DeleteChildren(c) ==
    LET k == It(c)
        vals == IF k.scoped THEN [j \in DOMAIN children[c] |-> children[c][j] + 10] ELSE children[c] IN
    /\ Running(c, "delete") /\ ~LockedByOther(c, "child")
    /\ Write(c, IF k.scoped THEN Dest(k) ELSE Head1(c).dest, {},
             Keys("child", Visible(c)) \cup Keys("grand", Visible(c)))
    /\ children' = [children EXCEPT ![c] = vals]
    /\ todo' = [todo EXCEPT ![c] = Replanned(k, Tail(@), vals)]
    /\ Same(c) /\ UNCHANGED <<ids, nextId>>

(* addChildren plans one INSERT per child, so each answer is its own row's *)
(* ID. Mutant: generated IDs are consecutive                               *)
CollectSpaced(seen, id) == Append(seen, IF seen = <<>> THEN id ELSE seen[Len(seen)] + 1)
Collect(seen, id) == Append(seen, id)

InsertChild(c) ==
    /\ Running(c, "child")
    /\ Write(c, Head1(c).dest, {Row("child", Head1(c).val, nextId, c)}, {})
    /\ ids' = [ids EXCEPT ![c] = Collect(@, nextId)]
    /\ nextId' = nextId + 1
    /\ Advance(c) /\ Same(c) /\ UNCHANGED children

(* Grandchildren is called for every child with its ID; one INSERT         *)
InsertGrandchildren(c) ==
    /\ Running(c, "grand")
    /\ Write(c, Head1(c).dest,
             {Row("grand", children[c][i], ids[c][i], c) : i \in DOMAIN children[c]}, {})
    /\ Advance(c) /\ Same(c) /\ UNCHANGED <<children, ids, nextId>>

(* ReplaceNestedCollection on the caller's database ends without a commit  *)
NestedEnds(c) ==
    /\ pc[c] = "run" /\ todo[c] = <<>> /\ It(c).kind = "nested" /\ ~It(c).tx
    /\ Return(c, "applied", {})
    /\ UNCHANGED <<call, todo, children, ids, cause, tx, ctx, dbVars, purges>>

(* InsertOnceReturning: INSERT ... DO NOTHING RETURNING, autocommitted     *)
InsertOnce(c) ==
    /\ Running(c, "once") /\ ~LockedByOther(c, "main")
    /\ IF Keys("main", table) = {}
       THEN /\ Write(c, "db", {Row("main", 1, 0, c)}, {})
            /\ Return(c, "applied", {Row("main", 1, 0, c)})
       ELSE Goto(c, "oncelookup") /\ UNCHANGED <<ret, table, ever, pend>>
    /\ Advance(c) /\ UNCHANGED <<call, children, ids, cause, tx, ctx, nextId, purges>>

(* ... and its lookup, another statement                                   *)
OnceLookup(c) ==
    /\ pc[c] = "oncelookup"
    /\ \/ Keys("main", table) # {} /\ Return(c, "existing", Found(c))
       \/ Return(c, "error", {})
    /\ UNCHANGED <<call, todo, children, ids, cause, tx, ctx, dbVars, purges>>

-----------------------------------------------------------------------------
(* Surroundings                                                            *)

(* The context's deadline passes, whether or not the call still runs       *)
ContextEnds(c) ==
    /\ ctx[c] = "live" /\ call[c] # {} /\ It(c).deadline
    /\ ctx' = [ctx EXCEPT ![c] = "done"]
    /\ UNCHANGED <<callVars, pc, tx, dbVars, purges>>

(* database/sql rolls back a transaction whose context is done             *)
AwaitDone(c) ==
    /\ ctx[c] = "done" /\ tx[c] = "open"
    /\ tx' = [tx EXCEPT ![c] = "ended"] /\ pend' = [pend EXCEPT ![c] = NoWrites]
    /\ UNCHANGED <<callVars, pc, ctx, table, ever, nextId, purges>>

(* Another session deletes the key's row                                   *)
Purge ==
    /\ purges < MaxPurges /\ Keys("main", table) # {}
    /\ table' = table \ Keys("main", table) /\ purges' = purges + 1
    /\ UNCHANGED <<callVars, pc, tx, ctx, ever, nextId, pend>>

RecipesInit ==
    /\ call = [c \in Callers |-> {}] /\ pc = [c \in Callers |-> "idle"]
    /\ todo = [c \in Callers |-> <<>>] /\ children = [c \in Callers |-> <<1, 2>>]
    /\ ids = [c \in Callers |-> <<>>] /\ tx = [c \in Callers |-> "none"]
    /\ ctx = [c \in Callers |-> "live"] /\ pend = [c \in Callers |-> NoWrites]
    /\ cause = [c \in Callers |-> ""] /\ ret = [c \in Callers |-> Nothing]
    /\ table \in SUBSET Old /\ ever = table /\ nextId = 1 /\ purges = 0

RecipesNext ==
    \/ \E c \in Callers :
          \/ \E k \in Calls : Start(c, k)
          \/ Lookup(c) \/ Begin(c) \/ Rebind(c) \/ StepFails(c) \/ Panic(c)
          \/ Rollback(c) \/ Commit(c) \/ Relookup(c)
          \/ InsertMain(c) \/ InsertHook(c)
          \/ WriteParent(c) \/ DeleteChildren(c) \/ InsertChild(c) \/ InsertGrandchildren(c)
          \/ NestedEnds(c) \/ InsertOnce(c) \/ OnceLookup(c)
          \/ ContextEnds(c) \/ AwaitDone(c)
    \/ Purge

(* The timer of a deadline fires, and database/sql watches the context     *)
RecipesFairness == \A c \in Callers : WF_recipeVars(ContextEnds(c)) /\ WF_recipeVars(AwaitDone(c))

RecipesSpec == RecipesInit /\ [][RecipesNext]_recipeVars /\ RecipesFairness

-----------------------------------------------------------------------------
(* Properties                                                              *)

Mine(c) == {r \in ever : r.by = c}
PhasesOf(k) == {s.phase : s \in Range(StepsOf(k, <<1, 2>>))}
Whole(c) ==
    /\ {r.t : r \in Mine(c)} = PhasesOf(It(c)) \ {"delete"}
    /\ Cardinality(Keys("hook", Mine(c))) = Cardinality({s \in Range(StepsOf(It(c), <<1, 2>>)) : s.phase = "hook"})
    /\ "child" \in PhasesOf(It(c)) => Cardinality(Keys("child", Mine(c))) = 2 /\ Cardinality(Keys("grand", Mine(c))) = 2

(* Of a recipe that opens its own transaction (TransactionContext under    *)
(* hooks, commands and ReplaceNestedCollectionTx) all rows become durable  *)
(* or none; a successful return means all, and every failure but a failed  *)
(* commit, a panic included, means none, then and later.                   *)
WholeOrNothing ==
    \A c \in Callers : (call[c] # {} /\ It(c).tx) =>
       /\ Mine(c) = {} \/ Whole(c)
       /\ ret[c].kind = "applied" => Whole(c)
       /\ ret[c].kind \in {"error", "conflict", "refused", "existing", "panicked"} => Mine(c) = {}

(* Whatever RunIdempotentCommand and InsertOnceReturning answer was a      *)
(* committed row of the key: the caller's own when it is told it applied,  *)
(* another's otherwise; and one record is never applied for twice.         *)
AnswersAreRows ==
    /\ \A c \in Callers :
          /\ ret[c].kind = "existing" => \E r \in ret[c].row : r \in ever /\ r.by # c
          /\ ret[c].kind = "applied" /\ It(c).kind \in {"command", "once"} => Keys("main", Mine(c)) # {}
    /\ Cardinality({c \in Callers : Keys("main", Mine(c)) # {}}) <= 1 + purges

(* Every grandchild of executeNested hangs under the child it was built    *)
(* for, however IDs were generated between the INSERTs.                    *)
GrandchildrenFitChildren ==
    \A g \in Keys("grand", ever) : g.by \in Callers =>
       \E r \in Keys("child", ever) : r.id = g.id /\ r.by = g.by /\ r.val = g.val

(* When every replacement of a collection writes its parent in the same    *)
(* transaction, the committed collection is one caller's, and it is what   *)
(* that caller's spec.Children held when the statements ran.               *)
CollectionIsOneCallers ==
    (\A c \in Callers : call[c] # {} /\ It(c).kind = "nested" => It(c).tx /\ It(c).parent) =>
       \A r, s \in Keys("child", table) :
          r.by = s.by /\ (r.by \in Callers => r.val \in Range(children[r.by]))

(* A call under a deadline gives its connection back, also when a callback *)
(* panicked and nobody is left to roll back (driver.go has no deferred     *)
(* Rollback: the context is what ends the transaction).                    *)
ConnectionsReturn ==
    \A c \in Callers : (tx[c] # "none" /\ call[c] # {} /\ It(c).deadline) ~> tx[c] = "ended"

(* Both: what a nested write leaves is one caller's tree.                  *)
NestedIsWhole == GrandchildrenFitChildren /\ CollectionIsOneCallers
=============================================================================
