---------------------------- MODULE WritesProofs ----------------------------
(***************************************************************************)
(* Proofs about Recipes and WriteMapping.  Whatever the callers, the calls *)
(* they make and the collection they find, a recipe in a transaction is    *)
(* done whole or not at all, its answers are rows of the database, and a   *)
(* nested write leaves one caller's tree.  Whatever the structs and maps,  *)
(* their tags, the options, the table and the dialect, a call writes the   *)
(* row it names and the columns it was given, and a batch does what its    *)
(* rows would do one by one.                                               *)
(***************************************************************************)
EXTENDS Recipes, WriteMapping, FiniteSetTheorems, SequenceTheorems, TLAPS

(***************************************************************************)
(* The state of one call                                                   *)
(***************************************************************************)

Main(c) == Row("main", 1, 0, c)
Hook(c, n) == Row("hook", n, 0, c)
Parent(c, k) == IF k.parent THEN {Row("parent", 0, 0, c)} ELSE {}
Child(c, i) == Row("child", children[c][i], ids[c][i], c)
Grand(c, i) == Row("grand", children[c][i], ids[c][i], c)

(* A caller that has not begun                                             *)
Unused(c) ==
    /\ call[c] = {} /\ children[c] = <<1, 2>> /\ ids[c] = <<>>
    /\ tx[c] = "none" /\ pend[c] = NoWrites /\ Mine(c) = {} /\ ret[c] = Nothing

(* A call that has run nothing: its plans are those of the plain database  *)
Untouched(c, k) ==
    /\ todo[c] = StepsOf(k, <<1, 2>>) /\ children[c] = <<1, 2>> /\ ids[c] = <<>>
    /\ pend[c] = NoWrites /\ Mine(c) = {} /\ ret[c] = Nothing

(* What is left to do says what was written, statement by statement        *)
MainProgress(c, rows) ==
    \/ todo[c] = <<Step("main", 1, "tx"), Step("hook", 1, "tx"), Step("hook", 2, "tx")>> /\ rows = {}
    \/ todo[c] = <<Step("hook", 1, "tx"), Step("hook", 2, "tx")>> /\ rows = {Main(c)}
    \/ todo[c] = <<Step("hook", 2, "tx")>> /\ rows = {Main(c), Hook(c, 1)}
    \/ todo[c] = <<>> /\ rows = {Main(c), Hook(c, 1), Hook(c, 2)}

CommandProgress(c, rows) ==
    \/ todo[c] = <<Step("main", 1, "tx"), Step("hook", 1, "tx")>> /\ rows = {}
    \/ todo[c] = <<Step("hook", 1, "tx")>> /\ rows = {Main(c)}
    \/ todo[c] = <<>> /\ rows = {Main(c), Hook(c, 1)}

NestedProgress(c, k, dest, rows) ==
    LET v == children[c] IN
    /\ v \in {<<1, 2>>, <<11, 12>>}
    /\ \/ /\ todo[c] = <<Step("parent", 0, dest), Step("delete", 0, dest), Step("child", 1, dest),
                         Step("child", 2, dest), Step("grand", 0, dest)>>
          /\ k.parent /\ v = <<1, 2>> /\ ids[c] = <<>> /\ rows = {}
       \/ /\ todo[c] = <<Step("delete", 0, dest), Step("child", 1, dest), Step("child", 2, dest),
                         Step("grand", 0, dest)>>
          /\ v = <<1, 2>> /\ ids[c] = <<>> /\ rows = Parent(c, k)
       \/ /\ todo[c] = <<Step("child", v[1], dest), Step("child", v[2], dest), Step("grand", 0, dest)>>
          /\ ids[c] = <<>> /\ rows = Parent(c, k)
       \/ /\ todo[c] = <<Step("child", v[2], dest), Step("grand", 0, dest)>>
          /\ ids[c] = <<ids[c][1]>> /\ rows = Parent(c, k) \cup {Child(c, 1)}
       \/ /\ todo[c] = <<Step("grand", 0, dest)>>
          /\ ids[c] = <<ids[c][1], ids[c][2]>> /\ rows = Parent(c, k) \cup {Child(c, 1), Child(c, 2)}
       \/ /\ todo[c] = <<>>
          /\ ids[c] = <<ids[c][1], ids[c][2]>>
          /\ rows = Parent(c, k) \cup {Child(c, 1), Child(c, 2)} \cup {Grand(c, 1), Grand(c, 2)}

Progress(c, k, rows) ==
    CASE k.kind = "hooks" -> MainProgress(c, rows)
      [] k.kind = "command" -> CommandProgress(c, rows)
      [] k.kind = "once" -> todo[c] = <<Step("once", 1, "db")>> /\ rows = {}
      [] OTHER -> NestedProgress(c, k, Dest(k), rows)

(* A transaction keeps its rows to itself, a plain database does not; the  *)
(* next statement of a transaction runs on the transaction                 *)
OnTx(c) == todo[c] # <<>> => Head1(c).dest = "tx" /\ Head1(c).phase # "once"
Running1(c, k) ==
    /\ ret[c] = Nothing
    /\ k.tx => /\ tx[c] \in {"open", "ended"} /\ Mine(c) = {} /\ OnTx(c)
               /\ tx[c] = "open" => Progress(c, k, pend[c].ins)
               /\ Keys("main", pend[c].del) = {}
    /\ ~k.tx => tx[c] = "none" /\ Progress(c, k, Mine(c))

Done(c, k) ==
    /\ k.tx => /\ Mine(c) = {} \/ (todo[c] = <<>> /\ Progress(c, k, Mine(c)))
               /\ ret[c].kind = "applied" => Mine(c) # {}
               /\ ret[c].kind \in {"error", "conflict", "refused", "existing", "panicked"} => Mine(c) = {}
    /\ k.kind = "once" /\ ret[c].kind = "applied" => Main(c) \in Mine(c)

Making(c, k) ==
    /\ pc[c] \in {"lookup", "begin"} => tx[c] = "none" /\ k.tx /\ Untouched(c, k)
    /\ pc[c] = "lookup" => k.kind = "command"
    /\ pc[c] = "rebind" => tx[c] \in {"open", "ended"} /\ k.tx /\ k.kind = "nested" /\ Untouched(c, k)
    /\ pc[c] = "run" => Running1(c, k)
    /\ pc[c] = "rollback" => /\ k.tx /\ tx[c] \in {"open", "ended"} /\ Mine(c) = {} /\ ret[c] = Nothing
                             /\ cause[c] \in {"error", "conflict"}
    /\ pc[c] = "relookup" => k.kind = "command" /\ Mine(c) = {} /\ ret[c] = Nothing
    /\ pc[c] = "oncelookup" => k.kind = "once" /\ Mine(c) = {} /\ ret[c] = Nothing
    /\ pc[c] = "done" => Done(c, k)

Fits(rows) ==
    \A g \in rows : g.t = "grand" => \E r \in rows : r.t = "child" /\ r.id = g.id /\ r.val = g.val
Held(c) == \A r \in Mine(c) : r.t = "child" => r.val \in Range(children[c])

Labels == {"idle", "lookup", "begin", "rebind", "run", "rollback", "relookup", "oncelookup", "done"}
CallerOK(c) ==
    /\ pc[c] \in Labels
    /\ tx[c] \in {"none", "open", "ended"}
    /\ tx[c] # "open" => pend[c] = NoWrites
    /\ Fits(Mine(c)) /\ Held(c)
    /\ pc[c] = "idle" => Unused(c)
    /\ pc[c] # "idle" => \E k \in Calls : call[c] = {k} /\ Making(c, k)

(***************************************************************************)
(* What the callers share                                                  *)
(***************************************************************************)

Maps ==
    /\ DOMAIN call = Callers /\ DOMAIN pc = Callers /\ DOMAIN todo = Callers /\ DOMAIN children = Callers
    /\ DOMAIN ids = Callers /\ DOMAIN tx = Callers /\ DOMAIN ctx = Callers /\ DOMAIN cause = Callers
    /\ DOMAIN ret = Callers /\ DOMAIN pend = Callers
TypesOK == table \subseteq ever /\ purges \in Nat

(* The key's row is written by one transaction at a time, and only while   *)
(* there is none                                                           *)
KeyIsLocked ==
    \A c \in Callers : Keys("main", pend[c].ins) # {} =>
       /\ Keys("main", table) = {}
       /\ \A d \in Callers \ {c} : Keys("main", pend[d].ins) = {}

Winners == {c \in Callers : Keys("main", Mine(c)) # {}}
WinnersAreCounted ==
    /\ IsFiniteSet(Winners)
    /\ Cardinality(Winners) <= purges + (IF Keys("main", table) = {} THEN 0 ELSE 1)

ExistingIsAnothers ==
    \A c \in Callers : ret[c].kind = "existing" => \E r \in ret[c].row : r \in ever /\ r.by # c

ParentIsLocked ==
    \A c, d \in Callers : c # d => Keys("parent", pend[c].ins) = {} \/ Keys("parent", pend[d].ins) = {}

ParentsFirst == \A c \in Callers : call[c] # {} /\ It(c).kind = "nested" => It(c).tx /\ It(c).parent
OneOwner == \A r, s \in Keys("child", table) : r.by = s.by
Cleared ==
    \A c \in Callers :
       (pc[c] = "run" /\ tx[c] = "open" /\ It(c).kind = "nested" /\ Len(todo[c]) <= 3) =>
           Keys("child", table) \subseteq pend[c].del
CollectionOK == ParentsFirst => OneOwner /\ Cleared

RecipesInv ==
    /\ Maps /\ TypesOK
    /\ \A c \in Callers : CallerOK(c)
    /\ KeyIsLocked /\ WinnersAreCounted /\ ExistingIsAnothers
    /\ ParentIsLocked /\ CollectionOK

(***************************************************************************)
(* Plans as sequences                                                      *)
(***************************************************************************)

(* The loop of executeNested takes the steps in order                      *)
LEMMA Tails ==
    ASSUME NEW a, NEW b, NEW x, NEW y, NEW z
    PROVE  /\ Tail(<<a>>) = <<>> /\ Tail(<<a, b>>) = <<b>> /\ Tail(<<a, b, x>>) = <<b, x>>
           /\ Tail(<<a, b, x, y>>) = <<b, x, y>> /\ Tail(<<a, b, x, y, z>>) = <<b, x, y, z>>
BY DEF Tail

LEMMA Joins ==
    ASSUME NEW a, NEW b, NEW x, NEW y, NEW z
    PROVE  /\ <<a>> \o <<b, x>> \o <<y>> = <<a, b, x, y>>
           /\ <<z>> \o <<a, b, x, y>> = <<z, a, b, x, y>>
<1> DEFINE S == {a, b, x, y, z}
<1>1. /\ <<>> \in Seq(S) /\ <<a>> \in Seq(S) /\ <<y>> \in Seq(S) /\ <<z>> \in Seq(S)
      /\ <<b, x>> \in Seq(S) /\ <<a, b, x>> \in Seq(S) /\ <<a, b, x, y>> \in Seq(S)
      /\ <<z, a, b, x, y>> \in Seq(S)
  OBVIOUS
<1> HIDE DEF S
<1>2. <<a>> \o <<b, x>> = <<a, b, x>>
  <2> DEFINE s == <<a>> \o <<b, x>>
  <2>1. /\ s \in Seq(S) /\ Len(s) = Len(<<a>>) + Len(<<b, x>>)
        /\ \A i \in 1..Len(<<a>>) + Len(<<b, x>>) : s[i] = IF i <= Len(<<a>>) THEN <<a>>[i] ELSE <<b, x>>[i - Len(<<a>>)]
    BY <1>1, ConcatProperties, ZenonT(60)
  <2>2. Len(s) = 3 /\ s[1] = a /\ s[2] = b /\ s[3] = x
    BY <2>1
  <2> HIDE DEF s
  <2>3. \A i \in 1..Len(s) : s[i] = <<a, b, x>>[i]
    BY <2>2
  <2>4. Len(s) = Len(<<a, b, x>>)
    BY <2>2
  <2>5. QED
    BY <1>1, <2>1, <2>3, <2>4, SeqEqual DEF s
<1>3. <<a, b, x>> \o <<y>> = <<a, b, x, y>>
  <2> DEFINE s == <<a, b, x>> \o <<y>>
  <2>1. /\ s \in Seq(S) /\ Len(s) = Len(<<a, b, x>>) + Len(<<y>>)
        /\ \A i \in 1..Len(<<a, b, x>>) + Len(<<y>>) : s[i] = IF i <= Len(<<a, b, x>>) THEN <<a, b, x>>[i] ELSE <<y>>[i - Len(<<a, b, x>>)]
    BY <1>1, ConcatProperties, ZenonT(60)
  <2>2. Len(s) = 4 /\ s[1] = a /\ s[2] = b /\ s[3] = x /\ s[4] = y
    BY <2>1
  <2> HIDE DEF s
  <2>3. \A i \in 1..Len(s) : s[i] = <<a, b, x, y>>[i]
    BY <2>2
  <2>4. Len(s) = Len(<<a, b, x, y>>)
    BY <2>2
  <2>5. QED
    BY <1>1, <2>1, <2>3, <2>4, SeqEqual DEF s
<1>4. <<z>> \o <<a, b, x, y>> = <<z, a, b, x, y>>
  <2> DEFINE s == <<z>> \o <<a, b, x, y>>
  <2>1. /\ s \in Seq(S) /\ Len(s) = Len(<<z>>) + Len(<<a, b, x, y>>)
        /\ \A i \in 1..Len(<<z>>) + Len(<<a, b, x, y>>) : s[i] = IF i <= Len(<<z>>) THEN <<z>>[i] ELSE <<a, b, x, y>>[i - Len(<<z>>)]
    BY <1>1, ConcatProperties, ZenonT(60)
  <2>2. Len(s) = 5 /\ s[1] = z /\ s[2] = a /\ s[3] = b /\ s[4] = x /\ s[5] = y
    BY <2>1
  <2> HIDE DEF s
  <2>3. \A i \in 1..Len(s) : s[i] = <<z, a, b, x, y>>[i]
    BY <2>2
  <2>4. Len(s) = Len(<<z, a, b, x, y>>)
    BY <2>2
  <2>5. QED
    BY <1>1, <2>1, <2>3, <2>4, SeqEqual DEF s
<1>5. QED
  BY <1>2, <1>3, <1>4

LEMMA JoinParent == \A a, b, x, y, z : <<z>> \o <<a, b, x, y>> = <<z, a, b, x, y>>
BY Joins, ZenonT(120)

LEMMA JoinNothing == \A a, b, x, y : <<>> \o <<a, b, x, y>> = <<a, b, x, y>>
<1> SUFFICES ASSUME NEW a, NEW b, NEW x, NEW y PROVE <<>> \o <<a, b, x, y>> = <<a, b, x, y>>
  OBVIOUS
<1>1. <<a, b, x, y>> \in Seq({a, b, x, y})
  OBVIOUS
<1>2. QED
  BY <1>1, ConcatEmptySeq

LEMMA NestedPlan ==
    ASSUME NEW k
    PROVE  /\ k.parent => NestedSteps(k, <<1, 2>>) =
                 <<Step("parent", 0, "db"), Step("delete", 0, "db"), Step("child", 1, "db"),
                   Step("child", 2, "db"), Step("grand", 0, "db")>>
           /\ ~k.parent => NestedSteps(k, <<1, 2>>) =
                 <<Step("delete", 0, "db"), Step("child", 1, "db"), Step("child", 2, "db"),
                   Step("grand", 0, "db")>>
<1>1. ChildSteps(<<1, 2>>) = <<Step("child", 1, "db"), Step("child", 2, "db")>>
  BY DEF ChildSteps
<1> DEFINE rest == <<Step("delete", 0, "db")>> \o ChildSteps(<<1, 2>>) \o <<Step("grand", 0, "db")>>
<1>2. rest = <<Step("delete", 0, "db"), Step("child", 1, "db"), Step("child", 2, "db"), Step("grand", 0, "db")>>
  BY <1>1, Joins, ZenonT(60)
<1>3. ASSUME k.parent PROVE NestedSteps(k, <<1, 2>>) = <<Step("parent", 0, "db")>> \o rest
  BY <1>3, Zenon DEF NestedSteps, ParentFirst
<1>4. ASSUME ~k.parent PROVE NestedSteps(k, <<1, 2>>) = <<>> \o rest
  BY <1>4, Zenon DEF NestedSteps, ParentFirst
<1> HIDE DEF rest
<1>5. <<Step("parent", 0, "db")>> \o rest =
            <<Step("parent", 0, "db"), Step("delete", 0, "db"), Step("child", 1, "db"),
              Step("child", 2, "db"), Step("grand", 0, "db")>>
  BY <1>2, JoinParent
<1>6. <<>> \o rest = rest
  BY <1>2, JoinNothing
<1>7. QED
  BY <1>2, <1>3, <1>4, <1>5, <1>6, Zenon

(* What rebind leaves of the plan                                          *)
Aimed(s) == [s EXCEPT !.dest = "tx"]
LEMMA ReboundFour ==
    \A a, b, x, y : Rebound(<<a, b, x, y>>) = <<Aimed(a), Aimed(b), Aimed(x), Aimed(y)>>
BY DEF Rebound, Aimed
LEMMA ReboundFive ==
    \A a, b, x, y, z : Rebound(<<a, b, x, y, z>>) = <<Aimed(a), Aimed(b), Aimed(x), Aimed(y), Aimed(z)>>
BY DEF Rebound, Aimed

LEMMA ReboundStep ==
    ASSUME NEW p, NEW v
    PROVE  Aimed(Step(p, v, "db")) = Step(p, v, "tx")
BY DEF Step, Aimed

LEMMA ReboundPlan ==
    ASSUME NEW k
    PROVE  /\ k.parent => Rebound(NestedSteps(k, <<1, 2>>)) =
                 <<Step("parent", 0, "tx"), Step("delete", 0, "tx"), Step("child", 1, "tx"),
                   Step("child", 2, "tx"), Step("grand", 0, "tx")>>
           /\ ~k.parent => Rebound(NestedSteps(k, <<1, 2>>)) =
                 <<Step("delete", 0, "tx"), Step("child", 1, "tx"), Step("child", 2, "tx"),
                   Step("grand", 0, "tx")>>
BY NestedPlan, ReboundFour, ReboundFive, ReboundStep

(* A scope's changed children, and their plans                             *)
LEMMA ScopedChildren == [j \in DOMAIN <<1, 2>> |-> <<1, 2>>[j] + 10] = <<11, 12>>
OBVIOUS

LEMMA ReplannedSteps ==
    ASSUME NEW k, NEW dest, dest = Dest(k), NEW v
    PROVE  Replanned(k, <<Step("child", 1, dest), Step("child", 2, dest), Step("grand", 0, dest)>>, v) =
             IF k.scoped
             THEN <<Step("child", v[1], dest), Step("child", v[2], dest), Step("grand", 0, dest)>>
             ELSE <<Step("child", 1, dest), Step("child", 2, dest), Step("grand", 0, dest)>>
BY DEF Replanned, Step

(***************************************************************************)
(* Small facts                                                             *)
(***************************************************************************)

LEMMA RowFields ==
    \A t, v, i, c : /\ Row(t, v, i, c).t = t /\ Row(t, v, i, c).val = v
                    /\ Row(t, v, i, c).id = i /\ Row(t, v, i, c).by = c
BY DEF Row

LEMMA StepFields ==
    \A p, v, d : Step(p, v, d).phase = p /\ Step(p, v, d).val = v /\ Step(p, v, d).dest = d
BY DEF Step

(* One more of a bounded number                                            *)
LEMMA OneMore ==
    \A S, x, n : IsFiniteSet(S) /\ n \in Nat /\ Cardinality(S) <= n =>
        IsFiniteSet(S \cup {x}) /\ Cardinality(S \cup {x}) <= n + 1
<1> SUFFICES ASSUME NEW S, NEW x, NEW n, IsFiniteSet(S), n \in Nat, Cardinality(S) <= n
             PROVE  IsFiniteSet(S \cup {x}) /\ Cardinality(S \cup {x}) <= n + 1
  OBVIOUS
<1>1. Cardinality(S) \in Nat
  BY FS_CardinalityType
<1>2. /\ IsFiniteSet(S \cup {x})
      /\ Cardinality(S \cup {x}) = IF x \in S THEN Cardinality(S) ELSE Cardinality(S) + 1
  BY FS_AddElement, Zenon
<1>3. QED
  BY <1>1, <1>2

LEMMA NoWritesFields == NoWrites.ins = {} /\ NoWrites.del = {}
BY DEF NoWrites

(* A caller makes one call                                                 *)
LEMMA OneCall ==
    ASSUME NEW c, NEW k, call[c] = {k}
    PROVE  It(c) = k
BY DEF It

LEMMA CallKinds ==
    ASSUME NEW k \in Calls
    PROVE  /\ k.kind \in {"hooks", "command", "once", "nested"}
           /\ k.kind \in {"hooks", "command"} => k.tx
           /\ k.kind = "once" => ~k.tx
BY CallsAssumption

(***************************************************************************)
(* What a step leaves alone                                                *)
(***************************************************************************)

(* Nothing of caller d changes                                             *)
Still(d) ==
    /\ call'[d] = call[d] /\ pc'[d] = pc[d] /\ todo'[d] = todo[d] /\ children'[d] = children[d]
    /\ ids'[d] = ids[d] /\ tx'[d] = tx[d] /\ pend'[d] = pend[d] /\ cause'[d] = cause[d]
    /\ ret'[d] = ret[d] /\ Mine(d)' = Mine(d)

LEMMA StillProgress ==
    ASSUME NEW d, Still(d), NEW k, NEW rows
    PROVE  Progress(d, k, rows) <=> Progress(d, k, rows)'
BY DEF Still, Progress, MainProgress, CommandProgress, NestedProgress, Child, Grand, Parent, Main, Hook

LEMMA StillCaller ==
    ASSUME NEW d, Still(d), CallerOK(d)
    PROVE  CallerOK(d)'
<1>1. ASSUME NEW k, Making(d, k) PROVE Making(d, k)'
  <2>1. Running1(d, k) => Running1(d, k)'
    BY StillProgress, Zenon DEF Running1, Still, OnTx, Head1
  <2>2. Done(d, k) => Done(d, k)'
    BY StillProgress DEF Done, Still, Main
  <2>3. Untouched(d, k) => Untouched(d, k)'
    BY DEF Untouched, Still
  <2>4. QED
    BY <1>1, <2>1, <2>2, <2>3 DEF Making, Still
<1>2. Unused(d) => Unused(d)'
  BY DEF Unused, Still
<1>3. Held(d)'
  BY DEF Held, Still, CallerOK
<1>4. QED
  BY <1>1, <1>2, <1>3 DEF CallerOK, Still

(* Rows of one caller are nobody else's                                    *)
LEMMA MineSame ==
    ASSUME ever' = ever, NEW d
    PROVE  Mine(d)' = Mine(d)
BY DEF Mine

LEMMA MineGrows ==
    ASSUME NEW c, NEW new, \A r \in new : r.by = c, ever' = ever \cup new
    PROVE  /\ Mine(c)' = Mine(c) \cup new
           /\ \A d : d # c => Mine(d)' = Mine(d)
BY DEF Mine

(* Only caller c moves                                                     *)
OnlyMoves(c) == \A d \in Callers \ {c} : Still(d)

LEMMA OthersOK ==
    ASSUME RecipesInv, NEW c \in Callers, OnlyMoves(c), CallerOK(c)'
    PROVE  (\A d \in Callers : CallerOK(d))'
<1>1. ASSUME NEW d \in Callers, d # c PROVE CallerOK(d)'
  BY <1>1, StillCaller DEF OnlyMoves, RecipesInv
<1>2. QED
  BY <1>1

(***************************************************************************)
(* What the callers share, as long as nothing becomes durable              *)
(***************************************************************************)

Shared == KeyIsLocked /\ WinnersAreCounted /\ ExistingIsAnothers /\ ParentIsLocked /\ CollectionOK

(* A transaction writes a locked row only if no other one holds it         *)
KeepsLocks(c) ==
    /\ Keys("main", pend'[c].ins) # {} =>
          Keys("main", pend[c].ins) # {} \/ (Keys("main", table) = {} /\ ~LockedByOther(c, "main"))
    /\ Keys("parent", pend'[c].ins) # {} =>
          Keys("parent", pend[c].ins) # {} \/ ~LockedByOther(c, "parent")
AnswersTruly(c) == ret'[c].kind = "existing" => \E r \in ret'[c].row : r \in ever /\ r.by # c
StaysCleared(c) ==
    (pc'[c] = "run" /\ tx'[c] = "open" /\ It(c)'.kind = "nested" /\ Len(todo'[c]) <= 3) =>
        Keys("child", table) \subseteq pend'[c].del
KeepsCall(c) == call[c] = {} \/ call'[c] = call[c]

LEMMA Unlocked ==
    ASSUME NEW c \in Callers, NEW d \in Callers, d # c, NEW t, ~LockedByOther(c, t)
    PROVE  Keys(t, pend[d].ins) = {}
BY DEF LockedByOther, Keys

LEMMA StillFirst ==
    ASSUME NEW c \in Callers, OnlyMoves(c), KeepsCall(c), ParentsFirst'
    PROVE  ParentsFirst
BY DEF ParentsFirst, OnlyMoves, Still, KeepsCall, It

LEMMA SharedSame ==
    ASSUME RecipesInv, NEW c \in Callers, OnlyMoves(c), UNCHANGED <<table, ever, purges>>,
           KeepsLocks(c), AnswersTruly(c), KeepsCall(c), ParentsFirst => StaysCleared(c)
    PROVE  Shared'
<1>1. KeyIsLocked'
  BY Unlocked, ZenonT(60) DEF KeyIsLocked, OnlyMoves, Still, KeepsLocks, RecipesInv
<1>2. WinnersAreCounted'
  BY DEF WinnersAreCounted, RecipesInv, Winners, Mine
<1>3. ExistingIsAnothers'
  BY DEF ExistingIsAnothers, RecipesInv, OnlyMoves, Still, AnswersTruly
<1>4. ParentIsLocked'
  BY Unlocked, ZenonT(60) DEF ParentIsLocked, OnlyMoves, Still, KeepsLocks, RecipesInv
<1>5. CollectionOK'
  <2> SUFFICES ASSUME ParentsFirst' PROVE OneOwner' /\ Cleared'
    BY DEF CollectionOK
  <2>1. ParentsFirst
    BY StillFirst
  <2>2. OneOwner'
    BY <2>1 DEF CollectionOK, RecipesInv, OneOwner
  <2>3. ASSUME NEW d \in Callers, d # c,
               (pc[d] = "run" /\ tx[d] = "open" /\ It(d).kind = "nested" /\ Len(todo[d]) <= 3)'
        PROVE  Keys("child", table)' \subseteq pend'[d].del
    <3>1. Still(d)
      BY <2>3 DEF OnlyMoves
    <3>2. pc[d] = "run" /\ tx[d] = "open" /\ It(d).kind = "nested" /\ Len(todo[d]) <= 3
      BY <2>3, <3>1 DEF Still, It
    <3>3. QED
      BY <2>1, <3>1, <3>2 DEF Still, RecipesInv, CollectionOK, Cleared
  <2>4. QED
    BY <2>1, <2>2, <2>3 DEF Cleared, StaysCleared
<1>6. QED
  BY <1>1, <1>2, <1>3, <1>4, <1>5 DEF Shared

(***************************************************************************)
(* Steps that touch no row                                                 *)
(***************************************************************************)

LEMMA ControlStep ==
    ASSUME RecipesInv, NEW c \in Callers, UNCHANGED <<dbVars, purges>>, OnlyMoves(c), CallerOK(c)',
           AnswersTruly(c), KeepsCall(c), StaysCleared(c)
    PROVE  (\A d \in Callers : CallerOK(d))' /\ Shared'
<1>1. KeepsLocks(c)
  BY DEF KeepsLocks, dbVars
<1>2. UNCHANGED <<table, ever, purges>>
  BY DEF dbVars
<1>3. QED
  BY <1>1, <1>2, OthersOK, SharedSame

(* What is known of a caller that has begun                                *)
LEMMA Begun ==
    ASSUME RecipesInv, NEW c \in Callers, pc[c] # "idle"
    PROVE  \E k \in Calls : call[c] = {k} /\ It(c) = k /\ Making(c, k)
BY OneCall DEF RecipesInv, CallerOK

(* The answers that are not rows of the database                           *)
LEMMA OtherAnswers ==
    ASSUME NEW c, ret'[c] = ret[c] \/ ret'[c].kind # "existing", RecipesInv, c \in Callers
    PROVE  AnswersTruly(c)
BY DEF AnswersTruly, RecipesInv, ExistingIsAnothers

(* The statements of a transaction's plan are the transaction's            *)
LEMMA ProgressOnTx ==
    ASSUME NEW c, NEW k \in Calls, k.tx, NEW rows, Progress(c, k, rows)'
    PROVE  OnTx(c)'
<1>1. CASE k.kind = "hooks"
  BY <1>1, StepFields DEF OnTx, Head1, Progress, MainProgress
<1>2. CASE k.kind = "command"
  BY <1>2, StepFields DEF OnTx, Head1, Progress, CommandProgress
<1>3. CASE k.kind = "nested"
  <2>1. NestedProgress(c, k, "tx", rows)'
    BY <1>3 DEF Progress, Dest
  <2>2. QED
    BY <2>1, StepFields DEF OnTx, Head1, NestedProgress
<1>4. QED
  BY <1>1, <1>2, <1>3, CallKinds

(* A call that begins on the database, as it was planned                   *)
LEMMA PlannedOnDatabase ==
    ASSUME NEW c \in Callers, NEW k \in Calls, ~k.tx, todo'[c] = StepsOf(k, <<1, 2>>),
           children'[c] = <<1, 2>>, ids'[c] = <<>>
    PROVE  Progress(c, k, {})'
<1>1. CASE k.kind = "once"
  BY <1>1 DEF Progress, StepsOf
<1>2. CASE k.kind = "nested"
  <2>1. todo'[c] = NestedSteps(k, <<1, 2>>) /\ Dest(k) = "db"
    BY <1>2 DEF StepsOf, Dest
  <2>2. NestedProgress(c, k, "db", {})'
    BY <2>1, NestedPlan DEF NestedProgress, Parent
  <2>3. QED
    BY <1>2, <2>1, <2>2 DEF Progress
<1>3. QED
  BY <1>1, <1>2, CallKinds

LEMMA StartStep ==
    ASSUME RecipesInv, NEW c \in Callers, NEW k \in Calls, Start(c, k)
    PROVE  (\A d \in Callers : CallerOK(d))' /\ Shared'
<1>1. Unused(c) /\ pc[c] = "idle" /\ call'[c] = {k} /\ call[c] = {}
  BY DEF Start, RecipesInv, CallerOK, Unused, Maps
<1>2. OnlyMoves(c)
  BY MineSame DEF Start, OnlyMoves, Still, Return, Goto, RecipesInv, Maps, dbVars
<1>3. Mine(c)' = {} /\ children'[c] = <<1, 2>> /\ ids'[c] = <<>> /\ tx'[c] = "none" /\ pend'[c] = NoWrites
  BY <1>1, MineSame DEF Start, Unused, dbVars
<1>4. CASE Refused(k)
  <2>1. pc'[c] = "done" /\ ret'[c].kind = "refused"
    BY <1>4 DEF Start, Return, Goto, RecipesInv, Maps
  <2>2. Done(c, k)'
    BY <1>3, <2>1 DEF Done
  <2>3. CallerOK(c)'
    BY <1>1, <1>3, <2>1, <2>2 DEF CallerOK, Making, Labels, Fits, Held
  <2>4. AnswersTruly(c) /\ KeepsCall(c) /\ StaysCleared(c)
    BY <1>1, <2>1 DEF AnswersTruly, KeepsCall, StaysCleared
  <2>5. QED
    BY <1>2, <2>3, <2>4, ControlStep DEF Start
<1>5. CASE ~Refused(k)
  <2>1. pc'[c] = First(k) /\ todo'[c] = StepsOf(k, <<1, 2>>) /\ ret'[c] = Nothing
    BY <1>1, <1>5 DEF Start, Goto, RecipesInv, Maps, Unused
  <2>2. Untouched(c, k)'
    BY <1>3, <2>1 DEF Untouched
  <2>3. CASE k.tx
    <3>1. pc'[c] \in {"lookup", "begin"} /\ (pc'[c] = "lookup" => k.kind = "command")
      BY <2>1, <2>3 DEF First
    <3>2. CallerOK(c)'
      BY <1>1, <1>3, <2>2, <2>3, <3>1 DEF CallerOK, Making, Labels, Fits, Held
    <3>3. AnswersTruly(c) /\ KeepsCall(c) /\ StaysCleared(c)
      BY <1>1, <2>1, <3>1 DEF AnswersTruly, KeepsCall, StaysCleared, Nothing
    <3>4. QED
      BY <1>2, <3>2, <3>3, ControlStep DEF Start
  <2>4. CASE ~k.tx
    <3>1. pc'[c] = "run"
      BY <2>1, <2>4, CallKinds DEF First
    <3>2. Progress(c, k, Mine(c))'
      BY <1>3, <2>1, <2>4, PlannedOnDatabase
    <3>3. Running1(c, k)'
      BY <1>3, <2>1, <2>4, <3>2 DEF Running1
    <3>4. CallerOK(c)'
      BY <1>1, <1>3, <3>1, <3>3 DEF CallerOK, Making, Labels, Fits, Held
    <3>5. AnswersTruly(c) /\ KeepsCall(c) /\ StaysCleared(c)
      BY <1>1, <1>3, <2>1 DEF AnswersTruly, KeepsCall, StaysCleared, Nothing
    <3>6. QED
      BY <1>2, <3>4, <3>5, ControlStep DEF Start
  <2>5. QED
    BY <2>3, <2>4
<1>6. QED
  BY <1>4, <1>5

(* The row a lookup finds is not one of a caller that has none             *)
LEMMA FoundIsAnothers ==
    ASSUME RecipesInv, NEW c \in Callers, Mine(c) = {}, Keys("main", table) # {}
    PROVE  \E r \in Found(c) : r \in ever /\ r.by # c
BY DEF Found, Keys, Mine, RecipesInv, TypesOK

(* A call that ends without a row                                          *)
LEMMA EndsEmpty ==
    ASSUME NEW c \in Callers, NEW k \in Calls, call'[c] = {k}, pc'[c] = "done",
           tx'[c] \in {"none", "open", "ended"}, tx'[c] # "open" => pend'[c] = NoWrites,
           Mine(c)' = {}, ret'[c].kind # "applied"
    PROVE  CallerOK(c)'
<1>1. Done(c, k)'
  BY DEF Done
<1>2. QED
  BY <1>1 DEF CallerOK, Making, Labels, Fits, Held

LEMMA LookupStep ==
    ASSUME RecipesInv, NEW c \in Callers, Lookup(c)
    PROVE  (\A d \in Callers : CallerOK(d))' /\ Shared'
<1>1. PICK k \in Calls : call[c] = {k} /\ It(c) = k /\ Making(c, k)
  BY Begun DEF Lookup
<1>2. tx[c] = "none" /\ k.tx /\ Untouched(c, k) /\ k.kind = "command"
  BY <1>1 DEF Lookup, Making
<1>3. OnlyMoves(c)
  BY MineSame DEF Lookup, OnlyMoves, Still, Return, Goto, RecipesInv, Maps, dbVars
<1>4. Mine(c)' = {} /\ pend'[c] = NoWrites /\ tx'[c] = "none" /\ call'[c] = {k}
  BY <1>1, <1>2, MineSame DEF Lookup, Untouched, dbVars
<1>5. KeepsCall(c)
  BY DEF KeepsCall, Lookup
<1>6. StaysCleared(c)
  BY <1>4 DEF StaysCleared
<1>7. CASE Keys("main", table) # {} /\ Return(c, "existing", Found(c))
  <2>1. pc'[c] = "done" /\ ret'[c].kind = "existing" /\ ret'[c].row = Found(c)
    BY <1>7 DEF Return, Goto, RecipesInv, Maps
  <2>2. CallerOK(c)'
    BY <1>4, <2>1, EndsEmpty
  <2>3. AnswersTruly(c)
    BY <1>2, <1>7, <2>1, FoundIsAnothers DEF AnswersTruly, Untouched
  <2>4. QED
    BY <1>3, <1>5, <1>6, <2>2, <2>3, ControlStep DEF Lookup
<1>8. CASE Goto(c, "begin") /\ UNCHANGED ret
  <2>1. pc'[c] = "begin"
    BY <1>8 DEF Goto, RecipesInv, Maps
  <2>2. Untouched(c, k)'
    BY <1>2, <1>4, <1>8 DEF Untouched, Lookup
  <2>3. CallerOK(c)'
    BY <1>2, <1>4, <2>1, <2>2 DEF CallerOK, Making, Labels, Fits, Held
  <2>4. AnswersTruly(c)
    BY <1>8, OtherAnswers
  <2>5. QED
    BY <1>3, <1>5, <1>6, <2>3, <2>4, ControlStep DEF Lookup
<1>9. CASE Return(c, "error", {})
  <2>1. pc'[c] = "done" /\ ret'[c].kind = "error"
    BY <1>9 DEF Return, Goto, RecipesInv, Maps
  <2>2. CallerOK(c)' /\ AnswersTruly(c)
    BY <1>4, <2>1, EndsEmpty, OtherAnswers
  <2>3. QED
    BY <1>3, <1>5, <1>6, <2>2, ControlStep DEF Lookup
<1>10. QED
  BY <1>7, <1>8, <1>9 DEF Lookup

LEMMA BeginStep ==
    ASSUME RecipesInv, NEW c \in Callers, Begin(c)
    PROVE  (\A d \in Callers : CallerOK(d))' /\ Shared'
<1>1. PICK k \in Calls : call[c] = {k} /\ It(c) = k /\ Making(c, k)
  BY Begun DEF Begin
<1>2. tx[c] = "none" /\ k.tx /\ Untouched(c, k)
  BY <1>1 DEF Begin, Making
<1>3. OnlyMoves(c)
  BY MineSame DEF Begin, BeginTx, OnlyMoves, Still, Return, Goto, RecipesInv, Maps, dbVars
<1>4. Mine(c)' = {} /\ pend'[c] = NoWrites /\ call'[c] = {k}
  BY <1>1, <1>2, MineSame DEF Begin, Untouched, dbVars
<1>5. KeepsCall(c)
  BY DEF KeepsCall, Begin
<1>6. CASE tx' = BeginTx(c) /\ Goto(c, IF It(c).kind = "nested" THEN "rebind" ELSE "run") /\ UNCHANGED ret
  <2>1. tx'[c] = "open" /\ pc'[c] = (IF k.kind = "nested" THEN "rebind" ELSE "run")
    BY <1>1, <1>6 DEF BeginTx, Goto, RecipesInv, Maps
  <2>2. Untouched(c, k)'
    BY <1>2, <1>4, <1>6 DEF Untouched, Begin
  <2>3. k.kind # "nested" => Running1(c, k)'
    <3> SUFFICES ASSUME k.kind # "nested" PROVE Running1(c, k)'
      OBVIOUS
    <3>1. pend'[c].ins = {} /\ Keys("main", pend'[c].del) = {}
      BY <1>4, NoWritesFields DEF Keys
    <3>2. k.kind = "hooks" \/ k.kind = "command"
      BY <1>2, CallKinds
    <3>3. Progress(c, k, {})'
      BY <2>2, <3>2 DEF Progress, Untouched, StepsOf, MainProgress, CommandProgress
    <3>4. QED
      BY <1>2, <1>4, <2>1, <2>2, <3>1, <3>3, ProgressOnTx DEF Running1, Untouched
  <2>4. CallerOK(c)'
    BY <1>2, <1>4, <2>1, <2>2, <2>3 DEF CallerOK, Making, Labels, Fits, Held
  <2>5. AnswersTruly(c)
    BY <1>6, OtherAnswers
  <2>6. StaysCleared(c)
    BY <1>4, <2>1, OneCall DEF StaysCleared, It
  <2>7. QED
    BY <1>3, <1>5, <2>4, <2>5, <2>6, ControlStep DEF Begin
<1>7. CASE Return(c, "error", {}) /\ UNCHANGED tx
  <2>1. pc'[c] = "done" /\ ret'[c].kind = "error"
    BY <1>7 DEF Return, Goto, RecipesInv, Maps
  <2>2. CallerOK(c)' /\ AnswersTruly(c) /\ StaysCleared(c)
    BY <1>2, <1>4, <1>7, <2>1, EndsEmpty, OtherAnswers DEF StaysCleared
  <2>3. QED
    BY <1>3, <1>5, <2>2, ControlStep DEF Begin
<1>8. QED
  BY <1>6, <1>7 DEF Begin

LEMMA RebindStep ==
    ASSUME RecipesInv, NEW c \in Callers, Rebind(c)
    PROVE  (\A d \in Callers : CallerOK(d))' /\ Shared'
<1>1. PICK k \in Calls : call[c] = {k} /\ It(c) = k /\ Making(c, k)
  BY Begun DEF Rebind
<1>2. tx[c] \in {"open", "ended"} /\ k.tx /\ k.kind = "nested" /\ Untouched(c, k)
  BY <1>1 DEF Rebind, Making
<1>3. OnlyMoves(c)
  BY MineSame DEF Rebind, OnlyMoves, Still, Goto, RecipesInv, Maps, dbVars
<1>4. /\ Mine(c)' = {} /\ pend'[c] = NoWrites /\ call'[c] = {k} /\ ret'[c] = Nothing
      /\ children'[c] = <<1, 2>> /\ ids'[c] = <<>> /\ tx'[c] = tx[c]
  BY <1>1, <1>2, MineSame DEF Rebind, Untouched, dbVars
<1>5. pc'[c] = "run" /\ todo'[c] = Rebound(NestedSteps(k, <<1, 2>>))
  BY <1>2 DEF Rebind, Goto, RecipesInv, Maps, Untouched, StepsOf
<1>6. NestedProgress(c, k, "tx", {})'
  BY <1>4, <1>5, ReboundPlan DEF NestedProgress, Parent
<1>7. pend'[c].ins = {} /\ Keys("main", pend'[c].del) = {}
  BY <1>4, NoWritesFields DEF Keys
<1>8. Progress(c, k, pend[c].ins)'
  BY <1>2, <1>6, <1>7 DEF Progress, Dest
<1>9. Running1(c, k)'
  BY <1>2, <1>4, <1>7, <1>8, ProgressOnTx DEF Running1, Keys
<1>10. CallerOK(c)'
  BY <1>2, <1>4, <1>5, <1>9 DEF CallerOK, Making, Labels, Fits, Held
<1>11. AnswersTruly(c) /\ KeepsCall(c)
  BY OtherAnswers DEF Rebind, KeepsCall
<1>12. ~(Len(todo'[c]) <= 3)
  <2>1. CASE k.parent
    <3>1. todo'[c] = <<Step("parent", 0, "tx"), Step("delete", 0, "tx"), Step("child", 1, "tx"),
                       Step("child", 2, "tx"), Step("grand", 0, "tx")>>
      BY <1>5, <2>1, ReboundPlan
    <3>2. Len(todo'[c]) = 5
      BY <3>1
    <3>3. QED
      BY <3>2
  <2>2. CASE ~k.parent
    <3>1. todo'[c] = <<Step("delete", 0, "tx"), Step("child", 1, "tx"), Step("child", 2, "tx"),
                       Step("grand", 0, "tx")>>
      BY <1>5, <2>2, ReboundPlan
    <3>2. Len(todo'[c]) = 4
      BY <3>1
    <3>3. QED
      BY <3>2
  <2>3. QED
    BY <2>1, <2>2
<1>13. StaysCleared(c)
  BY <1>12, Zenon DEF StaysCleared
<1>14. QED
  BY <1>3, <1>10, <1>11, <1>13, ControlStep DEF Rebind

(* A body that fails: nothing is open, or the transaction is rolled back   *)
LEMMA FailStep ==
    ASSUME RecipesInv, NEW c \in Callers, pc[c] \in {"rebind", "run"},
           NEW err \in {"error", "conflict"}, Fail(c, err),
           UNCHANGED <<call, todo, children, ids, tx, ctx, dbVars, purges>>
    PROVE  (\A d \in Callers : CallerOK(d))' /\ Shared'
<1>1. PICK k \in Calls : call[c] = {k} /\ It(c) = k /\ Making(c, k)
  BY Begun
<1>2. OnlyMoves(c)
  BY MineSame DEF Fail, OnlyMoves, Still, Return, Goto, RecipesInv, Maps, dbVars
<1>3. Mine(c)' = Mine(c) /\ call'[c] = {k}
  BY <1>1, MineSame DEF dbVars
<1>4. Fits(Mine(c)) /\ Held(c) /\ tx[c] \in {"none", "open", "ended"} /\ (tx[c] # "open" => pend[c] = NoWrites)
  BY DEF RecipesInv, CallerOK
<1>5. ret[c] = Nothing /\ (k.tx => Mine(c) = {} /\ tx[c] # "none") /\ (~k.tx => tx[c] = "none")
  BY <1>1 DEF Making, Running1, Untouched
<1>6. KeepsCall(c)
  BY DEF KeepsCall
<1>7. CASE tx[c] = "none"
  <2>1. pc'[c] = "done" /\ ret'[c].kind = err /\ ~k.tx
    BY <1>5, <1>7 DEF Fail, Return, Goto, RecipesInv, Maps
  <2>2. Done(c, k)'
    BY <2>1 DEF Done
  <2>3. CallerOK(c)'
    BY <1>3, <1>4, <2>1, <2>2 DEF CallerOK, Making, Labels, Held, dbVars
  <2>4. AnswersTruly(c) /\ StaysCleared(c)
    BY <2>1, OtherAnswers DEF StaysCleared
  <2>5. QED
    BY <1>2, <1>6, <2>3, <2>4, ControlStep
<1>8. CASE tx[c] # "none"
  <2>1. pc'[c] = "rollback" /\ cause'[c] = err /\ ret' = ret /\ k.tx
    BY <1>5, <1>8 DEF Fail, Goto, RecipesInv, Maps
  <2>2. CallerOK(c)'
    BY <1>3, <1>4, <1>5, <1>8, <2>1 DEF CallerOK, Making, Labels, Held, dbVars
  <2>3. AnswersTruly(c) /\ StaysCleared(c)
    BY <2>1, OtherAnswers DEF StaysCleared
  <2>4. QED
    BY <1>2, <1>6, <2>2, <2>3, ControlStep
<1>9. QED
  BY <1>7, <1>8

LEMMA StepFailsStep ==
    ASSUME RecipesInv, NEW c \in Callers, StepFails(c)
    PROVE  (\A d \in Callers : CallerOK(d))' /\ Shared'
BY FailStep DEF StepFails

(* Callbacks that panic, and nested writes on the caller's database        *)
LEMMA EndsRunning ==
    ASSUME RecipesInv, NEW c \in Callers, pc[c] = "run", It(c).kind # "once",
           NEW kind \in {"panicked", "applied"}, Return(c, kind, {}), kind = "applied" => ~It(c).tx,
           UNCHANGED <<call, todo, children, ids, cause, tx, ctx, dbVars, purges>>
    PROVE  (\A d \in Callers : CallerOK(d))' /\ Shared'
<1>1. PICK k \in Calls : call[c] = {k} /\ It(c) = k /\ Making(c, k)
  BY Begun
<1>2. OnlyMoves(c)
  BY MineSame DEF OnlyMoves, Still, Return, Goto, RecipesInv, Maps, dbVars
<1>3. Mine(c)' = Mine(c) /\ call'[c] = {k}
  BY <1>1, MineSame DEF dbVars
<1>4. Fits(Mine(c)) /\ Held(c) /\ tx[c] \in {"none", "open", "ended"} /\ (tx[c] # "open" => pend[c] = NoWrites)
  BY DEF RecipesInv, CallerOK
<1>5. pc'[c] = "done" /\ ret'[c].kind = kind
  BY DEF Return, Goto, RecipesInv, Maps
<1>6. k.tx => Mine(c) = {}
  BY <1>1 DEF Making, Running1
<1>7. Done(c, k)'
  BY <1>1, <1>3, <1>5, <1>6 DEF Done
<1>8. CallerOK(c)'
  BY <1>3, <1>4, <1>5, <1>7 DEF CallerOK, Making, Labels, Held, dbVars
<1>9. AnswersTruly(c) /\ StaysCleared(c) /\ KeepsCall(c)
  BY <1>5, OtherAnswers DEF StaysCleared, KeepsCall
<1>10. QED
  BY <1>2, <1>8, <1>9, ControlStep

LEMMA PanicStep ==
    ASSUME RecipesInv, NEW c \in Callers, Panic(c)
    PROVE  (\A d \in Callers : CallerOK(d))' /\ Shared'
BY EndsRunning DEF Panic

LEMMA NestedEndsStep ==
    ASSUME RecipesInv, NEW c \in Callers, NestedEnds(c)
    PROVE  (\A d \in Callers : CallerOK(d))' /\ Shared'
BY EndsRunning DEF NestedEnds

(* The lookups after a conflict                                            *)
LEMMA EndsLooking ==
    ASSUME RecipesInv, NEW c \in Callers, pc[c] \in {"relookup", "oncelookup"},
           \/ Keys("main", table) # {} /\ Return(c, "existing", Found(c))
           \/ \E kind \in {"conflict", "error"} : Return(c, kind, {}),
           UNCHANGED <<call, todo, children, ids, cause, tx, ctx, dbVars, purges>>
    PROVE  (\A d \in Callers : CallerOK(d))' /\ Shared'
<1>1. PICK k \in Calls : call[c] = {k} /\ It(c) = k /\ Making(c, k)
  BY Begun
<1>2. OnlyMoves(c)
  BY MineSame DEF OnlyMoves, Still, Return, Goto, RecipesInv, Maps, dbVars
<1>3. Mine(c) = {} /\ Mine(c)' = {} /\ call'[c] = {k}
  BY <1>1, MineSame DEF dbVars, Making
<1>4. tx[c] \in {"none", "open", "ended"} /\ (tx[c] # "open" => pend[c] = NoWrites)
  BY DEF RecipesInv, CallerOK
<1>5. pc'[c] = "done" /\ ret'[c].kind # "applied" /\ (ret'[c].kind = "existing" => Keys("main", table) # {} /\ ret'[c].row = Found(c))
  BY DEF Return, Goto, RecipesInv, Maps
<1>6. CallerOK(c)'
  BY <1>3, <1>4, <1>5, EndsEmpty DEF dbVars
<1>7. AnswersTruly(c)
  BY <1>3, <1>5, FoundIsAnothers DEF AnswersTruly
<1>8. StaysCleared(c) /\ KeepsCall(c)
  BY <1>5 DEF StaysCleared, KeepsCall
<1>9. QED
  BY <1>2, <1>6, <1>7, <1>8, ControlStep

LEMMA RelookupStep ==
    ASSUME RecipesInv, NEW c \in Callers, Relookup(c)
    PROVE  (\A d \in Callers : CallerOK(d))' /\ Shared'
BY EndsLooking DEF Relookup

LEMMA OnceLookupStep ==
    ASSUME RecipesInv, NEW c \in Callers, OnceLookup(c)
    PROVE  (\A d \in Callers : CallerOK(d))' /\ Shared'
BY EndsLooking DEF OnceLookup

LEMMA ContextEndsStep ==
    ASSUME RecipesInv, NEW c \in Callers, ContextEnds(c)
    PROVE  (\A d \in Callers : CallerOK(d))' /\ Shared'
<1>1. \A d \in Callers : Still(d)
  BY MineSame DEF ContextEnds, Still, callVars, dbVars
<1>2. CallerOK(c)' /\ OnlyMoves(c)
  BY <1>1, StillCaller DEF OnlyMoves, RecipesInv
<1>3. AnswersTruly(c) /\ KeepsCall(c)
  BY OtherAnswers DEF ContextEnds, callVars, KeepsCall
<1>4. KeepsLocks(c) /\ UNCHANGED <<table, ever, purges>>
  BY DEF KeepsLocks, ContextEnds, dbVars
<1>5. ParentsFirst => StaysCleared(c)
  BY DEF StaysCleared, ContextEnds, callVars, dbVars, It, RecipesInv, CollectionOK, Cleared
<1>6. QED
  BY <1>2, <1>3, <1>4, <1>5, OthersOK, SharedSame

(***************************************************************************)
(* Steps that give up what is pending                                      *)
(***************************************************************************)

LEMMA DropStep ==
    ASSUME RecipesInv, NEW c \in Callers, UNCHANGED <<table, ever, purges>>, OnlyMoves(c), CallerOK(c)',
           pend'[c] = NoWrites, AnswersTruly(c), KeepsCall(c), tx'[c] = "ended"
    PROVE  (\A d \in Callers : CallerOK(d))' /\ Shared'
<1>1. KeepsLocks(c) /\ StaysCleared(c)
  BY NoWritesFields DEF KeepsLocks, StaysCleared, Keys
<1>2. QED
  BY <1>1, OthersOK, SharedSame

LEMMA AwaitDoneStep ==
    ASSUME RecipesInv, NEW c \in Callers, AwaitDone(c)
    PROVE  (\A d \in Callers : CallerOK(d))' /\ Shared'
<1>1. OnlyMoves(c)
  BY MineSame DEF AwaitDone, OnlyMoves, Still, callVars, RecipesInv, Maps
<1>2. pc[c] # "idle" /\ CallerOK(c)
  BY DEF RecipesInv, CallerOK, Unused, AwaitDone
<1>3. PICK k \in Calls : call[c] = {k} /\ It(c) = k /\ Making(c, k)
  BY <1>2, Begun
<1>4. /\ call'[c] = {k} /\ pc'[c] = pc[c] /\ todo'[c] = todo[c] /\ children'[c] = children[c] /\ ids'[c] = ids[c]
      /\ cause'[c] = cause[c] /\ ret'[c] = ret[c] /\ Mine(c)' = Mine(c)
      /\ tx'[c] = "ended" /\ pend'[c] = NoWrites /\ tx[c] = "open"
  BY <1>3, MineSame DEF AwaitDone, callVars, RecipesInv, Maps
<1>5. Running1(c, k) => Running1(c, k)'
  BY <1>4, NoWritesFields DEF Running1, OnTx, Head1, Keys
<1>6. Untouched(c, k) => Untouched(c, k)'
  BY <1>4 DEF Untouched
<1>7. Done(c, k) => Done(c, k)'
  <2>1. todo[c] = <<>> /\ Progress(c, k, Mine(c)) => (todo[c] = <<>> /\ Progress(c, k, Mine(c)))'
    BY <1>4 DEF Progress, MainProgress, CommandProgress, NestedProgress, Child, Grand, Parent, Main, Hook
  <2>2. QED
    BY <1>4, <2>1 DEF Done, Main
<1>8. Making(c, k)'
  BY <1>3, <1>4, <1>5, <1>6, <1>7 DEF Making
<1>9. CallerOK(c)'
  BY <1>2, <1>4, <1>8 DEF CallerOK, Held
<1>10. AnswersTruly(c) /\ KeepsCall(c)
  BY <1>4, OtherAnswers DEF AwaitDone, callVars, KeepsCall
<1>11. QED
  BY <1>1, <1>4, <1>9, <1>10, DropStep DEF AwaitDone

LEMMA RollbackStep ==
    ASSUME RecipesInv, NEW c \in Callers, Rollback(c)
    PROVE  (\A d \in Callers : CallerOK(d))' /\ Shared'
<1>1. OnlyMoves(c)
  BY MineSame DEF Rollback, OnlyMoves, Still, Return, Goto, RecipesInv, Maps
<1>2. PICK k \in Calls : call[c] = {k} /\ It(c) = k /\ Making(c, k)
  BY Begun DEF Rollback
<1>3. Mine(c) = {} /\ cause[c] \in {"error", "conflict"} /\ ret[c] = Nothing
  BY <1>2 DEF Rollback, Making
<1>4. /\ call'[c] = {k} /\ Mine(c)' = {} /\ tx'[c] = "ended" /\ pend'[c] = NoWrites
      /\ UNCHANGED <<table, ever, purges>> /\ KeepsCall(c)
  BY <1>2, <1>3, MineSame DEF Rollback, RecipesInv, Maps, KeepsCall
<1>5. CASE k.kind = "command" /\ cause[c] = "conflict"
  <2>1. pc'[c] = "relookup" /\ ret' = ret
    BY <1>2, <1>5 DEF Rollback, Goto, RecipesInv, Maps
  <2>2. CallerOK(c)'
    BY <1>3, <1>4, <1>5, <2>1 DEF CallerOK, Making, Labels, Fits, Held
  <2>3. QED
    BY <1>1, <1>4, <2>1, <2>2, OtherAnswers, DropStep
<1>6. CASE ~(k.kind = "command" /\ cause[c] = "conflict")
  <2>1. pc'[c] = "done" /\ ret'[c].kind = cause[c]
    BY <1>2, <1>6 DEF Rollback, Return, Goto, RecipesInv, Maps
  <2>2. CallerOK(c)' /\ AnswersTruly(c)
    BY <1>3, <1>4, <2>1, EndsEmpty, OtherAnswers
  <2>3. QED
    BY <1>1, <1>4, <2>2, DropStep
<1>7. QED
  BY <1>5, <1>6

(***************************************************************************)
(* One statement more                                                      *)
(***************************************************************************)

(* Every statement belongs to one kind of call                             *)
LEMMA PhaseKinds ==
    ASSUME NEW c, NEW k \in Calls, NEW rows, Progress(c, k, rows), todo[c] # <<>>
    PROVE  /\ Head1(c).phase = "main" => k.kind \in {"hooks", "command"} /\ rows = {}
           /\ Head1(c).phase = "hook" => k.kind \in {"hooks", "command"} /\ rows # {}
           /\ Head1(c).phase = "once" => k.kind = "once" /\ rows = {}
           /\ Head1(c).phase \in {"parent", "delete", "child", "grand"} => k.kind = "nested"
<1>1. CASE k.kind = "hooks"
  <2>1. MainProgress(c, rows)
    BY <1>1 DEF Progress
  <2>2. (Head1(c).phase = "main" /\ rows = {}) \/ (Head1(c).phase = "hook" /\ rows # {})
    BY <2>1, StepFields, SMTT(30) DEF MainProgress, Head1
  <2>3. QED
    BY <1>1, <2>2
<1>2. CASE k.kind = "command"
  BY <1>2, StepFields DEF Progress, CommandProgress, Head1
<1>3. CASE k.kind = "once"
  BY <1>3, StepFields DEF Progress, Head1
<1>4. CASE k.kind = "nested"
  <2>1. NestedProgress(c, k, Dest(k), rows)
    BY <1>4 DEF Progress
  <2>2. Head1(c).phase \in {"parent", "delete", "child", "grand"}
    BY <2>1, StepFields DEF NestedProgress, Head1
  <2>3. QED
    BY <1>4, <2>2
<1>5. QED
  BY <1>1, <1>2, <1>3, <1>4, CallKinds

LEMMA MainAdvance ==
    ASSUME NEW c, NEW k \in Calls, NEW rows, Progress(c, k, rows), todo[c] # <<>>,
           todo'[c] = Tail(todo[c]), Head1(c).phase = "main"
    PROVE  Progress(c, k, {Main(c)})'
<1>1. CASE k.kind = "hooks"
  <2>1. todo[c] = <<Step("main", 1, "tx"), Step("hook", 1, "tx"), Step("hook", 2, "tx")>>
    BY <1>1, StepFields DEF Progress, MainProgress, Head1
  <2>2. todo'[c] = <<Step("hook", 1, "tx"), Step("hook", 2, "tx")>>
    BY <2>1, Tails
  <2>3. QED
    BY <1>1, <2>2 DEF Progress, MainProgress, Main
<1>2. CASE k.kind = "command"
  <2>1. todo[c] = <<Step("main", 1, "tx"), Step("hook", 1, "tx")>>
    BY <1>2, StepFields DEF Progress, CommandProgress, Head1
  <2>2. todo'[c] = <<Step("hook", 1, "tx")>>
    BY <2>1, Tails
  <2>3. QED
    BY <1>2, <2>2 DEF Progress, CommandProgress, Main
<1>3. QED
  BY <1>1, <1>2, PhaseKinds

LEMMA HookAdvance ==
    ASSUME NEW c, NEW k \in Calls, NEW rows, Progress(c, k, rows), todo[c] # <<>>,
           todo'[c] = Tail(todo[c]), Head1(c).phase = "hook", NEW new, new = rows \cup {Row("hook", Head1(c).val, 0, c)}
    PROVE  Progress(c, k, new)'
<1>1. CASE k.kind = "hooks"
  <2>1. CASE todo[c] = <<Step("hook", 1, "tx"), Step("hook", 2, "tx")>> /\ rows = {Main(c)}
    <3>1. Head1(c).val = 1 /\ todo'[c] = <<Step("hook", 2, "tx")>>
      BY <2>1, StepFields, Tails DEF Head1
    <3>2. new = {Main(c), Hook(c, 1)}
      BY <2>1, <3>1 DEF Hook
    <3>3. MainProgress(c, {Main(c), Hook(c, 1)})'
      BY <3>1 DEF MainProgress, Main, Hook
    <3>4. QED
      BY <1>1, <3>2, <3>3 DEF Progress
  <2>2. CASE todo[c] = <<Step("hook", 2, "tx")>> /\ rows = {Main(c), Hook(c, 1)}
    <3>1. Head1(c).val = 2 /\ todo'[c] = <<>>
      BY <2>2, StepFields, Tails DEF Head1
    <3>2. new = {Main(c), Hook(c, 1), Hook(c, 2)}
      BY <2>2, <3>1 DEF Hook
    <3>3. MainProgress(c, {Main(c), Hook(c, 1), Hook(c, 2)})'
      BY <3>1 DEF MainProgress, Main, Hook
    <3>4. QED
      BY <1>1, <3>2, <3>3 DEF Progress
  <2>3. MainProgress(c, rows)
    BY <1>1 DEF Progress
  <2>4. QED
    BY <2>1, <2>2, <2>3, StepFields DEF MainProgress, Head1
<1>2. CASE k.kind = "command"
  <2>1. todo[c] = <<Step("hook", 1, "tx")>> /\ rows = {Main(c)}
    BY <1>2, StepFields DEF Progress, CommandProgress, Head1
  <2>2. Head1(c).val = 1 /\ todo'[c] = <<>>
    BY <2>1, StepFields, Tails DEF Head1
  <2>3. new = {Main(c), Hook(c, 1)}
    BY <2>1, <2>2 DEF Hook
  <2>4. CommandProgress(c, {Main(c), Hook(c, 1)})'
    BY <2>2 DEF CommandProgress, Main, Hook
  <2>5. QED
    BY <1>2, <2>3, <2>4 DEF Progress
<1>3. QED
  BY <1>1, <1>2, PhaseKinds

(* The head of a nested plan says where it stands                          *)
LEMMA ParentAdvance ==
    ASSUME NEW c, NEW k, NEW dest, NEW rows, NestedProgress(c, k, dest, rows), todo[c] # <<>>,
           Head1(c).phase = "parent", todo'[c] = Tail(todo[c]), children'[c] = children[c], ids'[c] = ids[c]
    PROVE  /\ Head1(c).dest = dest /\ rows = {} /\ k.parent /\ ~(Len(todo'[c]) <= 3)
           /\ NestedProgress(c, k, dest, {Row("parent", 0, 0, c)})'
<1>1. /\ todo[c] = <<Step("parent", 0, dest), Step("delete", 0, dest), Step("child", 1, dest),
                     Step("child", 2, dest), Step("grand", 0, dest)>>
      /\ k.parent /\ children[c] = <<1, 2>> /\ ids[c] = <<>> /\ rows = {}
  BY StepFields DEF NestedProgress, Head1
<1>2. todo'[c] = <<Step("delete", 0, dest), Step("child", 1, dest), Step("child", 2, dest), Step("grand", 0, dest)>>
  BY <1>1, Tails
<1>3. Head1(c).dest = dest /\ Len(todo'[c]) = 4
  BY <1>1, <1>2, StepFields DEF Head1
<1>4. QED
  BY <1>1, <1>2, <1>3 DEF NestedProgress, Parent

LEMMA DeleteAdvance ==
    ASSUME NEW c, NEW k, NEW dest, dest = Dest(k), NEW rows, NestedProgress(c, k, dest, rows), todo[c] # <<>>,
           Head1(c).phase = "delete", ids'[c] = ids[c],
           children'[c] = IF k.scoped THEN [j \in DOMAIN children[c] |-> children[c][j] + 10] ELSE children[c],
           todo'[c] = Replanned(k, Tail(todo[c]), children'[c])
    PROVE  /\ Head1(c).dest = dest /\ rows = Parent(c, k)
           /\ NestedProgress(c, k, dest, Parent(c, k))'
<1>1. /\ todo[c] = <<Step("delete", 0, dest), Step("child", 1, dest), Step("child", 2, dest), Step("grand", 0, dest)>>
      /\ children[c] = <<1, 2>> /\ ids[c] = <<>> /\ rows = Parent(c, k)
  BY StepFields DEF NestedProgress, Head1
<1>2. Tail(todo[c]) = <<Step("child", 1, dest), Step("child", 2, dest), Step("grand", 0, dest)>>
  BY <1>1, Tails
<1>3. Head1(c).dest = dest
  BY <1>1, StepFields DEF Head1
<1>4. CASE k.scoped
  <2>1. children'[c] = <<11, 12>>
    BY <1>1, <1>4, ScopedChildren
  <2>2. Replanned(k, <<Step("child", 1, dest), Step("child", 2, dest), Step("grand", 0, dest)>>, children'[c]) =
            <<Step("child", children'[c][1], dest), Step("child", children'[c][2], dest), Step("grand", 0, dest)>>
    BY <1>4, ReplannedSteps, ZenonT(60)
  <2>3. QED
    BY <1>1, <1>2, <1>3, <2>1, <2>2 DEF NestedProgress, Parent
<1>5. CASE ~k.scoped
  <2>1. children'[c] = <<1, 2>>
    BY <1>1, <1>5
  <2>2. Replanned(k, <<Step("child", 1, dest), Step("child", 2, dest), Step("grand", 0, dest)>>, children'[c]) =
            <<Step("child", 1, dest), Step("child", 2, dest), Step("grand", 0, dest)>>
    BY <1>5, ReplannedSteps
  <2>3. QED
    BY <1>1, <1>2, <1>3, <2>1, <2>2 DEF NestedProgress, Parent
<1>6. QED
  BY <1>4, <1>5

LEMMA Appended == \A i, j : Append(<<>>, i) = <<i>> /\ Append(<<i>>, j) = <<i, j>>
<1> SUFFICES ASSUME NEW i, NEW j PROVE Append(<<>>, i) = <<i>> /\ Append(<<i>>, j) = <<i, j>>
  OBVIOUS
<1> DEFINE S == {i, j}
<1>1. <<>> \in Seq(S) /\ <<i>> \in Seq(S) /\ <<i, j>> \in Seq(S) /\ i \in S /\ j \in S
  OBVIOUS
<1>2. /\ Append(<<>>, i) \in Seq(S) /\ Len(Append(<<>>, i)) = Len(<<>>) + 1
      /\ Append(<<>>, i)[Len(Append(<<>>, i))] = i
  BY <1>1, AppendProperties
<1>3. /\ Append(<<i>>, j) \in Seq(S) /\ Len(Append(<<i>>, j)) = Len(<<i>>) + 1
      /\ \A n \in 1..Len(<<i>>) : Append(<<i>>, j)[n] = <<i>>[n]
      /\ Append(<<i>>, j)[Len(Append(<<i>>, j))] = j
  BY <1>1, AppendProperties
<1>4. Append(<<>>, i) = <<i>>
  BY <1>1, <1>2, SeqEqual
<1>5. Append(<<i>>, j) = <<i, j>>
  <2>1. Len(Append(<<i>>, j)) = 2 /\ Append(<<i>>, j)[1] = i /\ Append(<<i>>, j)[2] = j
    BY <1>3
  <2>2. \A n \in 1..Len(Append(<<i>>, j)) : Append(<<i>>, j)[n] = <<i, j>>[n]
    BY <2>1
  <2>3. Len(Append(<<i>>, j)) = Len(<<i, j>>)
    BY <2>1
  <2>4. QED
    BY <1>1, <1>3, <2>2, <2>3, SeqEqual
<1>6. QED
  BY <1>4, <1>5

LEMMA ChildAdvance ==
    ASSUME NEW c, NEW k, NEW dest, NEW rows, NestedProgress(c, k, dest, rows), todo[c] # <<>>,
           Head1(c).phase = "child", todo'[c] = Tail(todo[c]), children'[c] = children[c],
           ids'[c] = Append(ids[c], nextId), NEW new, new = rows \cup {Row("child", Head1(c).val, nextId, c)}
    PROVE  Head1(c).dest = dest /\ NestedProgress(c, k, dest, new)' /\ Len(todo[c]) <= 3
<1> DEFINE v == children[c]
<1>1. v \in {<<1, 2>>, <<11, 12>>}
  BY DEF NestedProgress
<1>2. CASE /\ todo[c] = <<Step("child", v[1], dest), Step("child", v[2], dest), Step("grand", 0, dest)>>
           /\ ids[c] = <<>> /\ rows = Parent(c, k)
  <2>1. todo'[c] = <<Step("child", v[2], dest), Step("grand", 0, dest)>> /\ Len(todo[c]) = 3
    BY <1>2, Tails
  <2>2. ids'[c] = <<nextId>>
    BY <1>2, Appended
  <2>3. Head1(c).dest = dest /\ Head1(c).val = v[1]
    BY <1>2, StepFields DEF Head1
  <2>4. new = Parent(c, k) \cup {Row("child", v[1], nextId, c)}
    BY <1>2, <2>3
  <2>5. Child(c, 1)' = Row("child", v[1], nextId, c)
    BY <2>2 DEF Child
  <2>6. /\ todo'[c] = <<Step("child", children'[c][2], dest), Step("grand", 0, dest)>>
        /\ ids'[c] = <<ids'[c][1]>> /\ new = Parent(c, k) \cup {Child(c, 1)'}
    <3>1. todo'[c] = <<Step("child", children'[c][2], dest), Step("grand", 0, dest)>>
      BY <2>1
    <3>2. ids'[c] = <<ids'[c][1]>>
      BY <2>2
    <3>3. new = Parent(c, k) \cup {Child(c, 1)'}
      BY <2>4, <2>5, Zenon
    <3>4. QED
      BY <3>1, <3>2, <3>3
  <2>7. NestedProgress(c, k, dest, new)'
    BY <1>1, <2>6 DEF NestedProgress, Parent
  <2>8. QED
    BY <2>1, <2>3, <2>7
<1>3. CASE /\ todo[c] = <<Step("child", v[2], dest), Step("grand", 0, dest)>>
           /\ ids[c] = <<ids[c][1]>> /\ rows = Parent(c, k) \cup {Child(c, 1)}
  <2>1. todo'[c] = <<Step("grand", 0, dest)>> /\ Len(todo[c]) = 2
    BY <1>3, Tails
  <2>2. ids'[c] = <<ids[c][1], nextId>>
    BY <1>3, Appended, ZenonT(60)
  <2>3. Head1(c).dest = dest /\ Head1(c).val = v[2]
    BY <1>3, StepFields DEF Head1
  <2>4. new = Parent(c, k) \cup {Row("child", v[1], ids[c][1], c), Row("child", v[2], nextId, c)}
    BY <1>3, <2>3 DEF Child
  <2>5. Child(c, 1)' = Row("child", v[1], ids[c][1], c) /\ Child(c, 2)' = Row("child", v[2], nextId, c)
    BY <2>2 DEF Child
  <2>6. /\ todo'[c] = <<Step("grand", 0, dest)>>
        /\ ids'[c] = <<ids'[c][1], ids'[c][2]>> /\ new = Parent(c, k) \cup {Child(c, 1)', Child(c, 2)'}
    <3>1. ids'[c] = <<ids'[c][1], ids'[c][2]>>
      BY <2>2
    <3>2. new = Parent(c, k) \cup {Child(c, 1)', Child(c, 2)'}
      BY <2>4, <2>5, Zenon
    <3>3. QED
      BY <2>1, <3>1, <3>2
  <2>7. NestedProgress(c, k, dest, new)'
    BY <1>1, <2>6 DEF NestedProgress, Parent
  <2>8. QED
    BY <2>1, <2>3, <2>7
<1>4. \/ /\ todo[c] = <<Step("child", v[1], dest), Step("child", v[2], dest), Step("grand", 0, dest)>>
         /\ ids[c] = <<>> /\ rows = Parent(c, k)
      \/ /\ todo[c] = <<Step("child", v[2], dest), Step("grand", 0, dest)>>
         /\ ids[c] = <<ids[c][1]>> /\ rows = Parent(c, k) \cup {Child(c, 1)}
  BY StepFields DEF NestedProgress, Head1
<1>5. QED
  BY <1>2, <1>3, <1>4

LEMMA GrandAdvance ==
    ASSUME NEW c, NEW k, NEW dest, NEW rows, NestedProgress(c, k, dest, rows), todo[c] # <<>>,
           Head1(c).phase = "grand", todo'[c] = Tail(todo[c]), children'[c] = children[c], ids'[c] = ids[c],
           NEW new, new = rows \cup {Row("grand", children[c][i], ids[c][i], c) : i \in DOMAIN children[c]}
    PROVE  Head1(c).dest = dest /\ NestedProgress(c, k, dest, new)' /\ Len(todo[c]) <= 3
<1> DEFINE v == children[c]
<1>1. v \in {<<1, 2>>, <<11, 12>>}
  BY DEF NestedProgress
<1>2. /\ todo[c] = <<Step("grand", 0, dest)>>
      /\ ids[c] = <<ids[c][1], ids[c][2]>> /\ rows = Parent(c, k) \cup {Child(c, 1), Child(c, 2)}
  BY StepFields DEF NestedProgress, Head1
<1>3. todo'[c] = <<>> /\ Len(todo[c]) = 1
  BY <1>2, Tails
<1>4. Head1(c).dest = dest
  BY <1>2, StepFields DEF Head1
<1>5. DOMAIN children[c] = {1, 2}
  BY <1>1
<1>6. new = Parent(c, k) \cup {Child(c, 1), Child(c, 2)} \cup {Grand(c, 1), Grand(c, 2)}
  BY <1>2, <1>5 DEF Grand
<1>7. NestedProgress(c, k, dest, new)'
  BY <1>1, <1>2, <1>3, <1>6 DEF NestedProgress, Parent, Child, Grand
<1>8. QED
  BY <1>3, <1>4, <1>7

(* A nested write's rows hang together, at every statement                 *)
LEMMA ProgressFits ==
    ASSUME NEW c, NEW k \in Calls, NEW rows, Progress(c, k, rows)'
    PROVE  /\ Fits(rows)
           /\ \A r \in rows : r.by = c /\ (r.t = "child" => r.val \in Range(children'[c]))
<1>1. CASE k.kind \in {"hooks", "command", "once"}
  <2>1. rows \subseteq {Main(c), Hook(c, 1), Hook(c, 2)}
    BY <1>1 DEF Progress, MainProgress, CommandProgress
  <2>2. QED
    BY <2>1, RowFields DEF Fits, Main, Hook
<1>2. CASE k.kind = "nested"
  <2>1. NestedProgress(c, k, Dest(k), rows)'
    BY <1>2 DEF Progress
  <2>2. children'[c] \in {<<1, 2>>, <<11, 12>>}
    BY <2>1 DEF NestedProgress
  <2>3. children'[c][1] \in Range(children'[c]) /\ children'[c][2] \in Range(children'[c])
    BY <2>2 DEF Range
  <2>4. /\ rows \subseteq Parent(c, k) \cup {Child(c, 1)', Child(c, 2)', Grand(c, 1)', Grand(c, 2)'}
        /\ Grand(c, 1)' \in rows \/ Grand(c, 2)' \in rows => Child(c, 1)' \in rows /\ Child(c, 2)' \in rows
    <3>1. Grand(c, 1)' \notin Parent(c, k) \cup {Child(c, 1)', Child(c, 2)'}
      BY RowFields DEF Grand, Child, Parent
    <3>2. Grand(c, 2)' \notin Parent(c, k) \cup {Child(c, 1)', Child(c, 2)'}
      BY RowFields DEF Grand, Child, Parent
    <3>3. \/ rows \subseteq Parent(c, k) \cup {Child(c, 1)', Child(c, 2)'}
          \/ rows = Parent(c, k) \cup {Child(c, 1), Child(c, 2)}' \cup {Grand(c, 1), Grand(c, 2)}'
      BY <2>1 DEF NestedProgress, Parent
    <3>4. QED
      BY <3>1, <3>2, <3>3
  <2>5. \A r \in Parent(c, k) : r.t = "parent" /\ r.by = c
    BY RowFields DEF Parent
  <2>6. QED
    BY <2>3, <2>4, <2>5, RowFields DEF Fits, Child, Grand
<1>3. QED
  BY <1>1, <1>2, CallKinds

(***************************************************************************)
(* Statements in a transaction                                             *)
(***************************************************************************)

LEMMA WriteInTx ==
    ASSUME RecipesInv, NEW c \in Callers, NEW ins, NEW del, Write(c, "tx", ins, del)
    PROVE  /\ tx[c] = "open" /\ UNCHANGED <<table, ever>>
           /\ pend'[c].ins = (pend[c].ins \ del) \cup ins
           /\ pend'[c].del = pend[c].del \cup (del \cap table)
           /\ \A d : d # c => pend'[d] = pend[d]
<1>1. tx[c] = "open" /\ UNCHANGED <<table, ever>>
  BY DEF Write, RecipesInv, CallerOK
<1>2. pend' = [pend EXCEPT ![c] = [ins |-> (pend[c].ins \ del) \cup ins, del |-> pend[c].del \cup (del \cap table)]]
  BY DEF Write
<1>3. QED
  BY <1>1, <1>2 DEF RecipesInv, Maps

LEMMA PendingStep ==
    ASSUME RecipesInv, NEW c \in Callers, NEW k \in Calls, call[c] = {k}, Making(c, k), pc[c] = "run", k.tx,
           tx[c] = "open", Same(c), UNCHANGED <<table, ever>>, OnlyMoves(c),
           NEW new, new = pend'[c].ins, Progress(c, k, new)', Keys("main", pend'[c].del) = {},
           KeepsLocks(c), ParentsFirst => StaysCleared(c)
    PROVE  (\A d \in Callers : CallerOK(d))' /\ Shared'
<1>1. Mine(c)' = {} /\ ret'[c] = Nothing /\ call'[c] = {k} /\ pc'[c] = "run" /\ tx'[c] = "open"
  BY MineSame DEF Making, Running1, Same
<1>2. OnTx(c)'
  BY ProgressOnTx
<1>3. Running1(c, k)'
  BY <1>1, <1>2 DEF Running1, Keys
<1>4. CallerOK(c)'
  BY <1>1, <1>3 DEF CallerOK, Making, Labels, Fits, Held
<1>5. AnswersTruly(c) /\ KeepsCall(c) /\ UNCHANGED <<table, ever, purges>>
  BY OtherAnswers DEF Same, KeepsCall
<1>6. QED
  BY <1>4, <1>5, OthersOK, SharedSame

(* A transaction at a statement                                            *)
LEMMA OpenFacts ==
    ASSUME RecipesInv, NEW c \in Callers, pc[c] = "run", tx[c] = "open"
    PROVE  \E k \in Calls : /\ call[c] = {k} /\ It(c) = k /\ Making(c, k) /\ k.tx
                            /\ Progress(c, k, pend[c].ins) /\ Keys("main", pend[c].del) = {}
<1>1. PICK k \in Calls : call[c] = {k} /\ It(c) = k /\ Making(c, k)
  BY Begun
<1>2. QED
  BY <1>1 DEF Making, Running1

LEMMA InsertMainStep ==
    ASSUME RecipesInv, NEW c \in Callers, InsertMain(c)
    PROVE  (\A d \in Callers : CallerOK(d))' /\ Shared'
<1>1. CASE Keys("main", Visible(c)) # {}
  <2>1. pc[c] \in {"rebind", "run"} /\ Fail(c, "conflict") /\ UNCHANGED <<call, todo, children, ids, tx, ctx, dbVars, purges>>
    BY <1>1 DEF InsertMain, Running, dbVars
  <2>2. QED
    BY <2>1, FailStep
<1>2. CASE Keys("main", Visible(c)) = {}
  <2>1. Write(c, "tx", {Main(c)}, {}) /\ Advance(c) /\ Same(c) /\ UNCHANGED <<children, ids, nextId>>
    BY <1>2 DEF InsertMain, Main
  <2>2. /\ tx[c] = "open" /\ UNCHANGED <<table, ever>> /\ pend'[c].ins = (pend[c].ins \ {}) \cup {Main(c)}
        /\ pend'[c].del = pend[c].del \cup ({} \cap table) /\ \A d : d # c => pend'[d] = pend[d]
    BY <2>1, WriteInTx
  <2>3. pc[c] = "run" /\ todo[c] # <<>> /\ Head1(c).phase = "main" /\ ~LockedByOther(c, "main")
    BY DEF InsertMain, Running
  <2>4. PICK k \in Calls : /\ call[c] = {k} /\ It(c) = k /\ Making(c, k) /\ k.tx
                           /\ Progress(c, k, pend[c].ins) /\ Keys("main", pend[c].del) = {}
    BY <2>2, <2>3, OpenFacts
  <2>5. todo'[c] = Tail(todo[c])
    BY <2>1 DEF Advance, RecipesInv, Maps
  <2>6. PICK rows : rows = pend[c].ins
    OBVIOUS
  <2>7. k.kind \in {"hooks", "command"} /\ rows = {}
    BY <2>3, <2>4, <2>6, PhaseKinds
  <2>8. Progress(c, k, {Main(c)})'
    BY <2>3, <2>4, <2>5, <2>6, MainAdvance
  <2>9. pend'[c].ins = {Main(c)} /\ pend'[c].del = pend[c].del
    BY <2>2, <2>6, <2>7
  <2>10. Keys("main", table) = {}
    BY <1>2, <2>4 DEF Visible, Keys
  <2>11. KeepsLocks(c)
    BY <2>3, <2>9, <2>10, RowFields DEF KeepsLocks, Keys, Main
  <2>12. StaysCleared(c)
    BY <2>1, <2>4, <2>7, OneCall DEF StaysCleared, Same, It
  <2>13. OnlyMoves(c)
    BY <2>1, <2>2, MineSame DEF OnlyMoves, Still, Same, Advance, RecipesInv, Maps
  <2>14. QED
    BY <2>1, <2>2, <2>3, <2>4, <2>8, <2>9, <2>11, <2>12, <2>13, PendingStep
<1>3. QED
  BY <1>1, <1>2

LEMMA InsertHookStep ==
    ASSUME RecipesInv, NEW c \in Callers, InsertHook(c)
    PROVE  (\A d \in Callers : CallerOK(d))' /\ Shared'
<1>1. PICK row : row = Row("hook", Head1(c).val, 0, c)
  OBVIOUS
<1>2. Write(c, "tx", {row}, {}) /\ Advance(c) /\ Same(c) /\ UNCHANGED <<children, ids, nextId>>
  BY <1>1 DEF InsertHook
<1>3. /\ tx[c] = "open" /\ UNCHANGED <<table, ever>> /\ pend'[c].ins = (pend[c].ins \ {}) \cup {row}
      /\ pend'[c].del = pend[c].del \cup ({} \cap table) /\ \A d : d # c => pend'[d] = pend[d]
  BY <1>2, WriteInTx
<1>4. pc[c] = "run" /\ todo[c] # <<>> /\ Head1(c).phase = "hook"
  BY DEF InsertHook, Running
<1>5. PICK k \in Calls : /\ call[c] = {k} /\ It(c) = k /\ Making(c, k) /\ k.tx
                         /\ Progress(c, k, pend[c].ins) /\ Keys("main", pend[c].del) = {}
  BY <1>3, <1>4, OpenFacts
<1>6. todo'[c] = Tail(todo[c])
  BY <1>2 DEF Advance, RecipesInv, Maps
<1>7. PICK rows : rows = pend[c].ins
  OBVIOUS
<1>8. PICK new : new = rows \cup {row}
  OBVIOUS
<1>9. pend'[c].ins = new /\ pend'[c].del = pend[c].del
  BY <1>3, <1>7, <1>8
<1>10. k.kind \in {"hooks", "command"} /\ Progress(c, k, new)'
  BY <1>1, <1>4, <1>5, <1>6, <1>7, <1>8, PhaseKinds, HookAdvance
<1>11. Keys("main", pend'[c].ins) = Keys("main", pend[c].ins) /\ Keys("parent", pend'[c].ins) = Keys("parent", pend[c].ins)
  BY <1>1, <1>7, <1>8, <1>9, RowFields DEF Keys
<1>12. KeepsLocks(c)
  BY <1>11 DEF KeepsLocks
<1>13. StaysCleared(c)
  BY <1>2, <1>5, <1>10, OneCall DEF StaysCleared, Same, It
<1>14. OnlyMoves(c)
  BY <1>2, <1>3, MineSame DEF OnlyMoves, Still, Same, Advance, RecipesInv, Maps
<1>15. QED
  BY <1>2, <1>3, <1>4, <1>5, <1>9, <1>10, <1>12, <1>13, <1>14, PendingStep

(***************************************************************************)
(* Statements of a nested write                                            *)
(***************************************************************************)

(* A statement on the plain database: durable at once, and only nested     *)
(* writes without a transaction have them                                  *)
LEMMA DirectStep ==
    ASSUME RecipesInv, NEW c \in Callers, NEW k \in Calls, call[c] = {k}, It(c) = k, Making(c, k),
           pc[c] = "run", k.kind = "nested", ~k.tx, Same(c), UNCHANGED pend, OnlyMoves(c),
           ever \subseteq ever', NEW new, new = Mine(c)', Progress(c, k, new)',
           Keys("main", new) = {}, Keys("main", table') = Keys("main", table)
    PROVE  (\A d \in Callers : CallerOK(d))' /\ Shared'
<1>1. /\ call'[c] = {k} /\ pc'[c] = "run" /\ tx'[c] = "none" /\ ret'[c] = Nothing /\ tx[c] = "none"
      /\ pend'[c] = NoWrites
  BY DEF Making, Running1, Same, RecipesInv, CallerOK
<1>2. Running1(c, k)'
  BY <1>1 DEF Running1
<1>3. Fits(Mine(c))' /\ Held(c)'
  <2>1. Fits(new) /\ \A r \in new : r.by = c /\ (r.t = "child" => r.val \in Range(children'[c]))
    BY ProgressFits
  <2>2. QED
    BY <2>1 DEF Held, Fits
<1>4. CallerOK(c)'
  BY <1>1, <1>2, <1>3 DEF CallerOK, Making, Labels
<1>5. (\A d \in Callers : CallerOK(d))'
  BY <1>4, OthersOK
<1>6. KeyIsLocked'
  BY DEF RecipesInv, KeyIsLocked, Keys
<1>7. Keys("main", Mine(c)) = {}
  BY DEF Making, Running1, Mine, Keys, OnlyMoves
<1>8. Winners' = Winners
  BY <1>7 DEF Winners, OnlyMoves, Still, Keys
<1>9. WinnersAreCounted'
  BY <1>8 DEF WinnersAreCounted, RecipesInv, Same, Keys
<1>10. ExistingIsAnothers'
  BY DEF ExistingIsAnothers, RecipesInv, Same
<1>11. ParentIsLocked'
  BY DEF ParentIsLocked, RecipesInv, Keys
<1>12. ~ParentsFirst'
  BY <1>1, OneCall DEF ParentsFirst, It
<1>13. QED
  BY <1>5, <1>6, <1>9, <1>10, <1>11, <1>12 DEF Shared, CollectionOK

(* The call of a nested statement                                          *)
LEMMA NestedFacts ==
    ASSUME RecipesInv, NEW c \in Callers, pc[c] = "run", todo[c] # <<>>, tx[c] # "ended",
           Head1(c).phase \in {"parent", "delete", "child", "grand"}
    PROVE  \E k \in Calls : /\ call[c] = {k} /\ It(c) = k /\ Making(c, k) /\ k.kind = "nested"
                            /\ k.tx => tx[c] = "open" /\ Progress(c, k, pend[c].ins)
                                       /\ NestedProgress(c, k, "tx", pend[c].ins)
                            /\ ~k.tx => tx[c] = "none" /\ Progress(c, k, Mine(c))
                                        /\ NestedProgress(c, k, "db", Mine(c))
<1>1. PICK k \in Calls : call[c] = {k} /\ It(c) = k /\ Making(c, k)
  BY Begun
<1>2. Running1(c, k)
  BY <1>1 DEF Making
<1>3. CASE k.tx
  <2>1. tx[c] = "open" /\ Progress(c, k, pend[c].ins)
    BY <1>2, <1>3 DEF Running1
  <2>2. k.kind = "nested"
    BY <2>1, PhaseKinds
  <2>3. NestedProgress(c, k, "tx", pend[c].ins)
    BY <1>3, <2>1, <2>2 DEF Progress, Dest
  <2>4. QED
    BY <1>1, <1>3, <2>1, <2>2, <2>3
<1>4. CASE ~k.tx
  <2>1. tx[c] = "none" /\ Progress(c, k, Mine(c))
    BY <1>2, <1>4 DEF Running1
  <2>2. k.kind = "nested"
    BY <2>1, PhaseKinds
  <2>3. NestedProgress(c, k, "db", Mine(c))
    BY <1>4, <2>1, <2>2 DEF Progress, Dest
  <2>4. QED
    BY <1>1, <1>4, <2>1, <2>2, <2>3
<1>5. QED
  BY <1>3, <1>4

(* A transaction the context has ended takes no statement                  *)
LEMMA EndedTakesNothing ==
    ASSUME RecipesInv, NEW c \in Callers, pc[c] = "run", todo[c] # <<>>, tx[c] = "ended"
    PROVE  Head1(c).dest = "tx" /\ Dest(It(c)) = "tx"
<1>1. PICK k \in Calls : call[c] = {k} /\ It(c) = k /\ Making(c, k)
  BY Begun
<1>2. k.tx /\ OnTx(c)
  BY <1>1 DEF Making, Running1
<1>3. QED
  BY <1>1, <1>2 DEF OnTx, Dest

LEMMA NestedRows ==
    ASSUME NEW c, NEW k, NEW dest, NEW rows, NestedProgress(c, k, dest, rows)'
    PROVE  Keys("main", rows) = {}
<1>1. \A r \in rows : r \in Parent(c, k) \/ r.t \in {"child", "grand"}
  BY RowFields DEF NestedProgress, Parent, Child, Grand
<1>2. \A r \in Parent(c, k) : r.t = "parent"
  BY RowFields DEF Parent
<1>3. QED
  BY <1>1, <1>2 DEF Keys

(* No other caller's plan or memory changes                                *)
OwnPlan(c) == \A d : d # c => todo'[d] = todo[d] /\ children'[d] = children[d] /\ ids'[d] = ids[d]

LEMMA NestedInTx ==
    ASSUME RecipesInv, NEW c \in Callers, NEW k \in Calls, call[c] = {k}, It(c) = k, Making(c, k), pc[c] = "run",
           k.kind = "nested", k.tx, NEW ins, NEW del, Write(c, "tx", ins, del), Same(c), OwnPlan(c),
           NEW new, new = pend'[c].ins, NestedProgress(c, k, "tx", new)',
           Keys("main", del) = {}, Keys("parent", ins) # {} => ~LockedByOther(c, "parent"),
           ParentsFirst => StaysCleared(c)
    PROVE  (\A d \in Callers : CallerOK(d))' /\ Shared'
<1>1. /\ tx[c] = "open" /\ UNCHANGED <<table, ever>>
      /\ pend'[c].ins = (pend[c].ins \ del) \cup ins
      /\ pend'[c].del = pend[c].del \cup (del \cap table)
      /\ \A d : d # c => pend'[d] = pend[d]
  BY WriteInTx
<1>2. OnlyMoves(c)
  BY <1>1, MineSame DEF OnlyMoves, Still, OwnPlan, Same
<1>3. Progress(c, k, new)'
  BY DEF Progress, Dest
<1>4. Keys("main", pend'[c].ins) = {}
  BY NestedRows
<1>5. Keys("parent", pend'[c].ins) # {} => Keys("parent", pend[c].ins) # {} \/ Keys("parent", ins) # {}
  BY <1>1 DEF Keys
<1>6. KeepsLocks(c)
  BY <1>4, <1>5 DEF KeepsLocks
<1>7. Keys("main", pend'[c].del) = {}
  BY <1>1 DEF Keys, Making, Running1
<1>8. QED
  BY <1>1, <1>2, <1>3, <1>6, <1>7, PendingStep

LEMMA NestedOnDatabase ==
    ASSUME RecipesInv, NEW c \in Callers, NEW k \in Calls, call[c] = {k}, It(c) = k, Making(c, k), pc[c] = "run",
           k.kind = "nested", ~k.tx, NEW ins, NEW del, Write(c, "db", ins, del), Same(c), OwnPlan(c),
           \A r \in ins : r.by = c /\ r.t # "main", Keys("main", del) = {},
           NEW new, new = Mine(c) \cup ins, NestedProgress(c, k, "db", new)'
    PROVE  (\A d \in Callers : CallerOK(d))' /\ Shared'
<1>1. table' = (table \ del) \cup ins /\ ever' = ever \cup ins /\ UNCHANGED pend
  BY DEF Write
<1>2. Mine(c)' = new /\ \A d : d # c => Mine(d)' = Mine(d)
  BY <1>1, MineGrows
<1>3. OnlyMoves(c)
  BY <1>1, <1>2 DEF OnlyMoves, Still, OwnPlan, Same
<1>4. Progress(c, k, new)'
  BY DEF Progress, Dest
<1>5. Keys("main", new) = {}
  BY NestedRows
<1>6. Keys("main", table') = Keys("main", table)
  BY <1>1 DEF Keys
<1>7. QED
  BY <1>1, <1>2, <1>3, <1>4, <1>5, <1>6, DirectStep

LEMMA WriteParentStep ==
    ASSUME RecipesInv, NEW c \in Callers, WriteParent(c)
    PROVE  (\A d \in Callers : CallerOK(d))' /\ Shared'
<1>1. PICK row : row = Row("parent", 0, 0, c)
  OBVIOUS
<1>2. PICK del : del = Keys("parent", Visible(c))
  OBVIOUS
<1>3. /\ Write(c, Head1(c).dest, {row}, del) /\ Advance(c) /\ Same(c) /\ UNCHANGED <<children, ids, nextId>>
      /\ pc[c] = "run" /\ todo[c] # <<>> /\ Head1(c).phase = "parent" /\ ~LockedByOther(c, "parent")
  BY <1>1, <1>2 DEF WriteParent, Running
<1>4. tx[c] # "ended"
  BY <1>3, EndedTakesNothing DEF Write
<1>5. PICK k \in Calls : /\ call[c] = {k} /\ It(c) = k /\ Making(c, k) /\ k.kind = "nested"
                         /\ k.tx => tx[c] = "open" /\ NestedProgress(c, k, "tx", pend[c].ins)
                         /\ ~k.tx => NestedProgress(c, k, "db", Mine(c))
  BY <1>3, <1>4, NestedFacts
<1>6. todo'[c] = Tail(todo[c]) /\ OwnPlan(c) /\ children'[c] = children[c] /\ ids'[c] = ids[c]
  BY <1>3 DEF Advance, RecipesInv, Maps, OwnPlan
<1>7. row.t = "parent" /\ row.by = c /\ Keys("main", del) = {}
  BY <1>1, <1>2, RowFields DEF Keys
<1>8. CASE k.tx
  <2>1. PICK rows : rows = pend[c].ins
    OBVIOUS
  <2>2. /\ Head1(c).dest = "tx" /\ rows = {} /\ ~(Len(todo'[c]) <= 3)
        /\ NestedProgress(c, k, "tx", {Row("parent", 0, 0, c)})'
    <3>1. NestedProgress(c, k, "tx", rows)
      BY <1>5, <1>8, <2>1
    <3>2. QED
      BY <1>3, <1>6, <3>1, ParentAdvance
  <2>3. Write(c, "tx", {row}, del)
    BY <1>3, <2>2
  <2>4. pend'[c].ins = {row}
    <3>1. pend'[c].ins = (rows \ del) \cup {row}
      BY <2>1, <2>3, WriteInTx
    <3>2. QED
      BY <2>2, <3>1
  <2>5. StaysCleared(c)
    BY <2>2 DEF StaysCleared
  <2>6. QED
    BY <1>1, <1>3, <1>5, <1>6, <1>7, <1>8, <2>2, <2>3, <2>4, <2>5, NestedInTx
<1>9. CASE ~k.tx
  <2>1. PICK rows : rows = Mine(c)
    OBVIOUS
  <2>2. Head1(c).dest = "db" /\ rows = {} /\ NestedProgress(c, k, "db", {Row("parent", 0, 0, c)})'
    <3>1. NestedProgress(c, k, "db", rows)
      BY <1>5, <1>9, <2>1
    <3>2. QED
      BY <1>3, <1>6, <3>1, ParentAdvance
  <2>3. Write(c, "db", {row}, del)
    BY <1>3, <2>2
  <2>4. {row} = Mine(c) \cup {row}
    BY <2>1, <2>2
  <2>5. QED
    BY <1>1, <1>3, <1>5, <1>6, <1>7, <1>9, <2>2, <2>3, <2>4, NestedOnDatabase
<1>10. QED
  BY <1>8, <1>9

(* DeleteBefore empties the collection and, under a scope, plans the       *)
(* children again                                                          *)
LEMMA DeleteChildrenStep ==
    ASSUME RecipesInv, NEW c \in Callers, DeleteChildren(c)
    PROVE  (\A d \in Callers : CallerOK(d))' /\ Shared'
<1>1. PICK del : del = Keys("child", Visible(c)) \cup Keys("grand", Visible(c))
  OBVIOUS
<1>2. PICK dest : dest = IF It(c).scoped THEN Dest(It(c)) ELSE Head1(c).dest
  OBVIOUS
<1>3. /\ Write(c, dest, {}, del) /\ Same(c) /\ UNCHANGED <<ids, nextId>>
      /\ pc[c] = "run" /\ todo[c] # <<>> /\ Head1(c).phase = "delete" /\ ~LockedByOther(c, "child")
  BY <1>1, <1>2 DEF DeleteChildren, Running
<1>4. tx[c] # "ended"
  BY <1>2, <1>3, EndedTakesNothing DEF Write
<1>5. PICK k \in Calls : /\ call[c] = {k} /\ It(c) = k /\ Making(c, k) /\ k.kind = "nested"
                         /\ k.tx => tx[c] = "open" /\ NestedProgress(c, k, "tx", pend[c].ins)
                         /\ ~k.tx => NestedProgress(c, k, "db", Mine(c))
  BY <1>3, <1>4, NestedFacts
<1>6. PICK v : v = IF k.scoped THEN [j \in DOMAIN children[c] |-> children[c][j] + 10] ELSE children[c]
  OBVIOUS
<1>7. /\ children' = [children EXCEPT ![c] = v]
      /\ todo' = [todo EXCEPT ![c] = Replanned(k, Tail(todo[c]), v)]
  BY <1>5, <1>6, Zenon DEF DeleteChildren
<1>8. /\ children'[c] = v /\ todo'[c] = Replanned(k, Tail(todo[c]), children'[c]) /\ ids'[c] = ids[c]
      /\ OwnPlan(c)
  BY <1>3, <1>7 DEF RecipesInv, Maps, OwnPlan
<1>9. Keys("main", del) = {} /\ Keys("parent", del) = {}
  BY <1>1 DEF Keys
<1>10. \A r \in Parent(c, k) : r.t = "parent"
  BY RowFields DEF Parent
<1>11. CASE k.tx
  <2>1. PICK rows : rows = pend[c].ins
    OBVIOUS
  <2>2. Dest(k) = "tx" /\ NestedProgress(c, k, "tx", rows)
    BY <1>5, <1>11, <2>1 DEF Dest
  <2>3. Head1(c).dest = "tx" /\ rows = Parent(c, k) /\ NestedProgress(c, k, "tx", Parent(c, k))'
    BY <1>3, <1>6, <1>8, <2>2, DeleteAdvance
  <2>4. Write(c, "tx", {}, del)
    BY <1>2, <1>3, <1>5, <2>2, <2>3
  <2>5. pend'[c].ins = (pend[c].ins \ del) \cup {} /\ pend'[c].del = pend[c].del \cup (del \cap table)
    BY <2>4, WriteInTx
  <2>6. pend'[c].ins = Parent(c, k)
    BY <1>1, <1>10, <2>1, <2>3, <2>5 DEF Keys
  <2>7. Keys("child", table) \subseteq pend'[c].del
    BY <1>1, <2>5 DEF Keys, Visible
  <2>8. NestedProgress(c, k, "tx", pend[c].ins)'
    BY <2>3, <2>6 DEF Parent
  <2>9. PICK new : new = pend'[c].ins
    OBVIOUS
  <2>10. NestedProgress(c, k, "tx", new)'
    BY <2>8, <2>9
  <2>11. Keys("parent", {}) = {} /\ StaysCleared(c)
    BY <2>7 DEF Keys, StaysCleared
  <2>12. QED
    BY <1>3, <1>5, <1>8, <1>9, <1>11, <2>4, <2>9, <2>10, <2>11, NestedInTx
<1>12. CASE ~k.tx
  <2>1. PICK rows : rows = Mine(c)
    OBVIOUS
  <2>2. Dest(k) = "db" /\ NestedProgress(c, k, "db", rows)
    BY <1>5, <1>12, <2>1 DEF Dest
  <2>3. Head1(c).dest = "db" /\ rows = Parent(c, k) /\ NestedProgress(c, k, "db", Parent(c, k))'
    BY <1>3, <1>6, <1>8, <2>2, DeleteAdvance
  <2>4. Write(c, "db", {}, del)
    BY <1>2, <1>3, <1>5, <2>2, <2>3
  <2>5. PICK new : new = Mine(c) \cup {}
    OBVIOUS
  <2>6. new = Parent(c, k)
    BY <2>1, <2>3, <2>5
  <2>7. NestedProgress(c, k, "db", new)'
    BY <2>3, <2>6 DEF Parent
  <2>8. QED
    BY <1>3, <1>5, <1>8, <1>9, <1>12, <2>4, <2>5, <2>7, NestedOnDatabase
<1>13. QED
  BY <1>11, <1>12

(* After the deletes, what is cleared stays so                             *)
LEMMA StillCleared ==
    ASSUME RecipesInv, NEW c \in Callers, pc[c] = "run", tx[c] = "open", It(c).kind = "nested", Len(todo[c]) <= 3,
           UNCHANGED table, pend[c].del \subseteq pend'[c].del
    PROVE  ParentsFirst => StaysCleared(c)
BY DEF StaysCleared, RecipesInv, CollectionOK, Cleared

LEMMA InsertChildStep ==
    ASSUME RecipesInv, NEW c \in Callers, InsertChild(c)
    PROVE  (\A d \in Callers : CallerOK(d))' /\ Shared'
<1>1. PICK ins : ins = {Row("child", Head1(c).val, nextId, c)}
  OBVIOUS
<1>2. /\ Write(c, Head1(c).dest, ins, {}) /\ Advance(c) /\ Same(c) /\ UNCHANGED children
      /\ pc[c] = "run" /\ todo[c] # <<>> /\ Head1(c).phase = "child"
  BY <1>1 DEF InsertChild, Running
<1>3. tx[c] # "ended"
  BY <1>2, EndedTakesNothing DEF Write
<1>4. PICK k \in Calls : /\ call[c] = {k} /\ It(c) = k /\ Making(c, k) /\ k.kind = "nested"
                         /\ k.tx => tx[c] = "open" /\ NestedProgress(c, k, "tx", pend[c].ins)
                         /\ ~k.tx => NestedProgress(c, k, "db", Mine(c))
  BY <1>2, <1>3, NestedFacts
<1>5. /\ todo'[c] = Tail(todo[c]) /\ children'[c] = children[c] /\ ids'[c] = Append(ids[c], nextId)
      /\ OwnPlan(c)
  BY <1>2 DEF Advance, InsertChild, Collect, RecipesInv, Maps, OwnPlan
<1>6. \A r \in ins : r.by = c /\ r.t = "child"
  BY <1>1, RowFields
<1>7. Keys("main", {}) = {} /\ Keys("parent", ins) = {} /\ \A r \in ins : r.by = c /\ r.t # "main"
  BY <1>6 DEF Keys
<1>8. CASE k.tx
  <2>1. PICK rows : rows = pend[c].ins
    OBVIOUS
  <2>2. PICK new : new = rows \cup {Row("child", Head1(c).val, nextId, c)}
    OBVIOUS
  <2>3. NestedProgress(c, k, "tx", rows)
    BY <1>4, <1>8, <2>1
  <2>4. Head1(c).dest = "tx" /\ NestedProgress(c, k, "tx", new)' /\ Len(todo[c]) <= 3
    BY <1>2, <1>5, <2>2, <2>3, ChildAdvance
  <2>5. Write(c, "tx", ins, {})
    BY <1>2, <2>4
  <2>6. /\ pend'[c].ins = (pend[c].ins \ {}) \cup ins /\ pend'[c].del = pend[c].del \cup ({} \cap table)
        /\ UNCHANGED table /\ tx[c] = "open"
    BY <2>5, WriteInTx
  <2>7. new = pend'[c].ins
    BY <1>1, <2>1, <2>2, <2>6
  <2>8. ParentsFirst => StaysCleared(c)
    BY <1>2, <1>4, <2>4, <2>6, StillCleared
  <2>9. QED
    BY <1>2, <1>4, <1>5, <1>7, <1>8, <2>4, <2>5, <2>7, <2>8, NestedInTx
<1>9. CASE ~k.tx
  <2>1. PICK rows : rows = Mine(c)
    OBVIOUS
  <2>2. PICK new : new = rows \cup {Row("child", Head1(c).val, nextId, c)}
    OBVIOUS
  <2>3. NestedProgress(c, k, "db", rows)
    BY <1>4, <1>9, <2>1
  <2>4. Head1(c).dest = "db" /\ NestedProgress(c, k, "db", new)'
    BY <1>2, <1>5, <2>2, <2>3, ChildAdvance, ZenonT(60)
  <2>5. Write(c, "db", ins, {}) /\ new = Mine(c) \cup ins
    BY <1>1, <1>2, <2>1, <2>2, <2>4
  <2>6. QED
    BY <1>2, <1>4, <1>5, <1>7, <1>9, <2>4, <2>5, NestedOnDatabase
<1>10. QED
  BY <1>8, <1>9

LEMMA InsertGrandchildrenStep ==
    ASSUME RecipesInv, NEW c \in Callers, InsertGrandchildren(c)
    PROVE  (\A d \in Callers : CallerOK(d))' /\ Shared'
<1>1. PICK ins : ins = {Row("grand", children[c][i], ids[c][i], c) : i \in DOMAIN children[c]}
  OBVIOUS
<1>2. /\ Write(c, Head1(c).dest, ins, {}) /\ Advance(c) /\ Same(c) /\ UNCHANGED <<children, ids>>
      /\ pc[c] = "run" /\ todo[c] # <<>> /\ Head1(c).phase = "grand"
  BY <1>1 DEF InsertGrandchildren, Running
<1>3. tx[c] # "ended"
  BY <1>2, EndedTakesNothing DEF Write
<1>4. PICK k \in Calls : /\ call[c] = {k} /\ It(c) = k /\ Making(c, k) /\ k.kind = "nested"
                         /\ k.tx => tx[c] = "open" /\ NestedProgress(c, k, "tx", pend[c].ins)
                         /\ ~k.tx => NestedProgress(c, k, "db", Mine(c))
  BY <1>2, <1>3, NestedFacts
<1>5. todo'[c] = Tail(todo[c]) /\ children'[c] = children[c] /\ ids'[c] = ids[c] /\ OwnPlan(c)
  BY <1>2 DEF Advance, RecipesInv, Maps, OwnPlan
<1>6. \A r \in ins : r.by = c /\ r.t = "grand"
  BY <1>1, RowFields
<1>7. Keys("main", {}) = {} /\ Keys("parent", ins) = {} /\ \A r \in ins : r.by = c /\ r.t # "main"
  BY <1>6 DEF Keys
<1>8. CASE k.tx
  <2>1. PICK rows : rows = pend[c].ins
    OBVIOUS
  <2>2. PICK new : new = rows \cup {Row("grand", children[c][i], ids[c][i], c) : i \in DOMAIN children[c]}
    OBVIOUS
  <2>3. NestedProgress(c, k, "tx", rows)
    BY <1>4, <1>8, <2>1
  <2>4. Head1(c).dest = "tx" /\ NestedProgress(c, k, "tx", new)' /\ Len(todo[c]) <= 3
    BY <1>2, <1>5, <2>2, <2>3, GrandAdvance
  <2>5. Write(c, "tx", ins, {})
    BY <1>2, <2>4
  <2>6. /\ pend'[c].ins = (pend[c].ins \ {}) \cup ins /\ pend'[c].del = pend[c].del \cup ({} \cap table)
        /\ UNCHANGED table /\ tx[c] = "open"
    BY <2>5, WriteInTx
  <2>7. new = pend'[c].ins
    BY <1>1, <2>1, <2>2, <2>6
  <2>8. ParentsFirst => StaysCleared(c)
    BY <1>2, <1>4, <2>4, <2>6, StillCleared
  <2>9. QED
    BY <1>2, <1>4, <1>5, <1>7, <1>8, <2>4, <2>5, <2>7, <2>8, NestedInTx
<1>9. CASE ~k.tx
  <2>1. PICK rows : rows = Mine(c)
    OBVIOUS
  <2>2. PICK new : new = rows \cup {Row("grand", children[c][i], ids[c][i], c) : i \in DOMAIN children[c]}
    OBVIOUS
  <2>3. NestedProgress(c, k, "db", rows)
    BY <1>4, <1>9, <2>1
  <2>4. Head1(c).dest = "db" /\ NestedProgress(c, k, "db", new)'
    BY <1>2, <1>5, <2>2, <2>3, GrandAdvance
  <2>5. Write(c, "db", ins, {}) /\ new = Mine(c) \cup ins
    BY <1>1, <1>2, <2>1, <2>2, <2>4
  <2>6. QED
    BY <1>2, <1>4, <1>5, <1>7, <1>9, <2>4, <2>5, NestedOnDatabase
<1>10. QED
  BY <1>8, <1>9

(* A step that leaves the collection as it is                              *)
LEMMA MovesNoChild ==
    ASSUME RecipesInv, NEW c \in Callers, OnlyMoves(c), KeepsCall(c),
           Keys("child", table') \subseteq Keys("child", table), tx'[c] # "open"
    PROVE  CollectionOK'
<1> SUFFICES ASSUME ParentsFirst' PROVE OneOwner' /\ Cleared'
  BY DEF CollectionOK
<1>1. ParentsFirst
  BY StillFirst
<1>2. OneOwner'
  BY <1>1 DEF RecipesInv, CollectionOK, OneOwner
<1>3. ASSUME NEW d \in Callers,
             (pc[d] = "run" /\ tx[d] = "open" /\ It(d).kind = "nested" /\ Len(todo[d]) <= 3)'
      PROVE  Keys("child", table)' \subseteq pend'[d].del
  <2>1. Still(d)
    BY <1>3 DEF OnlyMoves
  <2>2. pc[d] = "run" /\ tx[d] = "open" /\ It(d).kind = "nested" /\ Len(todo[d]) <= 3
    BY <1>3, <2>1 DEF Still, It
  <2>3. QED
    BY <1>1, <2>1, <2>2 DEF Still, RecipesInv, CollectionOK, Cleared
<1>4. QED
  BY <1>2, <1>3 DEF Cleared

(* A statement that is refused by the key it wants runs a lookup; one that *)
(* is not has written the only row of the key                              *)
LEMMA InsertOnceStep ==
    ASSUME RecipesInv, NEW c \in Callers, InsertOnce(c)
    PROVE  (\A d \in Callers : CallerOK(d))' /\ Shared'
<1>1. PICK k \in Calls : call[c] = {k} /\ It(c) = k /\ Making(c, k)
  BY Begun DEF InsertOnce, Running
<1>2. pc[c] = "run" /\ todo[c] # <<>> /\ Head1(c).phase = "once" /\ ~LockedByOther(c, "main")
  BY DEF InsertOnce, Running
<1>3. ~k.tx /\ tx[c] = "none" /\ Progress(c, k, Mine(c)) /\ ret[c] = Nothing
  BY <1>1, <1>2 DEF Making, Running1, OnTx
<1>4. k.kind = "once" /\ Mine(c) = {}
  BY <1>2, <1>3, PhaseKinds
<1>5. pend[c] = NoWrites
  BY <1>3 DEF RecipesInv, CallerOK
<1>6. UNCHANGED <<call, children, ids, cause, tx, ctx, nextId, purges>> /\ Advance(c)
  BY DEF InsertOnce
<1>7. KeepsCall(c) /\ call'[c] = {k} /\ tx'[c] = "none"
  BY <1>1, <1>3, <1>6 DEF KeepsCall
<1>8. CASE Keys("main", table) = {}
  <2>1. Write(c, "db", {Main(c)}, {}) /\ Return(c, "applied", {Main(c)})
    BY <1>8 DEF InsertOnce, Main
  <2>2. /\ table' = (table \ {}) \cup {Main(c)} /\ ever' = ever \cup {Main(c)} /\ UNCHANGED pend
        /\ pc'[c] = "done" /\ ret'[c].kind = "applied"
    BY <2>1 DEF Write, Return, Goto, RecipesInv, Maps
  <2>3. \A r \in {Main(c)} : r.by = c /\ r.t = "main"
    BY RowFields DEF Main
  <2>4. Mine(c)' = Mine(c) \cup {Main(c)} /\ \A d : d # c => Mine(d)' = Mine(d)
    <3>1. PICK new : new = {Main(c)}
      OBVIOUS
    <3>2. (\A r \in new : r.by = c) /\ ever' = ever \cup new
      BY <2>2, <2>3, <3>1
    <3>3. QED
      BY <3>1, <3>2, MineGrows
  <2>5. Mine(c)' = {Main(c)}
    BY <1>4, <2>4
  <2>6. OnlyMoves(c)
    BY <1>6, <2>1, <2>2, <2>4 DEF OnlyMoves, Still, Advance, Return, Goto, RecipesInv, Maps
  <2>7. Fits(Mine(c))' /\ Held(c)'
    BY <2>3, <2>5 DEF Fits, Held
  <2>8. Done(c, k)'
    BY <1>3, <2>5 DEF Done, Main
  <2>9. CallerOK(c)'
    BY <1>5, <1>7, <2>2, <2>7, <2>8 DEF CallerOK, Making, Labels
  <2>10. \A d \in Callers : Keys("main", pend'[d].ins) = {}
    BY <1>2, <1>5, <2>2, Unlocked, NoWritesFields DEF Keys
  <2>11. KeyIsLocked'
    BY <2>10 DEF KeyIsLocked
  <2>12. Winners' = Winners \cup {c} /\ Keys("main", table') # {}
    BY <2>2, <2>3, <2>4, <2>5 DEF Winners, Keys
  <2>13. WinnersAreCounted'
    <3>1. IsFiniteSet(Winners) /\ Cardinality(Winners) <= purges /\ purges \in Nat
      BY <1>8 DEF RecipesInv, WinnersAreCounted, TypesOK
    <3>2. IsFiniteSet(Winners \cup {c}) /\ Cardinality(Winners \cup {c}) <= purges + 1
      BY <3>1, OneMore
    <3>3. IsFiniteSet(Winners') /\ Cardinality(Winners') <= purges' + 1
      BY <1>6, <2>12, <3>2
    <3>4. QED
      BY <2>12, <3>3 DEF WinnersAreCounted
  <2>14. ExistingIsAnothers'
    BY <2>2, <2>6 DEF ExistingIsAnothers, RecipesInv, OnlyMoves, Still
  <2>15. ParentIsLocked'
    BY <2>2 DEF ParentIsLocked, RecipesInv
  <2>16. Keys("child", table') = Keys("child", table)
    BY <2>2, <2>3 DEF Keys
  <2>17. CollectionOK'
    BY <1>7, <2>2, <2>6, <2>16, MovesNoChild
  <2>18. QED
    BY <2>6, <2>9, <2>11, <2>13, <2>14, <2>15, <2>17, OthersOK DEF Shared
<1>9. CASE Keys("main", table) # {}
  <2>1. Goto(c, "oncelookup") /\ UNCHANGED <<ret, table, ever, pend>>
    BY <1>9 DEF InsertOnce
  <2>2. pc'[c] = "oncelookup" /\ Mine(c)' = {} /\ pend'[c] = NoWrites /\ ret'[c] = Nothing
    BY <1>3, <1>4, <1>5, <2>1, MineSame DEF Goto, RecipesInv, Maps
  <2>3. OnlyMoves(c)
    BY <1>6, <2>1, MineSame DEF OnlyMoves, Still, Advance, Goto, RecipesInv, Maps
  <2>4. CallerOK(c)'
    BY <1>4, <1>7, <2>2 DEF CallerOK, Making, Labels, Fits, Held
  <2>5. AnswersTruly(c) /\ StaysCleared(c) /\ UNCHANGED <<dbVars, purges>>
    BY <1>6, <1>7, <2>1, OtherAnswers DEF StaysCleared, dbVars
  <2>6. QED
    BY <1>7, <2>3, <2>4, <2>5, ControlStep
<1>10. QED
  BY <1>8, <1>9

(***************************************************************************)
(* What a transaction wrote becomes durable                                *)
(***************************************************************************)

(* A plan carried out has written something, and a nested one that writes  *)
(* its parent has it                                                       *)
LEMMA DoneWrote ==
    ASSUME NEW c, NEW k \in Calls, k.tx, NEW rows, Progress(c, k, rows), todo[c] = <<>>
    PROVE  rows # {}
<1>1. CASE k.kind = "hooks"
  <2>1. MainProgress(c, rows)
    BY <1>1 DEF Progress
  <2>2. Main(c) \in rows
    BY <2>1 DEF MainProgress
  <2>3. QED
    BY <2>2
<1>2. CASE k.kind = "command"
  BY <1>2, SMTT(60) DEF Progress, CommandProgress
<1>3. CASE k.kind = "nested"
  <2>1. NestedProgress(c, k, "tx", rows)
    BY <1>3 DEF Progress, Dest
  <2>2. Grand(c, 1) \in rows
    BY <2>1 DEF NestedProgress
  <2>3. QED
    BY <2>2
<1>4. QED
  BY <1>1, <1>2, <1>3, CallKinds

LEMMA ParentWritten ==
    ASSUME NEW c, NEW k, k.parent, NEW dest, NEW rows, NestedProgress(c, k, dest, rows), Len(todo[c]) <= 3
    PROVE  Keys("parent", rows) # {}
<1>1. CASE todo[c] = <<Step("parent", 0, dest), Step("delete", 0, dest), Step("child", 1, dest),
                       Step("child", 2, dest), Step("grand", 0, dest)>>
  <2>1. Len(todo[c]) = 5
    BY <1>1
  <2>2. QED
    BY <2>1
<1>2. CASE Parent(c, k) \subseteq rows
  <2>1. Row("parent", 0, 0, c) \in rows
    BY <1>2 DEF Parent
  <2>2. QED
    BY <2>1, RowFields DEF Keys
<1>3. QED
  BY <1>1, <1>2 DEF NestedProgress

(* Of a nested write nothing of another table is the collection's          *)
LEMMA OnlyNestedChildren ==
    ASSUME NEW c, NEW k \in Calls, k.kind # "nested", NEW rows, Progress(c, k, rows)
    PROVE  Keys("child", rows) = {}
<1>1. rows \subseteq {Main(c), Hook(c, 1), Hook(c, 2)}
  BY CallKinds DEF Progress, MainProgress, CommandProgress
<1>2. QED
  BY <1>1, RowFields DEF Keys, Main, Hook

(* The one writer of the collection has locked the parent, so the others   *)
(* have not begun to replace it                                            *)
LEMMA DurableCollection ==
    ASSUME RecipesInv, NEW c \in Callers, NEW k \in Calls, call[c] = {k}, It(c) = k, k.tx, pc[c] = "run",
           tx[c] = "open", todo[c] = <<>>, NEW rows, rows = pend[c].ins, Progress(c, k, rows),
           \A r \in rows : r.by = c, table' = (table \ pend[c].del) \cup rows, call' = call, OnlyMoves(c),
           tx'[c] # "open"
    PROVE  CollectionOK'
<1>1. KeepsCall(c)
  BY DEF KeepsCall
<1>2. CASE k.kind # "nested"
  <2>1. Keys("child", rows) = {}
    BY <1>2, OnlyNestedChildren
  <2>2. Keys("child", table') \subseteq Keys("child", table)
    BY <2>1 DEF Keys
  <2>3. QED
    BY <1>1, <2>2, MovesNoChild
<1>3. CASE k.kind = "nested"
  <2> SUFFICES ASSUME ParentsFirst' PROVE OneOwner' /\ Cleared'
    BY DEF CollectionOK
  <2>1. ParentsFirst
    BY <1>1, StillFirst
  <2>2. Len(todo[c]) <= 3
    OBVIOUS
  <2>3. Keys("child", table) \subseteq pend[c].del
    BY <1>3, <2>1, <2>2 DEF RecipesInv, CollectionOK, Cleared
  <2>4. \A r \in Keys("child", table') : r.by = c
    BY <2>3 DEF Keys
  <2>5. OneOwner'
    BY <2>4 DEF OneOwner
  <2>6. k.parent /\ NestedProgress(c, k, "tx", rows)
    BY <1>3, <2>1 DEF ParentsFirst, Progress, Dest
  <2>7. Keys("parent", pend[c].ins) # {}
    BY <2>2, <2>6, ParentWritten
  <2>8. ASSUME NEW d \in Callers,
               (pc[d] = "run" /\ tx[d] = "open" /\ It(d).kind = "nested" /\ Len(todo[d]) <= 3)'
        PROVE  FALSE
    <3>1. d # c /\ Still(d)
      BY <2>8 DEF OnlyMoves
    <3>2. pc[d] = "run" /\ tx[d] = "open" /\ It(d).kind = "nested" /\ Len(todo[d]) <= 3
      BY <2>8, <3>1 DEF Still, It
    <3>3. PICK j \in Calls : call[d] = {j} /\ It(d) = j /\ j.tx /\ Progress(d, j, pend[d].ins)
      BY <3>2, OpenFacts
    <3>4. PICK others : others = pend[d].ins
      OBVIOUS
    <3>5. j.parent /\ NestedProgress(d, j, "tx", others)
      BY <2>1, <3>2, <3>3, <3>4 DEF ParentsFirst, Progress, Dest
    <3>6. Keys("parent", others) # {}
      BY <3>2, <3>5, ParentWritten
    <3>7. QED
      BY <2>7, <3>1, <3>4, <3>6 DEF RecipesInv, ParentIsLocked
  <2>9. QED
    BY <2>5, <2>8 DEF Cleared
<1>4. QED
  BY <1>2, <1>3

LEMMA DurableWinners ==
    ASSUME RecipesInv, NEW c \in Callers, NEW k \in Calls, k.tx, Running1(c, k), tx[c] = "open",
           NEW rows, rows = pend[c].ins, table' = (table \ pend[c].del) \cup rows, Mine(c)' = rows,
           OnlyMoves(c), purges' = purges
    PROVE  WinnersAreCounted'
<1>1. Mine(c) = {} /\ Keys("main", pend[c].del) = {}
  BY DEF Running1
<1>2. CASE Keys("main", rows) = {}
  <2>1. Winners' = Winners
    BY <1>1, <1>2 DEF Winners, OnlyMoves, Still, Keys
  <2>2. Keys("main", table') = Keys("main", table)
    BY <1>1, <1>2 DEF Keys
  <2>3. QED
    BY <2>1, <2>2, Zenon DEF WinnersAreCounted, RecipesInv
<1>3. CASE Keys("main", rows) # {}
  <2>1. Keys("main", table) = {}
    BY <1>3 DEF RecipesInv, KeyIsLocked
  <2>2. Winners' = Winners \cup {c} /\ Keys("main", table') # {}
    BY <1>1, <1>3 DEF Winners, OnlyMoves, Still, Keys
  <2>3. IsFiniteSet(Winners) /\ Cardinality(Winners) <= purges /\ purges \in Nat
    BY <2>1 DEF RecipesInv, WinnersAreCounted, TypesOK
  <2>4. IsFiniteSet(Winners \cup {c}) /\ Cardinality(Winners \cup {c}) <= purges + 1
    BY <2>3, OneMore
  <2>5. IsFiniteSet(Winners') /\ Cardinality(Winners') <= purges' + 1
    BY <2>2, <2>4
  <2>6. QED
    BY <2>2, <2>5 DEF WinnersAreCounted
<1>4. QED
  BY <1>2, <1>3

(* The same rows say the same, whatever else of the call has moved         *)
LEMMA SameProgress ==
    ASSUME NEW c, NEW k, NEW rows, Progress(c, k, rows), todo'[c] = todo[c], children'[c] = children[c],
           ids'[c] = ids[c]
    PROVE  Progress(c, k, rows)'
BY DEF Progress, MainProgress, CommandProgress, NestedProgress, Child, Grand, Parent, Main, Hook

LEMMA CommitStep ==
    ASSUME RecipesInv, NEW c \in Callers, Commit(c)
    PROVE  (\A d \in Callers : CallerOK(d))' /\ Shared'
<1>1. PICK k \in Calls : call[c] = {k} /\ It(c) = k /\ Making(c, k)
  BY Begun DEF Commit
<1>2. /\ pc[c] = "run" /\ todo[c] = <<>> /\ k.tx /\ tx' = [tx EXCEPT ![c] = "ended"]
      /\ UNCHANGED <<call, todo, children, ids, cause, ctx, purges>>
  BY <1>1 DEF Commit
<1>3. /\ Running1(c, k) /\ Mine(c) = {} /\ ret[c] = Nothing /\ tx[c] \in {"open", "ended"}
      /\ tx[c] = "open" => Progress(c, k, pend[c].ins)
  BY <1>1, <1>2 DEF Making, Running1
<1>4. call'[c] = {k} /\ tx'[c] = "ended" /\ KeepsCall(c)
  BY <1>1, <1>2 DEF KeepsCall, RecipesInv, Maps
<1>5. CASE /\ pend' = [pend EXCEPT ![c] = NoWrites] /\ UNCHANGED <<table, ever, nextId>>
           /\ Return(c, "commit_error", {})
  <2>1. pc'[c] = "done" /\ ret'[c].kind = "commit_error" /\ pend'[c] = NoWrites
    BY <1>5 DEF Return, Goto, RecipesInv, Maps
  <2>2. OnlyMoves(c)
    BY <1>2, <1>5, MineSame DEF OnlyMoves, Still, Return, Goto, RecipesInv, Maps
  <2>3. Mine(c)' = {}
    BY <1>3, <1>5, MineSame
  <2>4. CallerOK(c)' /\ AnswersTruly(c)
    BY <1>4, <2>1, <2>3, EndsEmpty, OtherAnswers
  <2>5. QED
    BY <1>2, <1>4, <1>5, <2>1, <2>2, <2>4, DropStep
<1>6. ASSUME tx[c] # "ended", Durable(c), NEW kind \in {"applied", "commit_error"}, NEW answer,
             Return(c, kind, answer)
      PROVE  (\A d \in Callers : CallerOK(d))' /\ Shared'
  <2>1. pc'[c] = "done" /\ ret'[c].kind = kind
    BY <1>6 DEF Return, Goto, RecipesInv, Maps
  <2>2. tx[c] = "open" /\ Progress(c, k, pend[c].ins)
    BY <1>3, <1>6
  <2>3. PICK rows : rows = pend[c].ins
    OBVIOUS
  <2>4. Progress(c, k, rows) /\ Progress(c, k, rows)'
    BY <1>2, <2>2, <2>3, SameProgress
  <2>5. /\ table' = (table \ pend[c].del) \cup rows /\ ever' = ever \cup rows
        /\ pend' = [pend EXCEPT ![c] = NoWrites]
    BY <1>6, <2>3 DEF Durable
  <2>6. /\ Fits(rows)
        /\ \A r \in rows : r.by = c /\ (r.t = "child" => r.val \in Range(children'[c]))
    BY <2>4, ProgressFits
  <2>7. Mine(c)' = Mine(c) \cup rows /\ \A d : d # c => Mine(d)' = Mine(d)
    BY <2>5, <2>6, MineGrows
  <2>8. Mine(c)' = rows
    BY <1>3, <2>7
  <2>9. OnlyMoves(c)
    BY <1>2, <1>6, <2>5, <2>7 DEF OnlyMoves, Still, Return, Goto, RecipesInv, Maps
  <2>10. pend'[c] = NoWrites
    BY <2>5 DEF RecipesInv, Maps
  <2>11. rows # {} /\ k.kind # "once"
    BY <1>2, <2>4, DoneWrote, CallKinds
  <2>12. Done(c, k)'
    <3>1. (todo[c] = <<>>)' /\ Progress(c, k, Mine(c))'
      BY <1>2, <2>4, <2>8
    <3>2. ret'[c].kind \notin {"error", "conflict", "refused", "existing", "panicked"}
      BY <1>6, <2>1
    <3>3. QED
      BY <2>8, <2>11, <3>1, <3>2 DEF Done
  <2>13. Fits(Mine(c))' /\ Held(c)'
    BY <2>6, <2>8 DEF Fits, Held
  <2>14. CallerOK(c)'
    BY <1>4, <2>1, <2>10, <2>12, <2>13 DEF CallerOK, Making, Labels
  <2>15. Keys("main", pend'[c].ins) = {} /\ Keys("parent", pend'[c].ins) = {}
    BY <2>10, NoWritesFields DEF Keys
  <2>16. KeyIsLocked'
    <3>1. ASSUME NEW d \in Callers, d # c, Keys("main", pend'[d].ins) # {}
          PROVE  Keys("main", table') = {}
      <4>1. Keys("main", table) = {} /\ Keys("main", rows) = {}
        BY <2>3, <2>9, <3>1 DEF RecipesInv, KeyIsLocked, OnlyMoves, Still
      <4>2. QED
        BY <2>5, <4>1 DEF Keys
    <3>2. QED
      BY <2>9, <2>15, <3>1 DEF RecipesInv, KeyIsLocked, OnlyMoves, Still
  <2>17. WinnersAreCounted'
    BY <1>2, <1>3, <2>2, <2>3, <2>5, <2>8, <2>9, DurableWinners
  <2>18. ExistingIsAnothers'
    BY <1>6, <2>1, <2>5, <2>9 DEF ExistingIsAnothers, RecipesInv, OnlyMoves, Still
  <2>19. ParentIsLocked'
    BY <2>9, <2>15 DEF ParentIsLocked, RecipesInv, OnlyMoves, Still
  <2>20. CollectionOK'
    BY <1>1, <1>2, <1>4, <2>2, <2>3, <2>4, <2>5, <2>6, <2>9, DurableCollection
  <2>21. QED
    BY <2>9, <2>14, <2>16, <2>17, <2>18, <2>19, <2>20, OthersOK DEF Shared
<1>7. QED
  BY <1>5, <1>6 DEF Commit

(* Another session deletes the key's row: nobody is about to write it      *)
LEMMA PurgeStep ==
    ASSUME RecipesInv, Purge
    PROVE  (\A d \in Callers : CallerOK(d))' /\ Shared'
<1>1. \A d \in Callers : Still(d)
  BY MineSame DEF Purge, Still, callVars
<1>2. (\A d \in Callers : CallerOK(d))'
  BY <1>1, StillCaller DEF RecipesInv
<1>3. /\ Keys("main", table) # {} /\ table' = table \ Keys("main", table) /\ purges' = purges + 1
      /\ UNCHANGED <<call, pc, todo, ret, tx, pend, ever>>
  BY DEF Purge, callVars
<1>4. KeyIsLocked'
  BY <1>3 DEF KeyIsLocked, RecipesInv
<1>5. WinnersAreCounted'
  <2>1. IsFiniteSet(Winners) /\ Cardinality(Winners) <= purges + 1
    BY <1>3 DEF RecipesInv, WinnersAreCounted
  <2>2. Winners' = Winners
    BY <1>3 DEF Winners, Mine
  <2>3. Keys("main", table') = {}
    BY <1>3 DEF Keys
  <2>4. purges' \in Nat
    BY <1>3 DEF RecipesInv, TypesOK
  <2>5. IsFiniteSet(Winners') /\ Cardinality(Winners') <= purges' + 0
    BY <1>3, <2>1, <2>2, <2>4
  <2>6. QED
    BY <2>3, <2>5, Zenon DEF WinnersAreCounted
<1>6. ExistingIsAnothers'
  BY <1>3 DEF ExistingIsAnothers, RecipesInv
<1>7. ParentIsLocked'
  BY <1>3 DEF ParentIsLocked, RecipesInv
<1>8. Keys("child", table') \subseteq Keys("child", table)
  BY <1>3 DEF Keys
<1>9. CollectionOK'
  <2>1. ParentsFirst' <=> ParentsFirst
    BY <1>3 DEF ParentsFirst, It
  <2>2. OneOwner => OneOwner'
    BY <1>8 DEF OneOwner
  <2>3. Cleared => Cleared'
    BY <1>3, <1>8 DEF Cleared, It
  <2>4. QED
    BY <2>1, <2>2, <2>3 DEF CollectionOK, RecipesInv
<1>10. QED
  BY <1>2, <1>4, <1>5, <1>6, <1>7, <1>9 DEF Shared

(***************************************************************************)
(* The invariant                                                           *)
(***************************************************************************)

LEMMA RecipesInitially ==
    ASSUME RecipesInit
    PROVE  RecipesInv
<1>1. Maps /\ TypesOK
  BY DEF RecipesInit, Maps, TypesOK
<1>2. ASSUME NEW c \in Callers PROVE Mine(c) = {}
  BY OldAssumption DEF RecipesInit, Mine
<1>3. ASSUME NEW c \in Callers PROVE CallerOK(c)
  BY <1>2 DEF RecipesInit, CallerOK, Unused, Labels, Fits, Held
<1>4. \A c \in Callers : pend[c].ins = {} /\ ret[c] = Nothing /\ pc[c] = "idle"
  BY NoWritesFields DEF RecipesInit
<1>5. KeyIsLocked /\ ParentIsLocked
  BY <1>4 DEF KeyIsLocked, ParentIsLocked, Keys
<1>6. WinnersAreCounted
  <2>1. Winners = {}
    BY <1>2 DEF Winners, Keys
  <2>2. IsFiniteSet(Winners) /\ Cardinality(Winners) = 0
    BY <2>1, FS_EmptySet
  <2>3. purges = 0
    BY DEF RecipesInit
  <2>4. QED
    BY <2>2, <2>3 DEF WinnersAreCounted
<1>7. ExistingIsAnothers
  BY <1>4 DEF ExistingIsAnothers, Nothing
<1>8. CollectionOK
  BY <1>4, OldAssumption DEF RecipesInit, CollectionOK, OneOwner, Cleared, Keys
<1>9. QED
  BY <1>1, <1>3, <1>5, <1>6, <1>7, <1>8 DEF RecipesInv

LEMMA MapsStep ==
    ASSUME RecipesInv, RecipesNext
    PROVE  Maps' /\ TypesOK'
<1>1. Maps /\ table \subseteq ever /\ purges \in Nat
  BY DEF RecipesInv, TypesOK
<1>2. CASE Purge
  BY <1>1, <1>2 DEF Purge, Maps, TypesOK, callVars
<1>3. ASSUME NEW c \in Callers,
             (\E k \in Calls : Start(c, k)) \/ Lookup(c) \/ Begin(c) \/ Rebind(c) \/ StepFails(c) \/ Panic(c)
             \/ Rollback(c) \/ Relookup(c) \/ NestedEnds(c) \/ OnceLookup(c) \/ ContextEnds(c) \/ AwaitDone(c)
      PROVE  Maps' /\ TypesOK'
  <2>1. UNCHANGED <<table, ever, purges>>
    BY <1>3 DEF Start, Lookup, Begin, Rebind, StepFails, Panic, Rollback, Relookup, NestedEnds, OnceLookup,
                ContextEnds, AwaitDone, dbVars
  <2>2. Maps'
    BY <1>1, <1>3 DEF Maps, Start, Lookup, Begin, BeginTx, Rebind, StepFails, Fail, Panic, Rollback, Relookup,
                      NestedEnds, OnceLookup, ContextEnds, AwaitDone, Return, Goto, dbVars, callVars
  <2>3. QED
    BY <1>1, <2>1, <2>2 DEF TypesOK
<1>4. ASSUME NEW c \in Callers, Commit(c)
      PROVE  Maps' /\ TypesOK'
  BY <1>1, <1>4 DEF Commit, Durable, Return, Goto, Maps, TypesOK
<1>5. ASSUME NEW c, NEW dest, NEW ins, NEW del, Write(c, dest, ins, del)
      PROVE  DOMAIN pend' = Callers /\ table' \subseteq ever'
  BY <1>1, <1>5 DEF Write, Maps
<1>6. ASSUME NEW c \in Callers, InsertMain(c)
      PROVE  Maps' /\ TypesOK'
  BY <1>1, <1>5, <1>6 DEF InsertMain, Fail, Return, Goto, Advance, Same, Maps, TypesOK
<1>7. ASSUME NEW c \in Callers, InsertHook(c) \/ WriteParent(c) \/ InsertGrandchildren(c)
      PROVE  Maps' /\ TypesOK'
  BY <1>1, <1>5, <1>7 DEF InsertHook, WriteParent, InsertGrandchildren, Advance, Same, Maps, TypesOK
<1>8. ASSUME NEW c \in Callers, DeleteChildren(c)
      PROVE  Maps' /\ TypesOK'
  BY <1>1, <1>5, <1>8 DEF DeleteChildren, Same, Maps, TypesOK
<1>9. ASSUME NEW c \in Callers, InsertChild(c)
      PROVE  Maps' /\ TypesOK'
  BY <1>1, <1>5, <1>9 DEF InsertChild, Advance, Same, Maps, TypesOK
<1>10. ASSUME NEW c \in Callers, InsertOnce(c)
       PROVE  Maps' /\ TypesOK'
  BY <1>1, <1>5, <1>10 DEF InsertOnce, Return, Goto, Advance, Maps, TypesOK
<1>11. QED
  BY <1>2, <1>3, <1>4, <1>6, <1>7, <1>8, <1>9, <1>10 DEF RecipesNext

LEMMA RecipesStep ==
    ASSUME RecipesInv, RecipesNext
    PROVE  RecipesInv'
<1>1. (\A d \in Callers : CallerOK(d))' /\ Shared'
  <2>1. ASSUME NEW c \in Callers, NEW k \in Calls, Start(c, k) PROVE (\A d \in Callers : CallerOK(d))' /\ Shared'
    BY <2>1, StartStep
  <2>2. ASSUME NEW c \in Callers, Lookup(c) \/ Begin(c) \/ Rebind(c) \/ StepFails(c) \/ Panic(c) \/ Rollback(c)
        PROVE  (\A d \in Callers : CallerOK(d))' /\ Shared'
    BY <2>2, LookupStep, BeginStep, RebindStep, StepFailsStep, PanicStep, RollbackStep
  <2>3. ASSUME NEW c \in Callers, Commit(c) \/ Relookup(c) \/ InsertMain(c) \/ InsertHook(c)
        PROVE  (\A d \in Callers : CallerOK(d))' /\ Shared'
    BY <2>3, CommitStep, RelookupStep, InsertMainStep, InsertHookStep
  <2>4. ASSUME NEW c \in Callers, WriteParent(c) \/ DeleteChildren(c) \/ InsertChild(c) \/ InsertGrandchildren(c)
        PROVE  (\A d \in Callers : CallerOK(d))' /\ Shared'
    BY <2>4, WriteParentStep, DeleteChildrenStep, InsertChildStep, InsertGrandchildrenStep
  <2>5. ASSUME NEW c \in Callers, NestedEnds(c) \/ InsertOnce(c) \/ OnceLookup(c) \/ ContextEnds(c) \/ AwaitDone(c)
        PROVE  (\A d \in Callers : CallerOK(d))' /\ Shared'
    BY <2>5, NestedEndsStep, InsertOnceStep, OnceLookupStep, ContextEndsStep, AwaitDoneStep
  <2>6. CASE Purge
    BY <2>6, PurgeStep
  <2>7. QED
    BY <2>1, <2>2, <2>3, <2>4, <2>5, <2>6 DEF RecipesNext
<1>2. QED
  BY <1>1, MapsStep DEF RecipesInv, Shared

LEMMA RecipesStutter ==
    ASSUME RecipesInv, UNCHANGED recipeVars
    PROVE  RecipesInv'
<1>1. \A d \in Callers : Still(d)
  BY MineSame DEF recipeVars, callVars, dbVars, Still
<1>2. (\A d \in Callers : CallerOK(d))'
  BY <1>1, StillCaller DEF RecipesInv
<1>3. UNCHANGED <<call, pc, todo, children, ids, tx, cause, ret, pend, ctx, table, ever, purges>>
  BY DEF recipeVars, callVars, dbVars
<1>4. Maps' /\ TypesOK' /\ KeyIsLocked' /\ ExistingIsAnothers' /\ ParentIsLocked'
  BY <1>3 DEF RecipesInv, Maps, TypesOK, KeyIsLocked, ExistingIsAnothers, ParentIsLocked
<1>5. WinnersAreCounted'
  BY <1>3 DEF RecipesInv, WinnersAreCounted, Winners, Mine
<1>6. CollectionOK'
  BY <1>3 DEF RecipesInv, CollectionOK, ParentsFirst, OneOwner, Cleared, It
<1>7. QED
  BY <1>2, <1>4, <1>5, <1>6 DEF RecipesInv

(* At every moment of every interleaving of the recipes: what a call has   *)
(* still to do says what it has written, and locks are held by one.        *)
THEOREM RecipesInvariant == RecipesSpec => []RecipesInv
<1>1. RecipesInv /\ [RecipesNext]_recipeVars => RecipesInv'
  BY RecipesStep, RecipesStutter
<1>2. RecipesInit => RecipesInv
  BY RecipesInitially
<1>3. QED
  BY <1>1, <1>2, PTL DEF RecipesSpec

(***************************************************************************)
(* What the invariant says of the recipes                                  *)
(***************************************************************************)

LEMMA PairOfTwo ==
    ASSUME NEW a, NEW b, a # b, NEW S, S = {a, b}
    PROVE  Cardinality(S) = 2
<1>1. IsFiniteSet({a}) /\ Cardinality({a}) = 1
  BY FS_Singleton
<1>2. Cardinality({a} \cup {b}) = IF b \in {a} THEN Cardinality({a}) ELSE Cardinality({a}) + 1
  BY <1>1, FS_AddElement, Zenon
<1>3. S = {a} \cup {b}
  OBVIOUS
<1>4. QED
  BY <1>1, <1>2, <1>3

LEMMA Ranges ==
    /\ \A a, b : Range(<<a, b>>) = {a, b}
    /\ \A a, b, x : Range(<<a, b, x>>) = {a, b, x}
    /\ \A a, b, x, y : Range(<<a, b, x, y>>) = {a, b, x, y}
    /\ \A a, b, x, y, z : Range(<<a, b, x, y, z>>) = {a, b, x, y, z}
BY DEF Range

(* A plan carried out leaves what a call of its kind is to leave           *)
LEMMA HooksWhole ==
    ASSUME NEW c, NEW k, It(c) = k, k.kind = "hooks", Progress(c, k, Mine(c)), todo[c] = <<>>
    PROVE  Whole(c)
<1>1. Mine(c) = {Main(c), Hook(c, 1), Hook(c, 2)}
  <2>1. MainProgress(c, Mine(c))
    BY DEF Progress
  <2>2. QED
    BY <2>1 DEF MainProgress
<1>2. Range(StepsOf(k, <<1, 2>>)) = {Step("main", 1, "tx"), Step("hook", 1, "tx"), Step("hook", 2, "tx")}
  BY Ranges DEF StepsOf
<1>3. PhasesOf(k) = {"main", "hook"}
  BY <1>2, StepFields DEF PhasesOf
<1>4. {r.t : r \in Mine(c)} = {"main", "hook"}
  BY <1>1, RowFields DEF Main, Hook
<1>5. Cardinality(Keys("hook", Mine(c))) = 2
  <2>1. PICK a, b : a = Hook(c, 1) /\ b = Hook(c, 2)
    OBVIOUS
  <2>2. Keys("hook", Mine(c)) = {a, b} /\ a # b
    BY <1>1, <2>1, RowFields DEF Keys, Main, Hook
  <2>3. QED
    BY <2>2, PairOfTwo, Zenon
<1>6. Cardinality({s \in Range(StepsOf(k, <<1, 2>>)) : s.phase = "hook"}) = 2
  <2>1. PICK a, b : a = Step("hook", 1, "tx") /\ b = Step("hook", 2, "tx")
    OBVIOUS
  <2>2. a # b /\ a.phase = "hook" /\ b.phase = "hook"
    BY <2>1, StepFields
  <2>3. PICK S : S = {s \in Range(StepsOf(k, <<1, 2>>)) : s.phase = "hook"}
    OBVIOUS
  <2>4. S = {a, b}
    BY <1>2, <2>1, <2>2, <2>3, StepFields
  <2>5. Cardinality(S) = 2
    BY <2>2, <2>4, PairOfTwo, Zenon
  <2>6. QED
    BY <2>3, <2>5
<1>7. QED
  BY <1>3, <1>4, <1>5, <1>6 DEF Whole

LEMMA CommandWhole ==
    ASSUME NEW c, NEW k, It(c) = k, k.kind = "command", Progress(c, k, Mine(c)), todo[c] = <<>>
    PROVE  Whole(c)
<1>1. Mine(c) = {Main(c), Hook(c, 1)}
  BY DEF Progress, CommandProgress
<1>2. Range(StepsOf(k, <<1, 2>>)) = {Step("main", 1, "tx"), Step("hook", 1, "tx")}
  BY Ranges DEF StepsOf
<1>3. PhasesOf(k) = {"main", "hook"}
  BY <1>2, StepFields DEF PhasesOf
<1>4. {r.t : r \in Mine(c)} = {"main", "hook"}
  BY <1>1, RowFields DEF Main, Hook
<1>5. Cardinality(Keys("hook", Mine(c))) = 1
  <2>1. Keys("hook", Mine(c)) = {Hook(c, 1)}
    BY <1>1, RowFields DEF Keys, Main, Hook
  <2>2. QED
    BY <2>1, FS_Singleton
<1>6. Cardinality({s \in Range(StepsOf(k, <<1, 2>>)) : s.phase = "hook"}) = 1
  <2>1. {s \in Range(StepsOf(k, <<1, 2>>)) : s.phase = "hook"} = {Step("hook", 1, "tx")}
    BY <1>2, StepFields
  <2>2. QED
    BY <2>1, FS_Singleton
<1>7. QED
  BY <1>3, <1>4, <1>5, <1>6 DEF Whole

LEMMA NestedWhole ==
    ASSUME NEW c, NEW k, It(c) = k, k.kind = "nested", Progress(c, k, Mine(c)), todo[c] = <<>>
    PROVE  Whole(c)
<1>1. NestedProgress(c, k, Dest(k), Mine(c))
  BY DEF Progress
<1>2. children[c] \in {<<1, 2>>, <<11, 12>>}
  BY <1>1 DEF NestedProgress
<1>3. Mine(c) = Parent(c, k) \cup {Child(c, 1), Child(c, 2)} \cup {Grand(c, 1), Grand(c, 2)}
  BY <1>1 DEF NestedProgress
<1>4. Child(c, 1) # Child(c, 2) /\ Grand(c, 1) # Grand(c, 2)
  BY <1>2, RowFields DEF Child, Grand
<1>5. \A r \in Parent(c, k) : r.t = "parent"
  BY RowFields DEF Parent
<1>6. /\ Keys("hook", Mine(c)) = {}
      /\ Keys("child", Mine(c)) = {Child(c, 1), Child(c, 2)}
      /\ Keys("grand", Mine(c)) = {Grand(c, 1), Grand(c, 2)}
  BY <1>3, <1>5, RowFields DEF Keys, Child, Grand
<1>7. Cardinality(Keys("child", Mine(c))) = 2 /\ Cardinality(Keys("grand", Mine(c))) = 2
  <2>1. PICK a, b : a = Child(c, 1) /\ b = Child(c, 2)
    OBVIOUS
  <2>2. PICK x, y : x = Grand(c, 1) /\ y = Grand(c, 2)
    OBVIOUS
  <2>3. Keys("child", Mine(c)) = {a, b} /\ a # b /\ Keys("grand", Mine(c)) = {x, y} /\ x # y
    BY <1>4, <1>6, <2>1, <2>2, Zenon
  <2>4. Cardinality(Keys("child", Mine(c))) = 2
    BY <2>3, PairOfTwo, Zenon
  <2>5. Cardinality(Keys("grand", Mine(c))) = 2
    BY <2>3, PairOfTwo, ZenonT(60)
  <2>6. QED
    BY <2>4, <2>5
<1>8. Range(StepsOf(k, <<1, 2>>)) =
          (IF k.parent THEN {Step("parent", 0, "db")} ELSE {})
          \cup {Step("delete", 0, "db"), Step("child", 1, "db"), Step("child", 2, "db"), Step("grand", 0, "db")}
  <2>1. StepsOf(k, <<1, 2>>) = NestedSteps(k, <<1, 2>>)
    BY DEF StepsOf
  <2>2. CASE k.parent
    BY <2>1, <2>2, NestedPlan, Ranges
  <2>3. CASE ~k.parent
    BY <2>1, <2>3, NestedPlan, Ranges
  <2>4. QED
    BY <2>2, <2>3
<1>9. {s \in Range(StepsOf(k, <<1, 2>>)) : s.phase = "hook"} = {}
  BY <1>8, StepFields
<1>10. PhasesOf(k) \ {"delete"} = (IF k.parent THEN {"parent"} ELSE {}) \cup {"child", "grand"}
  BY <1>8, StepFields DEF PhasesOf
<1>11. {r.t : r \in Mine(c)} = (IF k.parent THEN {"parent"} ELSE {}) \cup {"child", "grand"}
  BY <1>3, RowFields, SMTT(30) DEF Parent, Child, Grand
<1>12. QED
  BY <1>6, <1>7, <1>9, <1>10, <1>11 DEF Whole

LEMMA CallerIsWhole ==
    ASSUME RecipesInv, NEW c \in Callers, call[c] # {}, It(c).tx
    PROVE  /\ Mine(c) = {} \/ Whole(c)
           /\ ret[c].kind = "applied" => Whole(c)
           /\ ret[c].kind \in {"error", "conflict", "refused", "existing", "panicked"} => Mine(c) = {}
<1>1. pc[c] # "idle"
  BY DEF RecipesInv, CallerOK, Unused
<1>2. PICK k \in Calls : call[c] = {k} /\ It(c) = k /\ Making(c, k)
  BY <1>1, Begun
<1>3. CASE pc[c] = "done"
  <2>1. Done(c, k) /\ k.tx
    BY <1>2, <1>3 DEF Making
  <2>2. ASSUME todo[c] = <<>>, Progress(c, k, Mine(c)) PROVE Whole(c)
    BY <1>2, <2>1, <2>2, HooksWhole, CommandWhole, NestedWhole, CallKinds
  <2>3. QED
    BY <2>1, <2>2 DEF Done
<1>4. CASE pc[c] # "done"
  <2>1. Mine(c) = {} /\ ret[c] = Nothing
    BY <1>1, <1>2, <1>4 DEF RecipesInv, CallerOK, Labels, Making, Untouched, Running1
  <2>2. ret[c].kind = "none"
    BY <2>1 DEF Nothing
  <2>3. QED
    BY <2>1, <2>2
<1>5. QED
  BY <1>3, <1>4

(* A recipe that opens its own transaction - hooks, an idempotent command, *)
(* ReplaceNestedCollectionTx - is durable whole or not at all, whatever    *)
(* fails, panics or times out in it and whoever else is at work; the       *)
(* answers applied and failed mean what they say.                          *)
THEOREM WholeOrNothingHolds == RecipesSpec => []WholeOrNothing
<1>1. RecipesInv => WholeOrNothing
  BY CallerIsWhole DEF WholeOrNothing
<1>2. QED
  BY <1>1, RecipesInvariant, PTL

(* Whatever RunIdempotentCommand and InsertOnceReturning answer was a      *)
(* committed row of the key, and one record is applied for once, however   *)
(* many callers race for it - once more for every time it is deleted.      *)
THEOREM AnswersAreRowsHolds == RecipesSpec => []AnswersAreRows
<1> SUFFICES ASSUME RecipesInv PROVE AnswersAreRows
  BY RecipesInvariant, PTL
<1>1. ASSUME NEW c \in Callers, ret[c].kind = "applied", It(c).kind \in {"command", "once"}
      PROVE  Keys("main", Mine(c)) # {}
  <2>1. pc[c] # "idle"
    BY <1>1 DEF RecipesInv, CallerOK, Unused, Nothing
  <2>2. PICK k \in Calls : call[c] = {k} /\ It(c) = k /\ Making(c, k)
    BY <2>1, Begun
  <2>3. ret[c] # Nothing
    BY <1>1 DEF Nothing
  <2>4. pc[c] = "done"
    BY <2>1, <2>2, <2>3 DEF RecipesInv, CallerOK, Labels, Making, Untouched, Running1
  <2>5. Done(c, k)
    BY <2>2, <2>4 DEF Making
  <2>6. Main(c) \in Mine(c)
    <3>1. CASE k.kind = "once"
      BY <1>1, <2>5, <3>1 DEF Done
    <3>2. CASE k.kind = "command"
      <4>1. todo[c] = <<>> /\ Progress(c, k, Mine(c))
        BY <1>1, <2>5, <3>2, CallKinds DEF Done
      <4>2. QED
        BY <3>2, <4>1 DEF Progress, CommandProgress
    <3>3. QED
      BY <1>1, <2>2, <3>1, <3>2
  <2>7. QED
    BY <2>6, RowFields DEF Keys, Main
<1>2. Cardinality(Winners) <= 1 + purges
  <2>1. Cardinality(Winners) \in Nat /\ purges \in Nat
    BY FS_CardinalityType DEF RecipesInv, WinnersAreCounted, TypesOK
  <2>2. CASE Keys("main", table) = {}
    <3>1. Cardinality(Winners) <= purges + 0
      BY <2>2 DEF RecipesInv, WinnersAreCounted
    <3>2. QED
      BY <2>1, <3>1
  <2>3. CASE Keys("main", table) # {}
    <3>1. Cardinality(Winners) <= purges + 1
      BY <2>3 DEF RecipesInv, WinnersAreCounted
    <3>2. QED
      BY <2>1, <3>1
  <2>4. QED
    BY <2>2, <2>3
<1>3. QED
  BY <1>1, <1>2 DEF AnswersAreRows, Winners, RecipesInv, ExistingIsAnothers

(* Every grandchild of a nested write hangs under the child it was built   *)
(* for, and when every writer of the collection writes its parent in its   *)
(* transaction, the committed collection is one caller's.                  *)
THEOREM NestedIsWholeHolds == RecipesSpec => []NestedIsWhole
<1> SUFFICES ASSUME RecipesInv PROVE NestedIsWhole
  BY RecipesInvariant, PTL
<1>1. \A c \in Callers : Fits(Mine(c)) /\ Held(c)
  BY DEF RecipesInv, CallerOK
<1>2. GrandchildrenFitChildren
  BY <1>1 DEF GrandchildrenFitChildren, Fits, Mine, Keys
<1>3. CollectionIsOneCallers
  <2> SUFFICES ASSUME ParentsFirst, NEW r \in Keys("child", table), NEW s \in Keys("child", table)
               PROVE  r.by = s.by /\ (r.by \in Callers => r.val \in Range(children[r.by]))
    BY DEF CollectionIsOneCallers, ParentsFirst
  <2>1. r.by = s.by
    BY DEF RecipesInv, CollectionOK, OneOwner
  <2>2. r.by \in Callers => r \in Mine(r.by) /\ r.t = "child"
    BY DEF RecipesInv, TypesOK, Mine, Keys
  <2>3. QED
    BY <1>1, <2>1, <2>2 DEF Held
<1>4. QED
  BY <1>2, <1>3 DEF NestedIsWhole

(***************************************************************************)
(* WriteMapping: sequences and the loops that filter them                  *)
(***************************************************************************)
LEMMA LeastOf ==
  ASSUME NEW T \in SUBSET Nat, T # {}
  PROVE  \E x \in T : \A y \in T : x <= y
<1> DEFINE R == OpToRel(<, Nat)
<1>1. IsWellFoundedOn(R, Nat)
  BY NatLessThanWellFounded
<1>2. PICK x \in T : \A y \in T : ~(<<y, x>> \in R)
  <2> HIDE DEF R
  <2> QED BY <1>1, WFMin
<1>3. \A y \in T : y < x => <<y, x>> \in R
  BY DEF OpToRel
<1>4. \A y \in T : ~(y < x)
  <2> HIDE DEF R
  <2> QED BY <1>2, <1>3, Zenon
<1>5. x \in T
  BY <1>2
<1> HIDE DEF R
<1> QED BY <1>4, <1>5

LEMMA UpTo ==
  ASSUME NEW m \in Nat, NEW S, 0 \in S, \A n \in 0..m : n \in S /\ n < m => n + 1 \in S
  PROVE  \A n \in 0..m : n \in S
<1> DEFINE Left == {n \in 0..m : n \notin S}
<1>1. SUFFICES ASSUME Left # {} PROVE FALSE
  OBVIOUS
<1>2. Left \in SUBSET Nat
  OBVIOUS
<1>3. PICK x \in Left : \A y \in Left : x <= y
  <2> HIDE DEF Left
  <2> QED BY <1>1, <1>2, LeastOf
<1>4. x \in 0..m /\ x \notin S /\ x # 0
  OBVIOUS
<1>5. x - 1 \in 0..m /\ x - 1 < m /\ x - 1 \notin Left /\ (x - 1) + 1 = x
  <2>1. ASSUME x - 1 \in Left PROVE FALSE
    BY <2>1, <1>3, <1>4
  <2> HIDE DEF Left
  <2> QED BY <1>4, <2>1
<1>6. x - 1 \in S
  BY <1>5
<1> HIDE DEF Left
<1> QED BY <1>4, <1>5, <1>6

LEMMA UpToNext == \A m \in Nat : \A n \in 0..m : n < m => n + 1 \in 0..m /\ n + 1 \in 1..m /\ n \in Nat
OBVIOUS

LEMMA InNext == \A n \in Nat : \A i \in 0..n : i \in 0..(n + 1)
OBVIOUS

LEMMA NextInto == \A n \in Nat : \A i \in 0..(n + 1) : i # 0 => i - 1 \in 0..n
OBVIOUS

LEMMA NothingInSeq == \A T : <<>> \in Seq(T) /\ Range(<<>>) = {} /\ IsInjective(<<>>)
BY DEF Range, IsInjective

LEMMA RangeIs == \A T : \A s \in Seq(T) :
  DOMAIN s = 1..Len(s) /\ Len(s) \in Nat /\ Range(s) = {s[j] : j \in 1..Len(s)} /\ \A i \in 1..Len(s) : s[i] \in T
BY DEF Range

LEMMA NotNothing == \A T : \A s \in Seq(T) : s # <<>> => s[1] \in Range(s) /\ 1 \in DOMAIN s
<1> SUFFICES ASSUME NEW T, NEW s \in Seq(T), s # <<>> PROVE s[1] \in Range(s) /\ 1 \in DOMAIN s
  OBVIOUS
<1>1. Len(s) # 0 /\ Len(s) \in Nat /\ DOMAIN s = 1..Len(s)
  OBVIOUS
<1>2. 1 \in DOMAIN s
  BY <1>1
<1> QED BY <1>2 DEF Range

LEMMA AppendIs ==
  ASSUME NEW T, NEW s \in Seq(T), NEW t \in T
  PROVE  /\ Append(s, t) \in Seq(T)
         /\ Range(Append(s, t)) = Range(s) \cup {t}
         /\ IsInjective(s) /\ t \notin Range(s) => IsInjective(Append(s, t))
<1> DEFINE a == Append(s, t)
<1>1. /\ a \in Seq(T) /\ DOMAIN a = 1..(Len(s) + 1) /\ DOMAIN s = 1..Len(s) /\ Len(s) \in Nat
      /\ \A j \in 1..Len(s) : a[j] = s[j]
      /\ a[Len(s) + 1] = t
  OBVIOUS
<1> HIDE DEF a
<1>2. Range(a) = Range(s) \cup {t}
  <2>1. \A x \in Range(a) : x \in Range(s) \cup {t}
    <3>1. \A j \in 1..(Len(s) + 1) : a[j] \in Range(s) \cup {t}
      BY <1>1 DEF Range
    <3> QED BY <1>1, <3>1 DEF Range
  <2>2. \A x \in Range(s) : x \in Range(a)
    BY <1>1 DEF Range
  <2>3. t \in Range(a)
    <3>1. Len(s) + 1 \in DOMAIN a
      BY <1>1
    <3> QED BY <1>1, <3>1 DEF Range
  <2> QED BY <2>1, <2>2, <2>3
<1>3. ASSUME IsInjective(s), t \notin Range(s) PROVE IsInjective(a)
  <2>1. \A j \in 1..Len(s) : s[j] # t
    BY <1>1, <1>3 DEF Range
  <2>2. \A j, k \in 1..Len(s) : s[j] = s[k] => j = k
    BY <1>1, <1>3 DEF IsInjective
  <2> QED BY <1>1, <2>1, <2>2 DEF IsInjective
<1> QED BY <1>1, <1>2, <1>3 DEF a

\* The prefixes Keep goes through.
Kept(s, S, n, f) ==
    f = [i \in 0..n |-> IF i = 0 THEN <<>> ELSE IF s[i] \in S THEN Append(f[i - 1], s[i]) ELSE f[i - 1]]

LEMMA KeptExists ==
  ASSUME NEW s, NEW S, NEW m \in Nat
  PROVE  \E f : Kept(s, S, m, f)
<1> DEFINE D == {n \in 0..m : \E f : Kept(s, S, n, f)}
<1>1. 0 \in D
  <2> DEFINE f == [i \in 0..0 |-> <<>>]
  <2>1. Kept(s, S, 0, f)
    BY DEF Kept
  <2> HIDE DEF f
  <2> QED BY <2>1
<1>2. ASSUME NEW n \in 0..m, n \in D, n < m PROVE n + 1 \in D
  <2>1. PICK f : Kept(s, S, n, f)
    BY <1>2
  <2> DEFINE T(i) == IF i = 0 THEN <<>> ELSE IF s[i] \in S THEN Append(f[i - 1], s[i]) ELSE f[i - 1]
             g == [i \in 0..(n + 1) |-> T(i)]
  <2>2. \A i \in 0..n : g[i] = f[i]
    <3>1. \A i \in 0..n : f[i] = T(i)
      BY <2>1 DEF Kept
    <3>2. \A i \in 0..n : g[i] = T(i)
      <4>1. \A i \in 0..n : i \in 0..(n + 1)
        BY InNext
      <4> HIDE DEF T
      <4> QED BY <4>1
    <3> HIDE DEF T, g
    <3> QED BY <3>1, <3>2
  <2>3. \A i \in 0..(n + 1) : i # 0 => g[i - 1] = f[i - 1]
    <3> HIDE DEF g
    <3> QED BY <2>2, NextInto
  <2>4. g = [i \in 0..(n + 1) |->
               IF i = 0 THEN <<>> ELSE IF s[i] \in S THEN Append(g[i - 1], s[i]) ELSE g[i - 1]]
    <3>1. \A i \in 0..(n + 1) :
            T(i) = IF i = 0 THEN <<>> ELSE IF s[i] \in S THEN Append(g[i - 1], s[i]) ELSE g[i - 1]
      <4> HIDE DEF g
      <4> QED BY <2>3
    <3> HIDE DEF T
    <3> QED BY <3>1
  <2> HIDE DEF g
  <2>5. Kept(s, S, n + 1, g)
    BY <2>4 DEF Kept
  <2> QED BY <1>2, <2>5, UpToNext
<1>3. m \in D
  <2> HIDE DEF D
  <2>1. \A n \in 0..m : n \in D
    BY <1>1, <1>2, UpTo
  <2> QED BY <2>1
<1> QED BY <1>3

\* What a filtering loop keeps: the members of S, each as often as it was there.
LEMMA KeepIs ==
  ASSUME NEW T, NEW s \in Seq(T), NEW S
  PROVE  /\ Keep(s, S) \in Seq(T)
         /\ Range(Keep(s, S)) = Range(s) \cap S
         /\ IsInjective(s) => IsInjective(Keep(s, S))
<1> DEFINE f == CHOOSE f : Kept(s, S, Len(s), f)
           Seen(i) == {s[j] : j \in 1..i}
           Fine(i) == /\ f[i] \in Seq(T)
                      /\ Range(f[i]) = Seen(i) \cap S
                      /\ IsInjective(s) => IsInjective(f[i])
           D == {i \in 0..Len(s) : Fine(i)}
<1>1. Keep(s, S) = f[Len(s)]
  BY DEF Keep, Kept
<1>2. Kept(s, S, Len(s), f)
  BY KeptExists
<1> HIDE DEF f
<1> HIDE DEF Seen
<1>0. DOMAIN s = 1..Len(s) /\ Len(s) \in Nat /\ Range(s) = Seen(Len(s)) /\ \A i \in 1..Len(s) : s[i] \in T
  BY RangeIs DEF Seen
<1>3. f[0] = <<>>
  BY <1>0, <1>2 DEF Kept
<1>4. ASSUME NEW i \in 0..Len(s), i < Len(s)
      PROVE  f[i + 1] = IF s[i + 1] \in S THEN Append(f[i], s[i + 1]) ELSE f[i]
  <2>1. i + 1 \in 0..Len(s) /\ i + 1 # 0 /\ (i + 1) - 1 = i
    BY <1>4, <1>0
  <2> HIDE <1>4
  <2>2. f[i + 1] = IF s[i + 1] \in S THEN Append(f[(i + 1) - 1], s[i + 1]) ELSE f[(i + 1) - 1]
    BY <2>1, <1>2 DEF Kept
  <2> QED BY <2>1, <2>2
<1>5. 0 \in D
  <2>1. Seen(0) = {} /\ 0 \in 0..Len(s)
    BY <1>0 DEF Seen
  <2> QED BY <1>3, <2>1, NothingInSeq
<1>6. ASSUME NEW i \in 0..Len(s), i \in D, i < Len(s) PROVE i + 1 \in D
  <2>1. Seen(i + 1) = Seen(i) \cup {s[i + 1]}
    <3>1. 1..(i + 1) = (1..i) \cup {i + 1}
      BY <1>0
    <3> QED BY <3>1 DEF Seen
  <2>2. i + 1 \in 0..Len(s) /\ Fine(i) /\ s[i + 1] \in T
    BY <1>0, <1>6, UpToNext
  <2>3. CASE s[i + 1] \notin S
    <3>1. f[i + 1] = f[i]
      BY <1>4, <1>6, <2>3
    <3> QED BY <2>1, <2>2, <2>3, <3>1
  <2>4. CASE s[i + 1] \in S
    <3>1. f[i + 1] = Append(f[i], s[i + 1])
      BY <1>4, <1>6, <2>4
    <3>5. ASSUME IsInjective(s) PROVE s[i + 1] \notin Seen(i)
      BY <1>0, <1>6, <3>5 DEF IsInjective, Seen
    <3>6. /\ f[i + 1] \in Seq(T) /\ Range(f[i + 1]) = Range(f[i]) \cup {s[i + 1]}
          /\ IsInjective(f[i]) /\ s[i + 1] \notin Range(f[i]) => IsInjective(f[i + 1])
      BY <2>2, <3>1, AppendIs
    <3> QED BY <2>1, <2>2, <2>4, <3>5, <3>6
  <2> QED BY <2>3, <2>4
<1>7. \A i \in 0..Len(s) : i \in D
  <2> HIDE DEF D
  <2> QED BY <1>5, <1>6, UpTo, SMTT(60)
<1>8. Fine(Len(s))
  BY <1>0, <1>7
<1> HIDE DEF Fine
<1>9. Fine(Len(s)) /\ Range(s) = Seen(Len(s))
  BY <1>0, <1>8
<1> QED BY <1>1, <1>9 DEF Fine

(***************************************************************************)
(* Columns and arguments.                                                  *)
(***************************************************************************)
LEMMA OrderIs == ColOrder \in Seq(Cols) /\ \A ord \in IterationOrders : ord \in Seq(Cols)
<1>1. ColOrder \in Seq(Cols)
  BY WriteAssumption DEF NameAssumption, Cols
<1>2. ASSUME NEW ord \in IterationOrders PROVE ord \in Seq(Cols)
  <2>1. DOMAIN ColOrder = 1..Len(ColOrder) /\ Len(ColOrder) \in Nat
    BY <1>1, RangeIs
  <2>2. ord \in [1..Len(ColOrder) -> Cols]
    BY <2>1 DEF IterationOrders
  <2> QED BY <2>1, <2>2
<1> QED BY <1>1, <1>2

LEMMA SortedIs == \A S : Sorted(S) \in Seq(Cols) /\ Range(Sorted(S)) = Cols \cap S /\ IsInjective(Sorted(S))
BY OrderIs, KeepIs, WriteAssumption DEF Sorted, Cols, NameAssumption

\* The j-th argument of row i, of rows of L columns.
At(args, L, i, j) == args[(i - 1) * L + j]

\* The loops of newWriteInput cut the rows out of the argument list they were
\* appended to.
LEMMA CutRows ==
  ASSUME NEW cols \in Seq(Cols), NEW count \in Nat, NEW args, NEW v,
         \A i \in 1..count : \A j \in 1..Len(cols) : At(args, Len(cols), i, j) = v[i][cols[j]]
  PROVE  RowsOf(cols, args, count) = [i \in 1..count |-> [c \in Range(cols) |-> v[i][c]]]
<1>1. ASSUME NEW i \in 1..count, NEW c \in Range(cols)
      PROVE  args[(i - 1) * Len(cols) + CHOOSE j \in DOMAIN cols : cols[j] = c] = v[i][c]
  <2> DEFINE j == CHOOSE j \in DOMAIN cols : cols[j] = c
  <2>1. j \in DOMAIN cols /\ cols[j] = c
    BY DEF Range
  <2>2. j \in 1..Len(cols)
    BY <2>1, RangeIs
  <2> HIDE DEF j
  <2>3. At(args, Len(cols), i, j) = v[i][cols[j]]
    BY <2>2
  <2> QED BY <2>1, <2>3 DEF j, At
<1> DEFINE A(i, c) == args[(i - 1) * Len(cols) + CHOOSE j \in DOMAIN cols : cols[j] = c]
<1>2. RowsOf(cols, args, count) = [i \in 1..count |-> [c \in Range(cols) |-> A(i, c)]]
  BY DEF RowsOf
<1>3. \A i \in 1..count : \A c \in Range(cols) : A(i, c) = v[i][c]
  BY <1>1
<1> HIDE DEF A
<1>4. \A i \in 1..count : [c \in Range(cols) |-> A(i, c)] = [c \in Range(cols) |-> v[i][c]]
  BY <1>3
<1> QED BY <1>2, <1>4

LEMMA FirstCut == \A n \in Nat : \A j \in 1..n : (1 - 1) * n + j = j
OBVIOUS

\* What a row gives the columns.
RowOf(row, cols) == [c \in Range(cols) |-> row.vals[c]]

LEMMA OneRow ==
  ASSUME NEW cols \in Seq(Cols), NEW row
  PROVE  RowsOf(cols, ArgsOf(row, cols), 1) = <<RowOf(row, cols)>>
<1> DEFINE v == [i \in 1..1 |-> row.vals]
           args == ArgsOf(row, cols)
<1>1. \A j \in 1..Len(cols) : args[j] = row.vals[cols[j]]
  BY RangeIs DEF ArgsOf
<1> HIDE DEF args
<1>2. v[1] = row.vals
  OBVIOUS
<1>3. ASSUME NEW i \in 1..1, NEW j \in 1..Len(cols)
      PROVE  args[(i - 1) * Len(cols) + j] = v[i][cols[j]]
  <2>1. i = 1 /\ Len(cols) \in Nat
    BY RangeIs
  <2>2. (1 - 1) * Len(cols) + j = j
    BY <2>1, FirstCut
  <2> HIDE DEF v
  <2>3. args[j] = v[1][cols[j]]
    BY <1>1, <1>2
  <2> QED BY <2>1, <2>2, <2>3
<1> HIDE DEF v
<1>6. \A i \in 1..1 : \A j \in 1..Len(cols) : At(args, Len(cols), i, j) = v[i][cols[j]]
  BY <1>3 DEF At
<1>4. RowsOf(cols, args, 1) = [i \in 1..1 |-> [c \in Range(cols) |-> v[i][c]]]
  <2>1. ASSUME NEW count \in Nat, count = 1
        PROVE  RowsOf(cols, args, count) = [i \in 1..count |-> [c \in Range(cols) |-> v[i][c]]]
    <3>1. \A i \in 1..count : \A j \in 1..Len(cols) : At(args, Len(cols), i, j) = v[i][cols[j]]
      BY <1>6, <2>1
    <3> HIDE <2>1
    <3> QED BY <3>1, CutRows
  <2> QED BY <2>1
<1>5. [i \in 1..1 |-> [c \in Range(cols) |-> v[i][c]]] = <<[c \in Range(cols) |-> v[1][c]]>>
  OBVIOUS
<1> QED BY <1>2, <1>4, <1>5 DEF RowOf, args

\* sortWriteFields moves columns and arguments together.
LEMMA SortedFields ==
  ASSUME NEW cols \in Seq(Cols), NEW row
  PROVE  LET f == sortWriteFields(cols, ArgsOf(row, cols)) IN
         f.cols \in Seq(Cols) /\ Range(f.cols) = Range(cols) /\ f.args = ArgsOf(row, f.cols)
<1> DEFINE args == ArgsOf(row, cols)
           sorted == Sorted(Range(cols))
           at(i) == args[CHOOSE j \in DOMAIN cols : cols[j] = sorted[i]]
<1>1. sorted \in Seq(Cols) /\ Range(sorted) = Cols \cap Range(cols)
  BY SortedIs
<1>2. Range(cols) \subseteq Cols
  BY RangeIs
<1>3. sortWriteFields(cols, args) = [cols |-> sorted, args |-> [i \in DOMAIN sorted |-> at(i)]]
  BY DEF sortWriteFields
<1> HIDE DEF sorted
<1>4. \A i \in DOMAIN sorted : at(i) = row.vals[sorted[i]]
  <2> SUFFICES ASSUME NEW i \in DOMAIN sorted PROVE at(i) = row.vals[sorted[i]]
    OBVIOUS
  <2>1. sorted[i] \in Range(cols)
    BY <1>1 DEF Range
  <2> DEFINE j == CHOOSE j \in DOMAIN cols : cols[j] = sorted[i]
  <2>2. j \in DOMAIN cols /\ cols[j] = sorted[i]
    BY <2>1 DEF Range
  <2>3. at(i) = args[j]
    OBVIOUS
  <2> HIDE DEF j
  <2> QED BY <2>2, <2>3 DEF ArgsOf
<1> HIDE DEF at, args
<1>5. [i \in DOMAIN sorted |-> at(i)] = ArgsOf(row, sorted)
  BY <1>4 DEF ArgsOf
<1> DEFINE f == sortWriteFields(cols, args)
<1>6. f.cols = sorted /\ f.args = ArgsOf(row, sorted)
  BY <1>3, <1>5
<1> HIDE DEF f
<1>7. f.cols \in Seq(Cols) /\ Range(f.cols) = Range(cols) /\ f.args = ArgsOf(row, f.cols)
  BY <1>1, <1>2, <1>6
<1> QED BY <1>7 DEF f, args

(***************************************************************************)
(* Requests.                                                               *)
(***************************************************************************)
\* The request newWriteInput builds when it refuses nothing.
RequestOf(op, cols, args, count, pk, o) ==
    [op |-> op, rows |-> RowsOf(cols, args, count), assign |-> o.assign, where |-> <<>>,
     conflict |-> IF op = "upsert" THEN Conflict(cols, pk, o) ELSE NoConflict]

LEMMA RequestIs ==
  ASSUME NEW op, NEW cols, NEW args, NEW count, NEW pk, NEW o,
         newWriteInput(op, cols, args, count, pk, o) # NoRequest
  PROVE  /\ newWriteInput(op, cols, args, count, pk, o) = {RequestOf(op, cols, args, count, pk, o)}
         /\ ValidAssignments(o) /\ Len(args) = count * Len(cols)
         /\ op = "upsert" => Conflict(cols, pk, o).updates \subseteq Range(cols)
BY DEF newWriteInput, RequestOf

\* What Update asks for.
UpdateAsks(r, row, o) ==
    \E set \in Seq(Cols), where \in Seq(Cols) :
       /\ r.op = "update" /\ r.assign = o.assign /\ r.rows = <<RowOf(row, set)>>
       /\ Range(set) \subseteq {c \in Range(Columns(row)) :
                                  ~isPK(row, o, c) /\ c \notin Targets(o) /\ Included(row, o, c)}
       /\ where # <<>>
       /\ Range(where) \subseteq {c \in Range(Columns(row)) : isPK(row, o, c)}
       /\ r.where = [i \in DOMAIN where |-> <<where[i], row.vals[where[i]]>>]

LEMMA UpdateRequest ==
  ASSUME NEW row, NEW o, NEW ord \in IterationOrders, buildUpdateInput(row, o, ord) # NoRequest
  PROVE  \E r : buildUpdateInput(row, o, ord) = {r} /\ UpdateAsks(r, row, o)
<1> DEFINE has == Range(Columns(row))
           keys == {c \in has : isPK(row, o, c)}
           whereCols == Keep(ord, keys)
           others == {c \in has \ keys : c \notin Targets(o) /\ Included(row, o, c)}
           setCols == Keep(ord, others)
           set == sortWriteFields(setCols, ArgsOf(row, setCols))
           where == sortWriteFields(whereCols, ArgsOf(row, whereCols))
           input == newWriteInput("update", set.cols, set.args, 1, <<>>, o)
           bound == [i \in DOMAIN where.cols |-> <<where.cols[i], where.args[i]>>]
<1>1. /\ buildUpdateInput(row, o, ord) = {[r EXCEPT !.where = bound] : r \in input}
      /\ whereCols # <<>>
  BY DEF buildUpdateInput, NoRequest
<1>2. /\ whereCols \in Seq(Cols) /\ Range(whereCols) = Range(ord) \cap keys
      /\ setCols \in Seq(Cols) /\ Range(setCols) = Range(ord) \cap others
  BY OrderIs, KeepIs
<1> HIDE DEF whereCols, setCols
<1>3. set.cols \in Seq(Cols) /\ Range(set.cols) = Range(setCols) /\ set.args = ArgsOf(row, set.cols)
  BY <1>2, SortedFields
<1>4. where.cols \in Seq(Cols) /\ Range(where.cols) = Range(whereCols) /\ where.args = ArgsOf(row, where.cols)
  BY <1>2, SortedFields
<1>5. where.cols # <<>>
  <2>1. Range(whereCols) # {}
    BY <1>1, <1>2, NotNothing
  <2> QED BY <1>4, <2>1, NothingInSeq
<1> HIDE DEF set, where
<1>6. bound = [i \in DOMAIN where.cols |-> <<where.cols[i], row.vals[where.cols[i]]>>]
  BY <1>4 DEF ArgsOf
<1>7. input # NoRequest
  BY <1>1 DEF NoRequest
<1> DEFINE r == RequestOf("update", set.cols, set.args, 1, <<>>, o)
           u == [r EXCEPT !.where = bound]
<1>8. input = {r}
  BY <1>7, RequestIs
<1> HIDE DEF input
<1>9. buildUpdateInput(row, o, ord) = {u}
  BY <1>1, <1>8
<1>10. /\ u.op = "update" /\ u.assign = o.assign /\ u.rows = RowsOf(set.cols, set.args, 1)
       /\ u.where = bound
  BY DEF RequestOf
<1> HIDE DEF u, bound
<1>11. u.rows = <<RowOf(row, set.cols)>>
  BY <1>3, <1>10, OneRow
<1>12. UpdateAsks(u, row, o)
  <2>1. Range(set.cols) \subseteq {c \in Range(Columns(row)) :
                                  ~isPK(row, o, c) /\ c \notin Targets(o) /\ Included(row, o, c)}
    BY <1>2, <1>3
  <2>2. Range(where.cols) \subseteq {c \in Range(Columns(row)) : isPK(row, o, c)}
    BY <1>2, <1>4
  <2> QED BY <1>3, <1>4, <1>5, <1>6, <1>10, <1>11, <2>1, <2>2 DEF UpdateAsks
<1> QED BY <1>9, <1>12

(***************************************************************************)
(* Statements.                                                             *)
(***************************************************************************)
LEMMA ExecutedIs ==
  ASSUME NEW r, NEW d, NEW t, Executed({r}, d, t).ok
  PROVE  LET start == Table(t, {})
             end == IF r.op = "update" THEN UpdateRows(start, r) ELSE InsertRows(start, r, d) IN
         Planned(r, d) /\ ~Ambiguous(r, d) /\ Executed({r}, d, t) = end /\ end.ok
<1> DEFINE start == Table(t, {})
           end == IF r.op = "update" THEN UpdateRows(start, r) ELSE InsertRows(start, r, d)
           final == IF ~Planned(r, d) \/ Ambiguous(r, d) THEN Failed(start) ELSE end
<1>1. {r} # NoRequest /\ (CHOOSE s \in {r} : TRUE) = r
  BY DEF NoRequest
<1>3. Executed({r}, d, t) = IF final.ok THEN final ELSE Failed(start)
  BY <1>1 DEF Executed
<1>4. Failed(start).ok = FALSE
  BY DEF Failed
<1> HIDE DEF start, end
<1> QED BY <1>3, <1>4 DEF start, end

LEMMA NothingExecuted == \A d, t : ~Executed(NoRequest, d, t).ok
BY DEF Executed, Failed

LEMMA TableIs ==
  \A rows, touched : /\ Table(rows, touched).ok
                     /\ Table(rows, touched).rows = rows /\ Table(rows, touched).touched = touched
BY DEF Table

LEMMA FailedIs == \A st : ~Failed(st).ok /\ Failed(st).rows = st.rows
BY DEF Failed

LEMMA AddRowIs ==
  ASSUME NEW st, NEW new, AddRow(st, new).ok
  PROVE  AddRow(st, new).rows = st.rows \cup {new} /\ \A x \in st.rows : Keyed({x, new}) /\ x # new
<1> DEFINE clash == \E x \in st.rows : ~Keyed({x, new}) \/ x = new
<1>1. AddRow(st, new) = IF clash THEN Failed(st) ELSE Table(st.rows \cup {new}, st.touched \cup {new})
  BY DEF AddRow
<1>2. ~clash
  <2> HIDE DEF clash
  <2> QED BY <1>1, FailedIs
<1>3. AddRow(st, new) = Table(st.rows \cup {new}, st.touched \cup {new})
  <2> HIDE DEF clash
  <2> QED BY <1>1, <1>2
<1> QED BY <1>2, <1>3, TableIs

\* Whether ChangeRow refuses, on the table with the row in place.
Clashes(st, x, d, rows) == (d = "postgres" /\ x \in st.touched) \/ ~Keyed(rows)

LEMMA ChangeRowIf ==
  \A st, x, y, d :
     ChangeRow(st, x, y, d) =
        IF Clashes(st, x, d, (st.rows \ {x}) \cup {y}) THEN Failed(st)
        ELSE Table((st.rows \ {x}) \cup {y}, (st.touched \ {x}) \cup {y})
BY DEF ChangeRow, Clashes

LEMMA ChangeRowIs ==
  ASSUME NEW st, NEW x, NEW y, NEW d, ChangeRow(st, x, y, d).ok
  PROVE  ChangeRow(st, x, y, d).rows = (st.rows \ {x}) \cup {y}
<1> DEFINE rows == (st.rows \ {x}) \cup {y}
           touched == (st.touched \ {x}) \cup {y}
<1>1. ChangeRow(st, x, y, d) = IF Clashes(st, x, d, rows) THEN Failed(st) ELSE Table(rows, touched)
  BY ChangeRowIf
<1> HIDE DEF rows, touched
<1>2. ChangeRow(st, x, y, d).rows = rows
  BY <1>1, FailedIs, TableIs
<1> QED BY <1>2 DEF rows

LEMMA ChangeRowKeyed ==
  ASSUME NEW st, NEW x, NEW y, NEW d, ChangeRow(st, x, y, d).ok
  PROVE  Keyed((st.rows \ {x}) \cup {y})
BY ChangeRowIf, FailedIs DEF Clashes

LEMMA ChangedIs ==
  ASSUME NEW x, NEW new, NEW cols, NEW assign
  PROVE  /\ \A c \in Cols : c \in cols => Changed(x, new, cols, assign)[c] = new[c]
         /\ \A c \in Cols : c \notin cols /\ c \notin {a.col : a \in Range(assign)} =>
               Changed(x, new, cols, assign)[c] = x[c]
BY DEF Changed

\* The column of the table's primary key.
Primary == Unique[1]

LEMMA PrimaryIs == Primary \in Cols
BY WriteAssumption, NotNothing, RangeIs DEF NameAssumption, Primary

\* What WriteIsTargeted says of a call of op on row and the table it left.
Targeted(op, row, o, after) ==
    LET id == row.vals[Primary] IN
    /\ {r \in Before : r[Primary] # id} = {r \in after : r[Primary] # id}
    /\ \A r \in Before, s \in after : (r[Primary] = id /\ s[Primary] = id) =>
          \A c \in Cols : \/ s[c] = r[c] \/ c \in Targets(o)
                          \/ /\ Included(row, o, c) /\ ~isPK(row, o, c)
                             /\ op = "upsert" /\ o.updates.has => c \in o.updates.cols
                             /\ s[c] = row.vals[c]

\* An update changes the row with the value's key, in the columns it was given.
LEMMA UpdateTargeted ==
  ASSUME NEW row, NEW o, NEW r, UpdateAsks(r, row, o),
         {c \in Range(Columns(row)) : isPK(row, o, c)} = {Primary}, Primary \notin Targets(o),
         UpdateRows(Table(Before, {}), r).ok
  PROVE  Targeted("update", row, o, UpdateRows(Table(Before, {}), r).rows)
<1>1. PICK set \in Seq(Cols), where \in Seq(Cols) :
       /\ r.op = "update" /\ r.assign = o.assign /\ r.rows = <<RowOf(row, set)>>
       /\ Range(set) \subseteq {c \in Range(Columns(row)) :
                                  ~isPK(row, o, c) /\ c \notin Targets(o) /\ Included(row, o, c)}
       /\ where # <<>>
       /\ Range(where) \subseteq {c \in Range(Columns(row)) : isPK(row, o, c)}
       /\ r.where = [i \in DOMAIN where |-> <<where[i], row.vals[where[i]]>>]
  BY DEF UpdateAsks
<1> DEFINE id == row.vals[Primary]
           new == RowOf(row, set)
           hit == {x \in Before : x[Primary] = id}
           F(x) == Changed(x, new, Range(set), o.assign)
           after == (Before \ hit) \cup {F(x) : x \in hit}
<1>2. \A i \in DOMAIN where : where[i] = Primary
  BY <1>1 DEF Range
<1>3. 1 \in DOMAIN where
  BY <1>1, NotNothing
<1> DEFINE st == Table(Before, {})
<1>0. st.rows = Before
  BY TableIs
<1> HIDE DEF st
<1>4. {x \in st.rows : \A i \in DOMAIN r.where : x[r.where[i][1]] = r.where[i][2]} = hit
  BY <1>0, <1>1, <1>2, <1>3
<1>5. r.rows[1] = new /\ DOMAIN new = Range(set)
  BY <1>1 DEF RowOf
<1>6. UpdateRows(st, r).rows = after
  <2> DEFINE rows == (st.rows \ hit) \cup {Changed(x, r.rows[1], DOMAIN r.rows[1], r.assign) : x \in hit}
  <2>1. rows = after
    <3> HIDE DEF hit, new
    <3> QED BY <1>0, <1>1, <1>5, SMTT(30)
  <2> HIDE DEF after
  <2>2. UpdateRows(st, r) = IF Keyed(rows) THEN Table(rows, st.touched) ELSE Failed(st)
    <3> HIDE DEF hit
    <3> QED BY <1>4 DEF UpdateRows
  <2> HIDE DEF rows
  <2>3. UpdateRows(st, r) = Table(rows, st.touched)
    BY <2>2, FailedIs DEF st
  <2> QED BY <2>1, <2>3, TableIs
<1>7. \A x \in hit : F(x)[Primary] = id
  <2>1. Primary \in Cols /\ Primary \notin Range(set) /\ Primary \notin {a.col : a \in Range(o.assign)}
    BY <1>1, PrimaryIs DEF Targets
  <2> HIDE DEF new
  <2>2. \A x \in hit : F(x)[Primary] = x[Primary]
    BY <2>1, ChangedIs
  <2> QED BY <2>2
<1>8. ASSUME NEW x \in hit, NEW c \in Cols
      PROVE  \/ F(x)[c] = x[c] \/ c \in Targets(o)
             \/ Included(row, o, c) /\ ~isPK(row, o, c) /\ F(x)[c] = row.vals[c]
  <2>1. CASE c \in Range(set)
    <3>1. F(x)[c] = new[c]
      <4> HIDE DEF new
      <4> QED BY <2>1, ChangedIs
    <3>2. new[c] = row.vals[c]
      BY <2>1 DEF RowOf
    <3> HIDE DEF F, new
    <3> QED BY <1>1, <2>1, <3>1, <3>2
  <2>2. CASE c \notin Range(set)
    <3> HIDE DEF new
    <3> QED BY <2>2, ChangedIs DEF Targets
  <2> QED BY <2>1, <2>2
<1>9. \A x, y \in hit : x = y
  BY WriteAssumption DEF KeyAssumption, Primary
<1> HIDE DEF F
<1>10. {x \in Before : x[Primary] # id} = {x \in after : x[Primary] # id}
  BY <1>7
<1>11. ASSUME NEW x \in Before, NEW s \in after, x[Primary] = id, s[Primary] = id
       PROVE  s = F(x)
  BY <1>9, <1>11
<1>12. \A x \in Before, s \in after : (x[Primary] = id /\ s[Primary] = id) => x \in hit /\ s = F(x)
  BY <1>11
<1> HIDE DEF after, hit
<1>13. ASSUME NEW x \in Before, NEW s \in after, x[Primary] = id, s[Primary] = id, NEW c \in Cols
       PROVE  \/ s[c] = x[c] \/ c \in Targets(o)
              \/ Included(row, o, c) /\ ~isPK(row, o, c) /\ s[c] = row.vals[c]
  BY <1>8, <1>12, <1>13
<1>14. Targeted("update", row, o, after)
  BY <1>10, <1>13 DEF Targeted
<1> QED BY <1>6, <1>14 DEF st

\* The tables InsertRows goes through.
Inserting(st, r, d, n, f) ==
    f = [i \in 0..n |-> IF i = 0 THEN st ELSE InsertRow(f[i - 1], r.rows[i], r, d)]

LEMMA InsertingExists ==
  ASSUME NEW st, NEW r, NEW d, NEW m \in Nat
  PROVE  \E f : Inserting(st, r, d, m, f)
<1> DEFINE D == {n \in 0..m : \E f : Inserting(st, r, d, n, f)}
<1>1. 0 \in D
  <2> DEFINE f == [i \in 0..0 |-> st]
  <2>1. Inserting(st, r, d, 0, f)
    BY DEF Inserting
  <2> HIDE DEF f
  <2> QED BY <2>1
<1>2. ASSUME NEW n \in 0..m, n \in D, n < m PROVE n + 1 \in D
  <2>1. PICK f : Inserting(st, r, d, n, f)
    BY <1>2
  <2> DEFINE T(i) == IF i = 0 THEN st ELSE InsertRow(f[i - 1], r.rows[i], r, d)
             g == [i \in 0..(n + 1) |-> T(i)]
  <2>2. \A i \in 0..n : g[i] = f[i]
    <3>1. \A i \in 0..n : f[i] = T(i)
      BY <2>1 DEF Inserting
    <3>2. \A i \in 0..n : g[i] = T(i)
      <4>1. \A i \in 0..n : i \in 0..(n + 1)
        BY InNext
      <4> HIDE DEF T
      <4> QED BY <4>1
    <3> HIDE DEF T, g
    <3> QED BY <3>1, <3>2
  <2>3. \A i \in 0..(n + 1) : i # 0 => g[i - 1] = f[i - 1]
    <3> HIDE DEF g
    <3> QED BY <2>2, NextInto
  <2>4. g = [i \in 0..(n + 1) |-> IF i = 0 THEN st ELSE InsertRow(g[i - 1], r.rows[i], r, d)]
    <3>1. \A i \in 0..(n + 1) : T(i) = IF i = 0 THEN st ELSE InsertRow(g[i - 1], r.rows[i], r, d)
      <4> HIDE DEF g
      <4> QED BY <2>3
    <3> HIDE DEF T
    <3> QED BY <3>1
  <2> HIDE DEF g
  <2>5. Inserting(st, r, d, n + 1, g)
    BY <2>4 DEF Inserting
  <2> QED BY <1>2, <2>5, UpToNext
<1>3. m \in D
  <2> HIDE DEF D
  <2>1. \A n \in 0..m : n \in D
    BY <1>1, <1>2, UpTo
  <2> QED BY <2>1
<1> QED BY <1>3

\* f is the tables InsertRows goes through.
Steps(st, r, d, f) ==
    /\ InsertRows(st, r, d) = f[Len(r.rows)] /\ f[0] = st
    /\ \A i \in 1..Len(r.rows) : f[i] = InsertRow(f[i - 1], r.rows[i], r, d)

LEMMA InsertRowsIs == \A st, r, d : Len(r.rows) \in Nat => \E f : Steps(st, r, d, f)
<1> SUFFICES ASSUME NEW st, NEW r, NEW d, Len(r.rows) \in Nat PROVE \E f : Steps(st, r, d, f)
  OBVIOUS
<1> DEFINE n == Len(r.rows)
           f == CHOOSE f : Inserting(st, r, d, n, f)
<1>1. n \in Nat
  OBVIOUS
<1>2. InsertRows(st, r, d) = f[n]
  BY DEF InsertRows, Inserting
<1> HIDE DEF n
<1>3. Inserting(st, r, d, n, f)
  BY <1>1, InsertingExists
<1> HIDE DEF f
<1>4. f[0] = st /\ \A i \in 1..n : f[i] = InsertRow(f[i - 1], r.rows[i], r, d)
  BY <1>1, <1>3 DEF Inserting
<1>5. Steps(st, r, d, f)
  BY <1>2, <1>4 DEF n, Steps
<1> QED BY <1>5

LEMMA InsertOne ==
  \A st, r, d, row : r.rows = <<row>> => InsertRows(st, r, d) = InsertRow(st, row, r, d)
<1> SUFFICES ASSUME NEW st, NEW r, NEW d, NEW row
             PROVE  r.rows = <<row>> => InsertRows(st, r, d) = InsertRow(st, row, r, d)
  OBVIOUS
<1>1. ASSUME r.rows = <<row>> PROVE InsertRows(st, r, d) = InsertRow(st, row, r, d)
  <2>1. Len(r.rows) = 1 /\ r.rows[1] = row
    BY <1>1
  <2>2. Len(r.rows) \in Nat
    BY <2>1
  <2>3. PICK f : Steps(st, r, d, f)
    BY <2>2, InsertRowsIs
  <2>4. 1 \in 1..Len(r.rows) /\ 1 - 1 = 0
    BY <2>1
  <2> QED BY <2>1, <2>3, <2>4 DEF Steps
<1> QED BY <1>1

\* What Upsert asks for.
UpsertAsks(row, o, ord) ==
    LET cols == upsertColumns(row, o, ord)
        pk == Keep(cols, {c \in Range(cols) : isPK(row, o, c)}) IN
    /\ buildUpsertInput(row, o, ord) = {RequestOf("upsert", cols, ArgsOf(row, cols), 1, pk, o)}
    /\ cols \in Seq(Cols) /\ cols # <<>>
    /\ Range(cols) = Range(ord) \cap
         {c \in Range(Columns(row)) : isPK(row, o, c) \/ isConflictColumn(o, c) \/ Included(row, o, c)}
    /\ pk \in Seq(Cols) /\ Range(pk) = {c \in Range(cols) : isPK(row, o, c)}
    /\ o.wherePK => pk # <<>>
    /\ isMap(row) /\ o.wherePK => o.pk \subseteq DOMAIN row.vals
    /\ Conflict(cols, pk, o).updates \subseteq Range(cols)

LEMMA UpsertRequest ==
  ASSUME NEW row, NEW o, NEW ord \in Seq(Cols), buildUpsertInput(row, o, ord) # NoRequest
  PROVE  UpsertAsks(row, o, ord)
<1> DEFINE cols == upsertColumns(row, o, ord)
           pk == Keep(cols, {c \in Range(cols) : isPK(row, o, c)})
           input == newWriteInput("upsert", cols, ArgsOf(row, cols), 1, pk, o)
<1>1. /\ buildUpsertInput(row, o, ord) = input
      /\ cols # <<>> /\ (o.wherePK => pk # <<>>)
      /\ isMap(row) /\ o.wherePK => o.pk \subseteq DOMAIN row.vals
  BY DEF buildUpsertInput
<1>2. /\ cols \in Seq(Cols)
      /\ Range(cols) = Range(ord) \cap
           {c \in Range(Columns(row)) : isPK(row, o, c) \/ isConflictColumn(o, c) \/ Included(row, o, c)}
  BY KeepIs DEF upsertColumns
<1> HIDE DEF cols
<1>3. pk \in Seq(Cols) /\ Range(pk) = Range(cols) \cap {c \in Range(cols) : isPK(row, o, c)}
  BY <1>2, KeepIs
<1> HIDE DEF pk
<1>4. input = {RequestOf("upsert", cols, ArgsOf(row, cols), 1, pk, o)} /\ Conflict(cols, pk, o).updates \subseteq Range(cols)
  BY <1>1, RequestIs
<1> HIDE DEF input
<1>5. Range(pk) = {c \in Range(cols) : isPK(row, o, c)}
  BY <1>3
<1>6. buildUpsertInput(row, o, ord) = {RequestOf("upsert", cols, ArgsOf(row, cols), 1, pk, o)}
  BY <1>1, <1>4
<1> QED BY <1>1, <1>2, <1>3, <1>4, <1>5, <1>6 DEF UpsertAsks, cols, pk

\* An upsert inserts a row with a new primary key or changes the row that had
\* it.
LEMMA UpsertTargeted ==
  ASSUME NEW row, NEW o, NEW cols \in Seq(Cols), NEW pk, NEW r, r = RequestOf("upsert", cols, ArgsOf(row, cols), 1, pk, o),
         ~hasConflictTarget(o), Range(pk) = {Primary}, Primary \in Range(cols), Primary \notin Targets(o),
         \A c \in Range(cols) : isPK(row, o, c) \/ isConflictColumn(o, c) \/ Included(row, o, c),
         \A c \in Range(cols) : isPK(row, o, c) => c = Primary,
         Conflict(cols, pk, o).updates \subseteq Range(cols),
         InsertRows(Table(Before, {}), r, "postgres").ok
  PROVE  Targeted("upsert", row, o, InsertRows(Table(Before, {}), r, "postgres").rows)
<1> DEFINE st == Table(Before, {})
           end == InsertRows(st, r, "postgres")
           id == row.vals[Primary]
           f == RowOf(row, cols)
           new == Stored(Before, f)
           arb == Arbiters(r, "postgres")
           keys == Keep(arb, {k \in Cols : \E x \in Before : x[k] = new[k]})
           updates == Conflict(cols, pk, o).updates
<1>1. /\ r.op = "upsert" /\ r.assign = o.assign /\ r.rows = <<f>> /\ r.conflict = Conflict(cols, pk, o)
  BY OneRow DEF RequestOf
<1>2. o.conflict = <<>> /\ o.target = "" /\ \A c : ~isConflictColumn(o, c)
  BY NothingInSeq DEF hasConflictTarget, isConflictColumn
<1>3. /\ r.conflict.columns = pk /\ r.conflict.target = "" /\ r.conflict.updates = updates
      /\ updates = IF o.updates.has THEN o.updates.cols \ Targets(o)
                   ELSE (Range(cols) \ Range(pk)) \ Targets(o)
  <2>1. conflictTargetColumns(o, pk) = pk
    BY <1>2 DEF conflictTargetColumns
  <2>2. updates = upsertUpdateColumns(cols, pk, o)
    BY <2>1 DEF Conflict
  <2>3. r.conflict.columns = pk /\ r.conflict.target = o.target
    BY <1>1, <2>1 DEF Conflict
  <2>4. updates = IF o.updates.has THEN o.updates.cols \ Targets(o)
                   ELSE (Range(cols) \ Range(pk)) \ Targets(o)
    BY <2>2 DEF upsertUpdateColumns
  <2> HIDE DEF updates
  <2>5. r.conflict.updates = updates
    BY <1>1 DEF updates
  <2> QED BY <1>2, <2>3, <2>4, <2>5
<1> HIDE DEF updates
<1>4. end = InsertRow(st, f, r, "postgres")
  BY <1>1, InsertOne
<1>5. st.ok /\ st.rows = Before /\ st.touched = {} /\ ~Failed(st).ok
  BY TableIs, FailedIs
<1>6. arb \in Seq(Cols) /\ Range(arb) \subseteq {Primary}
  <2>1. arb = Keep(Unique, {k \in Cols : <<k>> = pk})
    BY <1>3 DEF Arbiters
  <2>2. arb \in Seq(Cols) /\ Range(arb) = Range(Unique) \cap {k \in Cols : <<k>> = pk}
    BY <2>1, KeepIs, WriteAssumption DEF NameAssumption
  <2>3. \A k : <<k>> = pk => k \in Range(pk)
    BY DEF Range
  <2> QED BY <2>2, <2>3
<1>7. keys \in Seq(Cols) /\ Range(keys) = Range(arb) \cap {k \in Cols : \E x \in Before : x[k] = new[k]}
  BY <1>6, KeepIs
<1>8. new[Primary] = id /\ \A c \in Cols : c \in Range(cols) => new[c] = row.vals[c]
  BY PrimaryIs DEF Stored, RowOf
<1> DEFINE held == CHOOSE x \in Before : x[keys[1]] = new[keys[1]]
           made == Changed(held, new, updates, o.assign)
<1> HIDE DEF arb, keys, new, st
<1>9. end = IF arb = <<>> THEN Failed(st)
            ELSE IF keys = <<>> THEN AddRow(st, new)
            ELSE IF updates = {} /\ o.assign = <<>> THEN st
            ELSE ChangeRow(st, held, made, "postgres")
  <2>1. keys = Taken(st.rows, new, arb) /\ held = Holder(st.rows, new, keys[1]) /\ new = Stored(st.rows, f)
    BY <1>5 DEF keys, Taken, new, held, Holder
  <2> HIDE DEF held
  <2> QED BY <1>1, <1>3, <1>4, <1>5, <2>1 DEF InsertRow, arb
<1> HIDE DEF held, made
<1>10. end.ok
  BY DEF st
<1> HIDE DEF end
<1>11. arb # <<>> /\ Primary \in Range(arb)
  <2>1. arb # <<>>
    BY <1>5, <1>9, <1>10
  <2> QED BY <2>1, <1>6, NotNothing
<1>12. CASE keys = <<>>
  <2>1. end.rows = Before \cup {new}
    <3>1. end = AddRow(st, new)
      BY <1>9, <1>11, <1>12
    <3> QED BY <1>5, <1>10, <3>1, AddRowIs
  <2>2. \A x \in Before : x[Primary] # id
    BY <1>7, <1>8, <1>11, <1>12, NothingInSeq, PrimaryIs
  <2> HIDE DEF id
  <2> QED BY <1>8, <2>1, <2>2 DEF Targeted, end, st, id
<1>13. CASE keys # <<>>
  <2>1. keys[1] = Primary /\ keys[1] \in Range(keys)
    BY <1>6, <1>7, <1>13, NotNothing
  <2>2. held \in Before /\ held[Primary] = id
    BY <1>7, <1>8, <2>1 DEF held
  <2>3. \A z \in Before : z[Primary] = id => z = held
    BY <2>2, WriteAssumption DEF KeyAssumption, Primary
  <2>4. end.rows = Before \/ end.rows = (Before \ {held}) \cup {made}
    <3>1. end = st \/ end = ChangeRow(st, held, made, "postgres")
      BY <1>9, <1>11, <1>13
    <3>2. CASE end = st
      BY <1>5, <3>2
    <3>3. CASE end = ChangeRow(st, held, made, "postgres")
      <4>1. ChangeRow(st, held, made, "postgres").ok
        BY <1>10, <3>3
      <4>2. ChangeRow(st, held, made, "postgres").rows = (st.rows \ {held}) \cup {made}
        BY <4>1, ChangeRowIs
      <4> QED BY <1>5, <3>3, <4>2
    <3> QED BY <3>1, <3>2, <3>3
  <2>5. \A c \in Cols : c \in updates => made[c] = new[c]
    BY ChangedIs DEF made
  <2>6. \A c \in Cols : c \notin updates /\ c \notin Targets(o) => made[c] = held[c]
    BY ChangedIs DEF Targets, made
  <2>7. made[Primary] = id
    BY <1>8, <2>2, <2>5, <2>6, PrimaryIs
  <2>8. ASSUME NEW c \in Cols
        PROVE  \/ made[c] = held[c] \/ c \in Targets(o)
               \/ /\ Included(row, o, c) /\ ~isPK(row, o, c)
                  /\ o.updates.has => c \in o.updates.cols
                  /\ made[c] = row.vals[c]
    <3>1. CASE c \notin updates
      BY <2>6, <3>1
    <3>2. CASE c \in updates
      <4>1. c \in Range(cols) /\ made[c] = row.vals[c]
        BY <1>8, <2>5, <3>2 DEF updates
      <4>2. o.updates.has => c \in o.updates.cols
        BY <1>3, <3>2
      <4>3. CASE isPK(row, o, c)
        BY <2>2, <2>7, <4>3, <4>1
      <4> QED BY <1>2, <4>1, <4>2, <4>3
    <3> QED BY <3>1, <3>2
  <2> HIDE DEF id
  <2>9. CASE end.rows = Before
    <3>1. \A a \in Before, b \in Before : (a[Primary] = id /\ b[Primary] = id) => a = b
      BY <2>3
    <3> QED BY <2>9, <3>1 DEF Targeted, end, st, id
  <2>10. CASE end.rows = (Before \ {held}) \cup {made}
    <3> DEFINE after == (Before \ {held}) \cup {made}
    <3>1. {a \in Before : a[Primary] # id} = {a \in after : a[Primary] # id}
      BY <2>2, <2>7
    <3>2. \A a \in Before, b \in after : (a[Primary] = id /\ b[Primary] = id) => a = held /\ b = made
      BY <2>3
    <3> HIDE DEF after
    <3>3. ASSUME NEW a \in Before, NEW b \in after, a[Primary] = id, b[Primary] = id, NEW c \in Cols
          PROVE  \/ b[c] = a[c] \/ c \in Targets(o)
                 \/ /\ Included(row, o, c) /\ ~isPK(row, o, c)
                    /\ o.updates.has => c \in o.updates.cols
                    /\ b[c] = row.vals[c]
      BY <2>8, <3>2, <3>3
    <3>4. Targeted("upsert", row, o, after)
      BY <3>1, <3>3 DEF Targeted, id
    <3> QED BY <2>10, <3>4 DEF end, st, after
  <2> QED BY <2>4, <2>9, <2>10
<1> QED BY <1>12, <1>13

\* A call and the table it left.
Made(op, rows, o, d, req) ==
    LET end == Executed(req, d, Before) IN
    [op |-> op, rows |-> rows, o |-> o, d |-> d, ok |-> end.ok, after |-> end.rows]

LEMMA MadeIs ==
  ASSUME NEW op, NEW rows, NEW o, NEW d, NEW req
  PROVE  /\ Made(op, rows, o, d, req).op = op /\ Made(op, rows, o, d, req).rows = rows
         /\ Made(op, rows, o, d, req).o = o /\ Made(op, rows, o, d, req).d = d
         /\ Made(op, rows, o, d, req).after = Executed(req, d, Before).rows
         /\ Made(op, rows, o, d, req).ok => Executed(req, d, Before).ok
<1> DEFINE end == Executed(req, d, Before)
<1>1. Made(op, rows, o, d, req) =
        [op |-> op, rows |-> rows, o |-> o, d |-> d, ok |-> end.ok, after |-> end.rows]
  BY DEF Made
<1> HIDE DEF end
<1>2. /\ Made(op, rows, o, d, req).op = op /\ Made(op, rows, o, d, req).rows = rows
      /\ Made(op, rows, o, d, req).o = o /\ Made(op, rows, o, d, req).d = d
      /\ Made(op, rows, o, d, req).after = end.rows
  BY <1>1
<1>3. Made(op, rows, o, d, req).ok => end.ok
  BY <1>1
<1> QED BY <1>2, <1>3 DEF end

\* The value's key columns are the table's primary key, which no assignment sets.
KeyOnly(row, o) == {c \in Range(Columns(row)) : isPK(row, o, c)} = {Primary} /\ Primary \notin Targets(o)

LEMMA UpdateCall ==
  ASSUME NEW row, NEW o, NEW d, NEW ord \in IterationOrders, KeyOnly(row, o),
         Executed(buildUpdateInput(row, o, ord), d, Before).ok
  PROVE  Targeted("update", row, o, Executed(buildUpdateInput(row, o, ord), d, Before).rows)
<1> DEFINE req == buildUpdateInput(row, o, ord)
<1>1. req # NoRequest
  BY NothingExecuted
<1>2. PICK r : req = {r} /\ UpdateAsks(r, row, o)
  BY <1>1, UpdateRequest
<1>3. Executed({r}, d, Before).ok
  BY <1>2
<1>4. r.op = "update"
  BY <1>2 DEF UpdateAsks
<1>5. Executed({r}, d, Before) = UpdateRows(Table(Before, {}), r) /\ UpdateRows(Table(Before, {}), r).ok
  BY <1>3, <1>4, ExecutedIs
<1>6. Targeted("update", row, o, UpdateRows(Table(Before, {}), r).rows)
  BY <1>2, <1>5, UpdateTargeted DEF KeyOnly
<1> QED BY <1>2, <1>5, <1>6

LEMMA UpsertCall ==
  ASSUME NEW row, NEW o, NEW ord \in IterationOrders, KeyOnly(row, o), o.wherePK, ~hasConflictTarget(o),
         Executed(buildUpsertInput(row, o, ord), "postgres", Before).ok
  PROVE  Targeted("upsert", row, o, Executed(buildUpsertInput(row, o, ord), "postgres", Before).rows)
<1> DEFINE req == buildUpsertInput(row, o, ord)
           cols == upsertColumns(row, o, ord)
           pk == Keep(cols, {c \in Range(cols) : isPK(row, o, c)})
           r == RequestOf("upsert", cols, ArgsOf(row, cols), 1, pk, o)
           end == InsertRows(Table(Before, {}), r, "postgres")
<1>1. req # NoRequest
  BY NothingExecuted
<1>2. /\ req = {r} /\ cols \in Seq(Cols)
      /\ Range(cols) = Range(ord) \cap
           {c \in Range(Columns(row)) : isPK(row, o, c) \/ isConflictColumn(o, c) \/ Included(row, o, c)}
      /\ pk \in Seq(Cols) /\ Range(pk) = {c \in Range(cols) : isPK(row, o, c)}
      /\ o.wherePK => pk # <<>>
      /\ isMap(row) /\ o.wherePK => o.pk \subseteq DOMAIN row.vals
      /\ Conflict(cols, pk, o).updates \subseteq Range(cols)
  <2>1. ord \in Seq(Cols)
    BY OrderIs
  <2>2. UpsertAsks(row, o, ord)
    BY <1>1, <2>1, UpsertRequest DEF req
  <2> QED BY <2>2 DEF UpsertAsks
<1>3. r.op = "upsert"
  BY DEF RequestOf
<1> HIDE DEF cols, pk, req
<1>4. Range(pk) # {}
  BY <1>2, NotNothing
<1>5. Range(pk) = {Primary} /\ Primary \in Range(cols) /\ \A c \in Range(cols) : isPK(row, o, c) => c = Primary
  BY <1>2, <1>4 DEF KeyOnly
<1> HIDE DEF r
<1>6. Executed({r}, "postgres", Before).ok
  BY <1>2 DEF req
<1>7. Executed({r}, "postgres", Before) = end /\ end.ok
  BY <1>3, <1>6, ExecutedIs
<1>8. \A c \in Range(cols) : isPK(row, o, c) \/ isConflictColumn(o, c) \/ Included(row, o, c)
  BY <1>2
<1>9. Primary \notin Targets(o)
  BY DEF KeyOnly
<1>10. r = RequestOf("upsert", cols, ArgsOf(row, cols), 1, pk, o)
  BY DEF r
<1>11. Targeted("upsert", row, o, end.rows)
  BY <1>2, <1>5, <1>7, <1>8, <1>9, <1>10, UpsertTargeted, SMTT(30)
<1> QED BY <1>2, <1>7, <1>11 DEF req

\* WriteIsTargeted of one call.
TargetedCall(x) ==
    (/\ x.ok /\ x.o.wherePK /\ ByPrimary(x)
     /\ x.op = "update" \/ (x.op = "upsert" /\ x.d = "postgres" /\ ~hasConflictTarget(x.o))) =>
       Targeted(x.op, x.rows[1], x.o, x.after)

LEMMA UpdateStep ==
  ASSUME NEW row, NEW o, NEW d, Update(row, o, d) PROVE WriteIsTargeted'
<1>1. PICK ord \in IterationOrders : Perform("update", <<row>>, o, d, buildUpdateInput(row, o, ord))
  BY DEF Update
<1> DEFINE req == buildUpdateInput(row, o, ord)
           x == Made("update", <<row>>, o, d, req)
<1>2. write' = {x}
  BY <1>1 DEF Perform, Made
<1>3. /\ x.op = "update" /\ x.rows = <<row>> /\ x.o = o /\ x.d = d
      /\ x.after = Executed(req, d, Before).rows
      /\ x.ok => Executed(req, d, Before).ok
  BY MadeIs
<1> HIDE DEF x
<1>4. x.rows[1] = row
  BY <1>3
<1>5. ByPrimary(x) => KeyOnly(row, o)
  BY <1>3, <1>4 DEF ByPrimary, KeyOnly, Primary
<1>6. TargetedCall(x)
  BY <1>3, <1>4, <1>5, UpdateCall DEF TargetedCall
<1> QED BY <1>2, <1>6 DEF TargetedCall, WriteIsTargeted, Targeted, Chosen, Primary

LEMMA UpsertStep ==
  ASSUME NEW row, NEW o, NEW d, Upsert(row, o, d) PROVE WriteIsTargeted'
<1>1. PICK ord \in IterationOrders : Perform("upsert", <<row>>, o, d, buildUpsertInput(row, o, ord))
  BY DEF Upsert
<1> DEFINE req == buildUpsertInput(row, o, ord)
           x == Made("upsert", <<row>>, o, d, req)
<1>2. write' = {x}
  BY <1>1 DEF Perform, Made
<1>3. /\ x.op = "upsert" /\ x.rows = <<row>> /\ x.o = o /\ x.d = d
      /\ x.after = Executed(req, d, Before).rows
      /\ x.ok => Executed(req, d, Before).ok
  BY MadeIs
<1> HIDE DEF x
<1>4. x.rows[1] = row
  BY <1>3
<1>5. ByPrimary(x) => KeyOnly(row, o)
  BY <1>3, <1>4 DEF ByPrimary, KeyOnly, Primary
<1>6. TargetedCall(x)
  BY <1>3, <1>4, <1>5, UpsertCall DEF TargetedCall
<1> QED BY <1>2, <1>6 DEF TargetedCall, WriteIsTargeted, Targeted, Chosen, Primary

LEMMA OtherStep ==
  ASSUME NEW op \in {"insert", "insertMany", "upsertMany"}, NEW rows, NEW o, NEW d, NEW req,
         Perform(op, rows, o, d, req)
  PROVE  WriteIsTargeted'
<1>1. \A x \in write' : x.op = op
  BY DEF Perform
<1> QED BY <1>1 DEF WriteIsTargeted

\* Update, and on PostgreSQL Upsert with WherePK, touch the row with the
\* value's primary key and no other, and change in it only what the call's
\* options, tags and assignments say, in whatever order Go goes through a map.
THEOREM WriteTargeted == MappingSpec => []WriteIsTargeted
<1>1. MappingInit => WriteIsTargeted
  BY DEF MappingInit, WriteIsTargeted
<1>2. WriteIsTargeted /\ [MappingNext]_write => WriteIsTargeted'
  <2> SUFFICES ASSUME WriteIsTargeted, [MappingNext]_write PROVE WriteIsTargeted'
    OBVIOUS
  <2>1. CASE UNCHANGED write
    BY <2>1 DEF WriteIsTargeted
  <2>2. CASE MappingNext
    <3>1. PICK rs \in RowSets, o \in Options, d \in Dialects :
             \/ \E row \in rs : Insert(row, o, d) \/ Update(row, o, d) \/ Upsert(row, o, d)
             \/ \E n \in 0..MaxBatch : \E rows \in [1..n -> rs] : InsertMany(rows, o, d) \/ UpsertMany(rows, o, d)
      BY <2>2 DEF MappingNext
    <3>2. ASSUME NEW row \in rs, Insert(row, o, d) PROVE WriteIsTargeted'
      BY <3>2, OtherStep DEF Insert
    <3>3. ASSUME NEW row \in rs, Update(row, o, d) PROVE WriteIsTargeted'
      BY <3>3, UpdateStep
    <3>4. ASSUME NEW row \in rs, Upsert(row, o, d) PROVE WriteIsTargeted'
      BY <3>4, UpsertStep
    <3>5. ASSUME NEW n \in 0..MaxBatch, NEW rows \in [1..n -> rs], InsertMany(rows, o, d)
          PROVE  WriteIsTargeted'
      BY <3>5, OtherStep DEF InsertMany
    <3>6. ASSUME NEW n \in 0..MaxBatch, NEW rows \in [1..n -> rs], UpsertMany(rows, o, d)
          PROVE  WriteIsTargeted'
      BY <3>6, OtherStep DEF UpsertMany
    <3> QED BY <3>1, <3>2, <3>3, <3>4, <3>5, <3>6
  <2> QED BY <2>1, <2>2
<1> QED BY <1>1, <1>2, PTL DEF MappingSpec

(***************************************************************************)
(* A batch and its rows one by one.                                        *)
(***************************************************************************)
LEMMA ProductGrows == \A L \in Nat : \A i, k \in Nat : k <= i => k * L <= i * L
<1> SUFFICES ASSUME NEW L \in Nat, NEW i \in Nat, NEW k \in Nat, k <= i PROVE k * L <= i * L
  OBVIOUS
<1>1. i - k \in Nat /\ (i - k) * L \in Nat
  OBVIOUS
<1>2. i * L = k * L + (i - k) * L
  OBVIOUS
<1> HIDE <1>1
<1>3. k * L \in Nat /\ i * L \in Nat
  OBVIOUS
<1> QED BY <1>1, <1>2, <1>3

LEMMA NextProduct == \A L, i \in Nat : (i + 1) * L = i * L + L /\ i * L \in Nat /\ (i + 1) - 1 = i
OBVIOUS

LEMMA WithinProduct ==
  \A L, i, k \in Nat : \A j \in 1..L : k + 1 <= i => k * L + j \in 1..(i * L)
<1> SUFFICES ASSUME NEW L \in Nat, NEW i \in Nat, NEW k \in Nat, NEW j \in 1..L, k + 1 <= i
             PROVE  k * L + j \in 1..(i * L)
  OBVIOUS
<1>1. (k + 1) * L <= i * L
  BY ProductGrows
<1>2. (k + 1) * L = k * L + L /\ k * L \in Nat /\ i * L \in Nat
  BY NextProduct
<1> DEFINE a == k * L
           b == i * L
<1>3. a \in Nat /\ b \in Nat /\ a + L <= b
  BY <1>1, <1>2
<1> HIDE DEF a, b
<1>4. a + j \in 1..b
  BY <1>3
<1> QED BY <1>4 DEF a, b

LEMMA ConcatIs ==
  ASSUME NEW V, NEW s \in Seq(V), NEW t \in Seq(V)
  PROVE  /\ s \o t \in Seq(V) /\ Len(s \o t) = Len(s) + Len(t)
         /\ \A j \in 1..Len(s) : (s \o t)[j] = s[j]
         /\ \A j \in 1..Len(t) : (s \o t)[Len(s) + j] = t[j]
OBVIOUS

\* The argument lists FlattenSeq goes through.
Flattening(seqs, n, f) == f = [i \in 1..n |-> IF i = 1 THEN seqs[i] ELSE f[i - 1] \o seqs[i]]

LEMMA FlatNext ==
  \A n \in Nat : /\ \A i \in 1..n : i \in 1..(n + 1)
                 /\ \A i \in 1..(n + 1) : i # 1 => i - 1 \in 1..n
                 /\ n + 1 # 0
OBVIOUS

LEMMA FlatteningExists ==
  ASSUME NEW seqs, NEW m \in Nat
  PROVE  \E f : Flattening(seqs, m, f)
<1> DEFINE D == {n \in 0..m : \E f : Flattening(seqs, n, f)}
<1>1. 0 \in D
  <2> DEFINE f == [i \in 1..0 |-> seqs]
  <2>1. Flattening(seqs, 0, f)
    BY DEF Flattening
  <2> HIDE DEF f
  <2> QED BY <2>1
<1>2. ASSUME NEW n \in 0..m, n \in D, n < m PROVE n + 1 \in D
  <2>1. PICK f : Flattening(seqs, n, f)
    BY <1>2
  <2> DEFINE T(i) == IF i = 1 THEN seqs[i] ELSE f[i - 1] \o seqs[i]
             g == [i \in 1..(n + 1) |-> T(i)]
  <2>2. \A i \in 1..n : g[i] = f[i]
    <3>1. \A i \in 1..n : f[i] = T(i)
      BY <2>1 DEF Flattening
    <3>2. \A i \in 1..n : g[i] = T(i)
      <4>1. \A i \in 1..n : i \in 1..(n + 1)
        BY FlatNext
      <4> HIDE DEF T
      <4> QED BY <4>1
    <3> HIDE DEF T, g
    <3> QED BY <3>1, <3>2
  <2>3. \A i \in 1..(n + 1) : i # 1 => g[i - 1] = f[i - 1]
    <3> HIDE DEF g
    <3> QED BY <2>2, FlatNext
  <2>4. g = [i \in 1..(n + 1) |-> IF i = 1 THEN seqs[i] ELSE g[i - 1] \o seqs[i]]
    <3>1. \A i \in 1..(n + 1) : T(i) = IF i = 1 THEN seqs[i] ELSE g[i - 1] \o seqs[i]
      <4> HIDE DEF g
      <4> QED BY <2>3
    <3> HIDE DEF T
    <3> QED BY <3>1
  <2> HIDE DEF g
  <2>5. Flattening(seqs, n + 1, g)
    BY <2>4 DEF Flattening
  <2> QED BY <1>2, <2>5, UpToNext
<1>3. m \in D
  <2> HIDE DEF D
  <2>1. \A n \in 0..m : n \in D
    BY <1>1, <1>2, UpTo
  <2> QED BY <2>1
<1> QED BY <1>3

\* n lists of L arguments each.
Lists(seqs, n, L, V) == Len(seqs) = n /\ \A i \in 1..n : seqs[i] \in Seq(V) /\ Len(seqs[i]) = L

\* What appending the rows' argument lists one after another gives.
LEMMA FlattenIs ==
  \A V : \A n, L \in Nat : \A seqs : (n # 0 /\ Lists(seqs, n, L, V)) =>
     \A i \in 1..n : \A j \in 1..L : At(FlattenSeq(seqs), L, i, j) = seqs[i][j]
<1> SUFFICES ASSUME NEW V, NEW n \in Nat, NEW L \in Nat, NEW seqs, n # 0, Lists(seqs, n, L, V)
             PROVE  \A i \in 1..n : \A j \in 1..L : At(FlattenSeq(seqs), L, i, j) = seqs[i][j]
  OBVIOUS
<1> DEFINE f == CHOOSE f : Flattening(seqs, n, f)
<1>1. FlattenSeq(seqs) = f[n]
  BY DEF FlattenSeq, Flattening, Lists
<1>2. Flattening(seqs, n, f)
  BY FlatteningExists
<1> HIDE DEF f
<1>3. \A i \in 1..n : seqs[i] \in Seq(V) /\ Len(seqs[i]) = L
  BY DEF Lists
<1>4. f[1] = seqs[1] /\ \A i \in 1..n : i # 1 => f[i] = f[i - 1] \o seqs[i]
  <2>1. 1 \in 1..n
    OBVIOUS
  <2>2. \A i \in 1..n : f[i] = IF i = 1 THEN seqs[i] ELSE f[i - 1] \o seqs[i]
    BY <1>2 DEF Flattening
  <2> QED BY <2>1, <2>2
<1> DEFINE Fine(i) == /\ f[i] \in Seq(V) /\ Len(f[i]) = i * L
                      /\ \A k \in 1..i : \A j \in 1..L : f[i][(k - 1) * L + j] = seqs[k][j]
           D == {i \in 0..n : i = 0 \/ Fine(i)}
<1>5. 0 \in D
  OBVIOUS
<1>6. ASSUME NEW i \in 0..n, i \in D, i < n PROVE i + 1 \in D
  <2>1. i \in Nat /\ i + 1 \in 1..n /\ i + 1 \in 0..n /\ i + 1 # 0
    BY <1>6
  <2>2. CASE i = 0
    <3>1. 1 \in 1..n /\ f[1] \in Seq(V) /\ Len(f[1]) = L
      BY <1>3, <1>4, <2>1, <2>2
    <3>2. 1 * L = L /\ \A j \in 1..L : (1 - 1) * L + j = j
      OBVIOUS
    <3>3. \A k \in 1..1 : k = 1
      OBVIOUS
    <3>4. Fine(1)
      BY <1>4, <3>1, <3>2, <3>3
    <3> QED BY <2>1, <2>2, <3>4
  <2>3. CASE i # 0
    <3>1. Fine(i)
      BY <1>6, <2>3
    <3>2. f[i + 1] = f[i] \o seqs[i + 1] /\ seqs[i + 1] \in Seq(V) /\ Len(seqs[i + 1]) = L
      <4>1. (i + 1) - 1 = i /\ i + 1 # 1
        BY <2>1, <2>3
      <4>2. f[i + 1] = f[(i + 1) - 1] \o seqs[i + 1]
        BY <1>4, <2>1, <4>1
      <4> QED BY <1>3, <2>1, <4>1, <4>2
    <3>3. /\ f[i + 1] \in Seq(V) /\ Len(f[i + 1]) = i * L + L
          /\ \A j \in 1..(i * L) : f[i + 1][j] = f[i][j]
          /\ \A j \in 1..L : f[i + 1][i * L + j] = seqs[i + 1][j]
      <4> DEFINE s == f[i]
                 t == seqs[i + 1]
      <4>1. s \in Seq(V) /\ t \in Seq(V) /\ Len(s) = i * L /\ Len(t) = L /\ f[i + 1] = s \o t
        BY <3>1, <3>2
      <4> HIDE DEF s, t
      <4>4. s \in Seq(V) /\ t \in Seq(V)
        BY <4>1
      <4>2. /\ s \o t \in Seq(V) /\ Len(s \o t) = Len(s) + Len(t)
            /\ \A j \in 1..Len(s) : (s \o t)[j] = s[j]
            /\ \A j \in 1..Len(t) : (s \o t)[Len(s) + j] = t[j]
        BY <4>4, ConcatIs
      <4>3. /\ f[i + 1] \in Seq(V) /\ Len(f[i + 1]) = i * L + L
            /\ \A j \in 1..(i * L) : f[i + 1][j] = s[j]
            /\ \A j \in 1..L : f[i + 1][i * L + j] = t[j]
        BY <4>1, <4>2
      <4> QED BY <4>3 DEF s, t
    <3>4. ASSUME NEW k \in 1..(i + 1), NEW j \in 1..L PROVE f[i + 1][(k - 1) * L + j] = seqs[k][j]
      <4>1. CASE k = i + 1
        BY <2>1, <3>3, <4>1, NextProduct
      <4>2. CASE k # i + 1
        <5>1. k \in 1..i /\ k - 1 \in Nat /\ (k - 1) + 1 <= i
          BY <2>1, <4>2
        <5>2. (k - 1) * L + j \in 1..(i * L)
          BY <2>1, <5>1, WithinProduct
        <5> QED BY <3>1, <3>3, <5>1, <5>2
      <4> QED BY <4>1, <4>2
    <3>5. Fine(i + 1)
      BY <2>1, <3>3, <3>4, NextProduct
    <3> QED BY <2>1, <3>5
  <2> QED BY <2>2, <2>3
<1>7. \A i \in 0..n : i \in D
  <2> HIDE DEF D
  <2> QED BY <1>5, <1>6, UpTo
<1>8. Fine(n)
  BY <1>7
<1>9. \A i \in 1..n : \A j \in 1..L : At(f[n], L, i, j) = seqs[i][j]
  BY <1>8 DEF At
<1> QED BY <1>1, <1>9

\* Every row of a batch is cut out with its own values.
LEMMA BatchRows ==
  ASSUME NEW n \in Nat, n # 0, NEW rows, DOMAIN rows = 1..n, NEW cols \in Seq(Cols),
         NEW columns, DOMAIN columns = 1..n, \A i \in 1..n : columns[i] = cols
  PROVE  RowsOf(cols, ArgsOfAll(rows, columns), n) = [i \in 1..n |-> RowOf(rows[i], cols)]
<1> DEFINE L == Len(cols)
           V == {rows[i].vals[c] : i \in 1..n, c \in Range(cols)}
           seqs == [i \in 1..n |-> ArgsOf(rows[i], columns[i])]
           args == FlattenSeq(seqs)
           v == [i \in 1..n |-> rows[i].vals]
<1>1. ArgsOfAll(rows, columns) = args
  BY DEF ArgsOfAll
<1>2. L \in Nat /\ DOMAIN cols = 1..L /\ Range(cols) = {cols[j] : j \in 1..L}
  BY RangeIs
<1>3. ASSUME NEW i \in 1..n
      PROVE  seqs[i] \in Seq(V) /\ Len(seqs[i]) = L /\ \A j \in 1..L : seqs[i][j] = rows[i].vals[cols[j]]
  <2> DEFINE s == [j \in 1..L |-> rows[i].vals[cols[j]]]
  <2>1. seqs[i] = s
    BY <1>2 DEF ArgsOf
  <2>2. \A j \in 1..L : rows[i].vals[cols[j]] \in V
    BY <1>2
  <2> HIDE DEF V, seqs
  <2>3. s \in [1..L -> V]
    BY <2>2
  <2>4. s \in Seq(V) /\ Len(s) = L
    <3> HIDE DEF s, L
    <3> QED BY <1>2, <2>3
  <2> QED BY <2>1, <2>4
<1>4. Len(seqs) = n
  OBVIOUS
<1> HIDE DEF V, seqs, args, L
<1>5. \A i \in 1..n : \A j \in 1..L : At(args, L, i, j) = seqs[i][j]
  <2>1. Lists(seqs, n, L, V)
    BY <1>3, <1>4 DEF Lists
  <2>2. L \in Nat
    BY <1>2
  <2> QED BY <2>1, <2>2, FlattenIs DEF args
<1>6. \A i \in 1..n : v[i] = rows[i].vals
  OBVIOUS
<1> HIDE DEF v
<1>7. \A i \in 1..n : \A j \in 1..Len(cols) : At(args, Len(cols), i, j) = v[i][cols[j]]
  BY <1>3, <1>5, <1>6 DEF L
<1>8. RowsOf(cols, args, n) = [i \in 1..n |-> [c \in Range(cols) |-> v[i][c]]]
  BY <1>7, CutRows, SMTT(30)
<1>9. \A i \in 1..n : [c \in Range(cols) |-> v[i][c]] = RowOf(rows[i], cols)
  BY <1>6 DEF RowOf
<1> QED BY <1>1, <1>8, <1>9

\* Two requests that treat a row alike.
Alike(r, s, d) ==
    /\ s.op = r.op /\ s.assign = r.assign /\ s.conflict.updates = r.conflict.updates
    /\ Arbiters(s, d) = Arbiters(r, d)

LEMMA AlikeIs ==
  ASSUME NEW r, NEW s, NEW d, NEW st, NEW row, Alike(r, s, d)
  PROVE  InsertRow(st, row, s, d) = InsertRow(st, row, r, d)
BY DEF Alike, InsertRow

\* A statement that failed at a row has failed.
LEMMA StaysFailed == \A st, row, r, d : ~st.ok => ~InsertRow(st, row, r, d).ok
BY DEF InsertRow

\* A row that a statement takes after others is taken as well as the first of
\* its own, and does the same.
LEMMA Alone ==
  ASSUME NEW st, NEW row, NEW r, NEW d, InsertRow(st, row, r, d).ok
  PROVE  /\ InsertRow(Table(st.rows, {}), row, r, d).ok
         /\ InsertRow(Table(st.rows, {}), row, r, d).rows = InsertRow(st, row, r, d).rows
<1> DEFINE new == Stored(st.rows, row)
           keys == Taken(st.rows, new, Arbiters(r, d))
           x == Holder(st.rows, new, keys[1])
           y == Changed(x, new, r.conflict.updates, r.assign)
           t == Table(st.rows, {})
           stuck == r.op = "upsert" /\ Arbiters(r, d) = <<>>
           adds == r.op = "insert" \/ keys = <<>>
           idle == r.conflict.updates = {} /\ r.assign = <<>>
           Outcome(s) == IF ~s.ok THEN s ELSE IF stuck THEN Failed(s) ELSE IF adds THEN AddRow(s, new)
                         ELSE IF idle THEN s ELSE ChangeRow(s, x, y, d)
<1>1. t.ok /\ t.rows = st.rows /\ t.touched = {}
  BY TableIs
<1>2. InsertRow(st, row, r, d) = Outcome(st)
  BY DEF InsertRow
<1>3. InsertRow(t, row, r, d) = Outcome(t)
  BY <1>1 DEF InsertRow
<1> HIDE DEF t, new, keys, x, y, stuck, adds, idle
<1>4. st.ok /\ ~stuck
  BY <1>2, FailedIs
<1>5. CASE adds
  <2>1. Outcome(st) = AddRow(st, new) /\ Outcome(t) = AddRow(t, new)
    BY <1>1, <1>4, <1>5
  <2>2. AddRow(st, new).ok
    BY <1>2, <2>1
  <2>3. AddRow(st, new).rows = st.rows \cup {new} /\ \A z \in st.rows : Keyed({z, new}) /\ z # new
    BY <2>2, AddRowIs
  <2>4. AddRow(t, new) = Table(t.rows \cup {new}, t.touched \cup {new})
    BY <1>1, <2>3 DEF AddRow
  <2>5. AddRow(t, new).ok /\ AddRow(t, new).rows = st.rows \cup {new}
    BY <1>1, <2>4, TableIs
  <2> QED BY <1>2, <1>3, <2>1, <2>3, <2>5 DEF t
<1>6. CASE ~adds /\ idle
  <2>1. Outcome(st) = st /\ Outcome(t) = t
    BY <1>1, <1>4, <1>6
  <2> QED BY <1>1, <1>2, <1>3, <2>1 DEF t
<1>7. CASE ~adds /\ ~idle
  <2> DEFINE rows == (st.rows \ {x}) \cup {y}
  <2>1. Outcome(st) = ChangeRow(st, x, y, d) /\ Outcome(t) = ChangeRow(t, x, y, d)
    BY <1>1, <1>4, <1>7
  <2>2. ChangeRow(st, x, y, d).ok
    BY <1>2, <2>1
  <2>3. ChangeRow(st, x, y, d).rows = rows /\ Keyed(rows)
    BY <2>2, ChangeRowIs, ChangeRowKeyed
  <2>4. ChangeRow(t, x, y, d) = Table((t.rows \ {x}) \cup {y}, (t.touched \ {x}) \cup {y})
    BY <1>1, <2>3 DEF ChangeRow
  <2>5. ChangeRow(t, x, y, d).ok /\ ChangeRow(t, x, y, d).rows = rows
    BY <1>1, <2>4, TableIs
  <2> QED BY <1>2, <1>3, <2>1, <2>3, <2>5 DEF t
<1> QED BY <1>5, <1>6, <1>7

(***************************************************************************)
(* The columns of a row.                                                   *)
(***************************************************************************)
LEMMA RowIs ==
  ASSUME NEW rs \in RowSets, NEW row \in rs
  PROVE  /\ row.typ \in Seq(Range(row.typ)) /\ IsInjective(structColumnNames(row.typ))
         /\ Range(Columns(row)) = DOMAIN row.vals /\ DOMAIN row.vals \subseteq Cols
BY WriteAssumption DEF RowAssumption

LEMMA NamesIs ==
  ASSUME NEW rs \in RowSets, NEW row \in rs, ~isMap(row)
  PROVE  structColumnNames(row.typ) \in Seq(Cols) /\ Columns(row) = structColumnNames(row.typ)
<1> DEFINE typ == row.typ
           names == structColumnNames(typ)
<1>1. Columns(row) = names
  BY DEF Columns
<1>2. typ \in Seq(Range(typ)) /\ Range(names) \subseteq Cols
  BY <1>1, RowIs
<1> HIDE DEF typ
<1>3. DOMAIN typ = 1..Len(typ) /\ Len(typ) \in Nat
  BY <1>2, RangeIs
<1>4. names = [i \in 1..Len(typ) |-> names[i]] /\ DOMAIN names = 1..Len(typ)
  BY <1>3 DEF structColumnNames
<1> HIDE DEF names
<1>5. \A i \in 1..Len(typ) : names[i] \in Cols
  BY <1>2, <1>4 DEF Range
<1>6. names \in [1..Len(typ) -> Cols]
  BY <1>4, <1>5
<1>7. names \in Seq(Cols)
  BY <1>3, <1>6
<1> QED BY <1>1, <1>7 DEF names, typ

LEMMA ColumnsIs ==
  ASSUME NEW rs \in RowSets, NEW row \in rs
  PROVE  /\ Columns(row) \in Seq(Cols) /\ IsInjective(Columns(row))
         /\ Range(Columns(row)) = DOMAIN row.vals /\ DOMAIN row.vals \subseteq Cols
<1>1. CASE isMap(row)
  <2>1. Columns(row) = Sorted(DOMAIN row.vals)
    BY <1>1 DEF Columns
  <2> QED BY <2>1, SortedIs, RowIs
<1>2. CASE ~isMap(row)
  BY <1>2, NamesIs, RowIs
<1> QED BY <1>1, <1>2

LEMMA InsertColumnsAre ==
  ASSUME NEW rs \in RowSets, NEW row \in rs, NEW o
  PROVE  /\ insertColumns(row, o) \in Seq(Cols)
         /\ Range(insertColumns(row, o)) = {c \in DOMAIN row.vals : Included(row, o, c)}
<1> DEFINE S == {c \in Range(Columns(row)) : Included(row, o, c)}
<1>1. insertColumns(row, o) = Keep(Columns(row), S)
  BY DEF insertColumns
<1>2. Columns(row) \in Seq(Cols) /\ Range(Columns(row)) = DOMAIN row.vals
  BY ColumnsIs
<1> HIDE DEF S
<1>3. Keep(Columns(row), S) \in Seq(Cols) /\ Range(Keep(Columns(row), S)) = Range(Columns(row)) \cap S
  BY <1>2, KeepIs
<1> QED BY <1>1, <1>2, <1>3 DEF S

\* A map's columns have no tags.
LEMMA MapIncluded ==
  ASSUME NEW row, NEW o, NEW c, isMap(row)
  PROVE  Included(row, o, c) <=> (o.cols # {} => c \in o.cols) /\ c \notin o.omit
<1>1. Range(row.typ) = {}
  BY NothingInSeq DEF isMap
<1>2. Field(row, c) = Plain
  BY <1>1 DEF Field
<1>3. ~Plain.ro /\ ~Plain.oe
  BY DEF Plain
<1> QED BY <1>2, <1>3 DEF Included

\* The rows of a batch become the rows of one request.
Batch(r, op, rows, cols, pk, o) ==
    /\ r.op = op /\ r.assign = o.assign /\ r.where = <<>>
    /\ r.rows = [i \in 1..Len(rows) |-> RowOf(rows[i], cols)]
    /\ r.conflict = IF op = "upsert" THEN Conflict(cols, pk, o) ELSE NoConflict

LEMMA BatchIs ==
  ASSUME NEW n \in Nat, n # 0, NEW rows, DOMAIN rows = 1..n, Len(rows) = n, NEW cols \in Seq(Cols),
         NEW columns, DOMAIN columns = 1..n, \A i \in 1..n : columns[i] = cols, NEW op, NEW pk, NEW o
  PROVE  Batch(RequestOf(op, cols, ArgsOfAll(rows, columns), Len(rows), pk, o), op, rows, cols, pk, o)
<1> DEFINE args == ArgsOfAll(rows, columns)
           r == RequestOf(op, cols, args, Len(rows), pk, o)
<1>1. RowsOf(cols, args, n) = [i \in 1..n |-> RowOf(rows[i], cols)]
  BY BatchRows
<1> HIDE DEF args
<1>2. /\ r.op = op /\ r.assign = o.assign /\ r.where = <<>>
      /\ r.rows = RowsOf(cols, args, Len(rows))
      /\ r.conflict = IF op = "upsert" THEN Conflict(cols, pk, o) ELSE NoConflict
  BY DEF RequestOf
<1> HIDE DEF r
<1>3. Batch(r, op, rows, cols, pk, o)
  BY <1>1, <1>2 DEF Batch
<1> QED BY <1>3 DEF r, args

LEMMA InsertManyRequest ==
  ASSUME NEW rs \in RowSets, NEW n \in Nat, NEW rows \in [1..n -> rs], NEW o,
         buildInsertManyInput(rows, o) # NoRequest
  PROVE  /\ n # 0 /\ Len(rows) = n
         /\ \E cols \in Seq(Cols) : \E r :
               /\ buildInsertManyInput(rows, o) = {r} /\ Batch(r, "insert", rows, cols, <<>>, o)
               /\ \A i \in 1..n : Range(insertColumns(rows[i], o)) = Range(cols)
<1> DEFINE map == isMap(rows[1])
           T(i) == IF map THEN mapInsertManyColumnSet(rows[i], o) ELSE insertColumns(rows[i], o)
           columns == [i \in DOMAIN rows |-> T(i)]
           cols == columns[1]
           args == ArgsOfAll(rows, columns)
           input == newWriteInput("insert", cols, args, Len(rows), <<>>, o)
<1>1. /\ rows # <<>> /\ Uniform(rows, columns)
      /\ map => Complete(rows, cols)
      /\ buildInsertManyInput(rows, o) = input
  BY DEF buildInsertManyInput
<1>2. DOMAIN rows = 1..n /\ Len(rows) = n /\ n # 0 /\ 1 \in 1..n
  <2>1. DOMAIN rows = 1..n /\ Len(rows) = n
    OBVIOUS
  <2>2. n # 0
    BY <1>1, <2>1
  <2> QED BY <2>1, <2>2
<1>3. \A i \in 1..n : columns[i] = T(i) /\ columns[i] = cols /\ (isMap(rows[i]) <=> map)
  <2>1. \A i \in 1..n : rows[i].typ = rows[1].typ /\ sameColumns(columns[1], columns[i])
    BY <1>1, <1>2 DEF Uniform
  <2>2. \A i \in 1..n : columns[i] = T(i)
    BY <1>2
  <2> HIDE DEF columns, T
  <2> QED BY <2>1, <2>2 DEF sameColumns, isMap
<1>4. DOMAIN columns = 1..n
  BY <1>2
<1>5. \A i \in 1..n : Range(insertColumns(rows[i], o)) = Range(cols) /\ cols \in Seq(Cols)
  <2> SUFFICES ASSUME NEW i \in 1..n
               PROVE  Range(insertColumns(rows[i], o)) = Range(cols) /\ cols \in Seq(Cols)
    OBVIOUS
  <2>1. rows[i] \in rs
    OBVIOUS
  <2>2. /\ insertColumns(rows[i], o) \in Seq(Cols)
        /\ Range(insertColumns(rows[i], o)) = {c \in DOMAIN rows[i].vals : Included(rows[i], o, c)}
        /\ DOMAIN rows[i].vals \subseteq Cols
    BY <2>1, InsertColumnsAre, RowIs
  <2>3. CASE ~map
    <3>1. cols = insertColumns(rows[i], o)
      BY <1>3, <2>3
    <3> QED BY <2>2, <3>1
  <2>4. CASE map
    <3> DEFINE S == (IF o.cols # {} THEN o.cols ELSE DOMAIN rows[i].vals) \ o.omit
    <3>1. cols = Sorted(S)
      BY <1>3, <2>4 DEF mapInsertManyColumnSet
    <3>2. cols \in Seq(Cols) /\ Range(cols) = Cols \cap S
      <4> HIDE DEF S, cols
      <4> QED BY <3>1, SortedIs
    <3>3. Range(cols) \subseteq DOMAIN rows[i].vals
      BY <1>1, <1>2, <2>4 DEF Complete
    <3> HIDE DEF cols, columns
    <3>4. \A c : Included(rows[i], o, c) <=> (o.cols # {} => c \in o.cols) /\ c \notin o.omit
      BY <1>3, <2>4, MapIncluded
    <3> QED BY <2>2, <3>2, <3>3, <3>4
  <2> QED BY <2>3, <2>4
<1> HIDE DEF columns, args
<1> DEFINE r == RequestOf("insert", cols, args, Len(rows), <<>>, o)
<1>6. input = {r}
  BY <1>1, RequestIs
<1>7. cols \in Seq(Cols)
  BY <1>2, <1>5
<1>8. Batch(r, "insert", rows, cols, <<>>, o)
  <2>1. \A i \in 1..n : columns[i] = cols
    BY <1>3
  <2> HIDE DEF cols
  <2> QED BY <1>2, <1>4, <1>7, <2>1, BatchIs DEF args
<1> HIDE DEF r, cols
<1> QED BY <1>1, <1>2, <1>5, <1>6, <1>7, <1>8

(***************************************************************************)
(* The keys of an upsert.                                                  *)
(***************************************************************************)
LEMMA OnlyOne ==
  ASSUME NEW T, NEW p \in Seq(T), NEW k, Range(p) = {k}, IsInjective(p)
  PROVE  p = <<k>>
<1>1. DOMAIN p = 1..Len(p) /\ Len(p) \in Nat
  OBVIOUS
<1>2. \A i \in 1..Len(p) : p[i] = k
  BY <1>1 DEF Range
<1>3. Len(p) # 0
  <2>1. \E i \in DOMAIN p : p[i] = k
    BY DEF Range
  <2> QED BY <1>1, <2>1
<1>4. \A i, j \in 1..Len(p) : i = j
  BY <1>1, <1>2 DEF IsInjective
<1>5. Len(p) = 1
  <2>1. CASE Len(p) >= 2
    <3>1. 1 \in 1..Len(p) /\ 2 \in 1..Len(p)
      BY <1>1, <2>1
    <3>2. 1 = 2
      BY <1>4, <3>1
    <3> QED BY <3>2
  <2> QED BY <1>1, <1>3, <2>1
<1>6. 1 \in 1..Len(p)
  BY <1>5
<1>7. p[1] = k
  BY <1>2, <1>6
<1> QED BY <1>1, <1>5, <1>7

LEMMA SameSingleton ==
  ASSUME NEW T, NEW p \in Seq(T), NEW q \in Seq(T), IsInjective(p), IsInjective(q), Range(p) = Range(q)
  PROVE  \A k : <<k>> = p <=> <<k>> = q
<1> SUFFICES ASSUME NEW k PROVE <<k>> = p <=> <<k>> = q
  OBVIOUS
<1>1. Range(<<k>>) = {k}
  BY DEF Range
<1>2. ASSUME <<k>> = p PROVE <<k>> = q
  <2>1. Range(q) = {k}
    BY <1>1, <1>2
  <2> QED BY <2>1, OnlyOne
<1>3. ASSUME <<k>> = q PROVE <<k>> = p
  <2>1. Range(p) = {k}
    BY <1>1, <1>3
  <2> QED BY <2>1, OnlyOne
<1> QED BY <1>2, <1>3

\* The key columns of a batch's first row, and those of a row alone.
ManyKeys(row, o) == IF isMap(row) THEN Sorted(o.pk) ELSE PKCols(row.typ)
OneKeys(row, o, ord) ==
    LET cols == upsertColumns(row, o, ord) IN Keep(cols, {c \in Range(cols) : isPK(row, o, c)})

LEMMA FieldIs ==
  ASSUME NEW rs \in RowSets, NEW row \in rs, NEW g \in Range(row.typ)
  PROVE  Field(row, g.col) = g
<1> DEFINE fs == {f \in Range(row.typ) : f.col = g.col}
<1>1. \A f \in fs : f = g
  <2> SUFFICES ASSUME NEW f \in Range(row.typ), f.col = g.col PROVE f = g
    OBVIOUS
  <2>1. IsInjective(structColumnNames(row.typ))
    BY RowIs
  <2>2. PICK i \in DOMAIN row.typ : row.typ[i] = f
    BY DEF Range
  <2>3. PICK j \in DOMAIN row.typ : row.typ[j] = g
    BY DEF Range
  <2>4. structColumnNames(row.typ)[i] = structColumnNames(row.typ)[j] /\ DOMAIN structColumnNames(row.typ) = DOMAIN row.typ
    BY <2>2, <2>3 DEF structColumnNames
  <2>5. i = j
    BY <2>1, <2>4 DEF IsInjective
  <2> QED BY <2>2, <2>3, <2>5
<1>2. g \in fs
  OBVIOUS
<1>3. Field(row, g.col) = IF fs = {} THEN Plain ELSE CHOOSE f \in fs : TRUE
  BY DEF Field
<1> HIDE DEF fs
<1> QED BY <1>1, <1>2, <1>3

\* A struct's key columns are those with the tag.
LEMMA StructKeys ==
  ASSUME NEW rs \in RowSets, NEW row \in rs, NEW o, ~isMap(row)
  PROVE  /\ PKCols(row.typ) \in Seq(Cols) /\ IsInjective(PKCols(row.typ))
         /\ Range(PKCols(row.typ)) = {c \in DOMAIN row.vals : isPK(row, o, c)}
<1> DEFINE names == structColumnNames(row.typ)
           S == {f.col : f \in {g \in Range(row.typ) : g.pk}}
<1>1. PKCols(row.typ) = Keep(names, S)
  BY DEF PKCols
<1>2. names \in Seq(Cols) /\ IsInjective(names) /\ Range(names) = DOMAIN row.vals
  BY NamesIs, ColumnsIs
<1>3. \A c \in Range(names) : \E g \in Range(row.typ) : c = g.col
  BY DEF structColumnNames, Range
<1>4. \A c \in Range(names) : c \in S <=> isPK(row, o, c)
  <2> SUFFICES ASSUME NEW c \in Range(names) PROVE c \in S <=> isPK(row, o, c)
    OBVIOUS
  <2>1. PICK g \in Range(row.typ) : c = g.col
    BY <1>3
  <2>2. Field(row, c) = g
    BY <2>1, FieldIs
  <2>3. isPK(row, o, c) <=> g.pk
    BY <2>2 DEF isPK
  <2>4. ASSUME c \in S PROVE g.pk
    <3>1. PICK f \in Range(row.typ) : f.pk /\ c = f.col
      BY <2>4
    <3>2. Field(row, c) = f
      BY <3>1, FieldIs
    <3> QED BY <2>2, <3>1, <3>2
  <2>5. ASSUME g.pk PROVE c \in S
    BY <2>1, <2>5
  <2> QED BY <2>3, <2>4, <2>5
<1> HIDE DEF names, S
<1>5. /\ Keep(names, S) \in Seq(Cols) /\ Range(Keep(names, S)) = Range(names) \cap S
      /\ IsInjective(Keep(names, S))
  BY <1>2, KeepIs
<1> QED BY <1>1, <1>2, <1>4, <1>5

LEMMA OrderComplete == Range(ColOrder) = Cols /\ ColOrder \in Seq(Cols) /\ IsInjective(ColOrder)
BY OrderIs, WriteAssumption DEF Cols, NameAssumption

LEMMA UpsertColumnsAre ==
  ASSUME NEW rs \in RowSets, NEW row \in rs, NEW o, NEW ord \in Seq(Cols), IsInjective(ord),
         DOMAIN row.vals \subseteq Range(ord)
  PROVE  /\ upsertColumns(row, o, ord) \in Seq(Cols) /\ IsInjective(upsertColumns(row, o, ord))
         /\ Range(upsertColumns(row, o, ord)) =
              {c \in DOMAIN row.vals : isPK(row, o, c) \/ isConflictColumn(o, c) \/ Included(row, o, c)}
<1> DEFINE S == {c \in Range(Columns(row)) : isPK(row, o, c) \/ isConflictColumn(o, c) \/ Included(row, o, c)}
<1>1. upsertColumns(row, o, ord) = Keep(ord, S)
  BY DEF upsertColumns
<1>2. S = {c \in DOMAIN row.vals : isPK(row, o, c) \/ isConflictColumn(o, c) \/ Included(row, o, c)}
  BY ColumnsIs
<1>3. S \subseteq Range(ord)
  BY <1>2
<1> HIDE DEF S
<1>4. Keep(ord, S) \in Seq(Cols) /\ Range(Keep(ord, S)) = Range(ord) \cap S /\ IsInjective(Keep(ord, S))
  BY KeepIs
<1> QED BY <1>1, <1>2, <1>3, <1>4

LEMMA OneKeysAre ==
  ASSUME NEW rs \in RowSets, NEW row \in rs, NEW o
  PROVE  /\ OneKeys(row, o, ColOrder) \in Seq(Cols) /\ IsInjective(OneKeys(row, o, ColOrder))
         /\ Range(OneKeys(row, o, ColOrder)) = {c \in DOMAIN row.vals : isPK(row, o, c)}
<1> DEFINE cols == upsertColumns(row, o, ColOrder)
           S == {c \in Range(cols) : isPK(row, o, c)}
<1>1. OneKeys(row, o, ColOrder) = Keep(cols, S)
  BY DEF OneKeys
<1>2. /\ cols \in Seq(Cols) /\ IsInjective(cols)
      /\ Range(cols) = {c \in DOMAIN row.vals : isPK(row, o, c) \/ isConflictColumn(o, c) \/ Included(row, o, c)}
  BY OrderComplete, RowIs, UpsertColumnsAre
<1> HIDE DEF cols
<1>3. S = {c \in DOMAIN row.vals : isPK(row, o, c)} /\ S \subseteq Range(cols)
  BY <1>2
<1> HIDE DEF S
<1>4. Keep(cols, S) \in Seq(Cols) /\ Range(Keep(cols, S)) = Range(cols) \cap S /\ IsInjective(Keep(cols, S))
  BY <1>2, KeepIs
<1> QED BY <1>1, <1>3, <1>4

\* A batch's key columns are those of the row.
KeysFit(pk, row, o) ==
    /\ pk \in Seq(Cols) /\ IsInjective(pk)
    /\ Range(pk) \cap DOMAIN row.vals = {c \in DOMAIN row.vals : isPK(row, o, c)}
    /\ (isMap(row) => o.pk \subseteq DOMAIN row.vals) =>
          Range(pk) = {c \in DOMAIN row.vals : isPK(row, o, c)}

LEMMA ManyKeysAre ==
  ASSUME NEW rs \in RowSets, NEW first \in rs, NEW row \in rs, NEW o, first.typ = row.typ
  PROVE  KeysFit(ManyKeys(first, o), row, o)
<1>1. isMap(first) <=> isMap(row)
  BY DEF isMap
<1>2. DOMAIN row.vals \subseteq Cols
  BY RowIs
<1>3. CASE isMap(row)
  <2>1. ManyKeys(first, o) = Sorted(o.pk)
    BY <1>1, <1>3 DEF ManyKeys
  <2>2. /\ ManyKeys(first, o) \in Seq(Cols) /\ IsInjective(ManyKeys(first, o))
        /\ Range(ManyKeys(first, o)) = Cols \cap o.pk
    BY <2>1, SortedIs
  <2>3. \A c : isPK(row, o, c) <=> c \in o.pk
    BY <1>3 DEF isPK
  <2> QED BY <1>2, <1>3, <2>2, <2>3 DEF KeysFit
<1>4. CASE ~isMap(row)
  <2>1. ManyKeys(first, o) = PKCols(row.typ)
    BY <1>1, <1>4 DEF ManyKeys
  <2>2. /\ PKCols(row.typ) \in Seq(Cols) /\ IsInjective(PKCols(row.typ))
        /\ Range(PKCols(row.typ)) = {c \in DOMAIN row.vals : isPK(row, o, c)}
    BY <1>4, StructKeys
  <2> QED BY <2>1, <2>2 DEF KeysFit
<1> QED BY <1>3, <1>4

\* The batch's request, whose columns are those of every row alone.
UpsertsAll(req, rows, n, pk, o) ==
    \E cols \in Seq(Cols) : \E r :
       /\ req = {r} /\ Batch(r, "upsert", rows, cols, pk, o)
       /\ \A i \in 1..n : Range(upsertColumns(rows[i], o, ColOrder)) = Range(cols)

LEMMA UpsertManyRequest ==
  ASSUME NEW rs \in RowSets, NEW n \in Nat, NEW rows \in [1..n -> rs], NEW o,
         buildUpsertManyInput(rows, o) # NoRequest
  PROVE  /\ n # 0 /\ Len(rows) = n /\ ~UpsertRefused(rows[1], o)
         /\ o.wherePK => ManyKeys(rows[1], o) # <<>>
         /\ \A i \in 1..n : rows[i].typ = rows[1].typ
         /\ UpsertsAll(buildUpsertManyInput(rows, o), rows, n, ManyKeys(rows[1], o), o)
<1> DEFINE T(i) == upsertColumns(rows[i], o, Columns(rows[i]))
           columns == [i \in DOMAIN rows |-> T(i)]
           cols == columns[1]
           pk == ManyKeys(rows[1], o)
           args == ArgsOfAll(rows, columns)
           input == newWriteInput("upsert", cols, args, Len(rows), pk, o)
<1>1. /\ rows # <<>> /\ ~UpsertRefused(rows[1], o) /\ Uniform(rows, columns)
      /\ (o.wherePK => pk # <<>>)
      /\ buildUpsertManyInput(rows, o) = input
  BY DEF buildUpsertManyInput, ManyKeys
<1>2. DOMAIN rows = 1..n /\ Len(rows) = n /\ n # 0 /\ 1 \in 1..n
  <2>1. DOMAIN rows = 1..n /\ Len(rows) = n
    OBVIOUS
  <2>2. n # 0
    BY <1>1, <2>1
  <2> QED BY <2>1, <2>2
<1>3. \A i \in 1..n : columns[i] = T(i) /\ columns[i] = cols /\ rows[i].typ = rows[1].typ
  <2>1. \A i \in 1..n : rows[i].typ = rows[1].typ /\ sameColumns(columns[1], columns[i])
    BY <1>1, <1>2 DEF Uniform
  <2>2. \A i \in 1..n : columns[i] = T(i)
    BY <1>2
  <2> HIDE DEF columns, T
  <2> QED BY <2>1, <2>2 DEF sameColumns
<1>4. DOMAIN columns = 1..n
  BY <1>2
<1>5. \A i \in 1..n : Range(upsertColumns(rows[i], o, ColOrder)) = Range(cols) /\ cols \in Seq(Cols)
  <2> SUFFICES ASSUME NEW i \in 1..n
               PROVE  Range(upsertColumns(rows[i], o, ColOrder)) = Range(cols) /\ cols \in Seq(Cols)
    OBVIOUS
  <2>1. rows[i] \in rs
    OBVIOUS
  <2>2. cols = T(i)
    BY <1>3
  <2> HIDE DEF cols
  <2> DEFINE row == rows[i]
             S == {c \in DOMAIN row.vals : isPK(row, o, c) \/ isConflictColumn(o, c) \/ Included(row, o, c)}
  <2>3. /\ Columns(row) \in Seq(Cols) /\ IsInjective(Columns(row))
        /\ DOMAIN row.vals \subseteq Range(Columns(row)) /\ DOMAIN row.vals \subseteq Cols
    BY <2>1, ColumnsIs
  <2>4. T(i) \in Seq(Cols) /\ Range(T(i)) = S
    <3> HIDE DEF row
    <3>1. row \in rs
      BY <2>1 DEF row
    <3>2. /\ upsertColumns(row, o, Columns(row)) \in Seq(Cols)
          /\ Range(upsertColumns(row, o, Columns(row))) = S
      BY <2>3, <3>1, UpsertColumnsAre
    <3> QED BY <3>2 DEF row
  <2>5. Range(upsertColumns(row, o, ColOrder)) = S
    <3> HIDE DEF row
    <3>1. row \in rs
      BY <2>1 DEF row
    <3> QED BY <2>3, <3>1, OrderComplete, UpsertColumnsAre
  <2> QED BY <2>2, <2>4, <2>5
<1> HIDE DEF columns, args, pk
<1> DEFINE r == RequestOf("upsert", cols, args, Len(rows), pk, o)
<1>6. input = {r}
  BY <1>1, RequestIs
<1>7. cols \in Seq(Cols)
  BY <1>2, <1>5
<1>8. Batch(r, "upsert", rows, cols, pk, o)
  <2>1. \A i \in 1..n : columns[i] = cols
    BY <1>3
  <2> HIDE DEF cols
  <2> QED BY <1>2, <1>4, <1>7, <2>1, BatchIs DEF args
<1> HIDE DEF r, cols
<1>9. \A i \in 1..n : rows[i].typ = rows[1].typ
  BY <1>3
<1>10. \A i \in 1..n : Range(upsertColumns(rows[i], o, ColOrder)) = Range(cols)
  BY <1>5
<1>11. UpsertsAll(input, rows, n, pk, o)
  BY <1>6, <1>7, <1>8, <1>10 DEF UpsertsAll
<1> QED BY <1>1, <1>2, <1>9, <1>11 DEF pk

(***************************************************************************)
(* A row of a batch, and the row alone.                                    *)
(***************************************************************************)
\* The fields of a conflict clause.
LEMMA ConflictIs ==
  \A cols, pk, o :
     /\ Conflict(cols, pk, o).columns = conflictTargetColumns(o, pk)
     /\ Conflict(cols, pk, o).updates = upsertUpdateColumns(cols, conflictTargetColumns(o, pk), o)
     /\ Conflict(cols, pk, o).where = o.where /\ Conflict(cols, pk, o).target = o.target
     /\ Conflict(cols, pk, o).explicit <=> o.conflict # <<>>
BY ZenonT(60) DEF Conflict

\* Two conflict clauses of the same options that name the same columns.
LEMMA SameUpdates ==
  ASSUME NEW o, NEW cols, NEW one, NEW pk, NEW key, Range(one) = Range(cols),
         Range(cols) \cap Range(key) = Range(cols) \cap Range(pk)
  PROVE  Conflict(one, key, o).updates = Conflict(cols, pk, o).updates
<1> DEFINE t == conflictTargetColumns(o, pk)
           u == conflictTargetColumns(o, key)
<1>1. Range(one) \ Range(u) = Range(cols) \ Range(t)
  BY DEF conflictTargetColumns
<1> HIDE DEF t, u
<1>2. upsertUpdateColumns(one, u, o) = upsertUpdateColumns(cols, t, o)
  BY <1>1 DEF upsertUpdateColumns
<1> QED BY <1>2, ConflictIs DEF t, u

\* s asks for one row of what r asks for.
OneOf(r, s, row, d) == s.rows = <<row>> /\ Alike(r, s, d) /\ Planned(s, d) /\ ~Ambiguous(s, d)

LEMMA InsertAlike ==
  ASSUME NEW r, NEW s, NEW row, NEW o, NEW d, NEW pk, NEW rows, NEW cols, Batch(r, "insert", rows, cols, pk, o),
         s.op = "insert", s.assign = o.assign, s.conflict = NoConflict, s.rows = <<row>>, Planned(r, d)
  PROVE  OneOf(r, s, row, d)
<1>1. r.op = "insert" /\ r.assign = o.assign /\ r.conflict = NoConflict
  BY DEF Batch
<1>2. Alike(r, s, d)
  BY <1>1 DEF Alike, Arbiters
<1>3. Planned(s, d)
  BY <1>1 DEF Planned, Rendered
<1>4. ~Ambiguous(s, d)
  BY DEF Ambiguous
<1> QED BY <1>2, <1>3, <1>4 DEF OneOf

LEMMA UpsertAlike ==
  ASSUME NEW r, NEW s, NEW row, NEW first, NEW o, NEW d,
         NEW cols \in Seq(Cols), NEW one \in Seq(Cols), Range(one) = Range(cols),
         NEW pk \in Seq(Cols), NEW key \in Seq(Cols), IsInjective(pk), IsInjective(key),
         Range(cols) \cap Range(key) = Range(cols) \cap Range(pk),
         o.wherePK => Range(key) = Range(pk) /\ pk # <<>>,
         o.wherePK \/ hasConflictTarget(o),
         r.op = "upsert", r.assign = o.assign, r.conflict = Conflict(cols, pk, o), r.rows[1] = RowOf(first, cols),
         s.op = "upsert", s.assign = o.assign, s.conflict = Conflict(one, key, o), s.rows = <<RowOf(row, one)>>,
         Planned(r, d), ~Ambiguous(r, d)
  PROVE  OneOf(r, s, RowOf(row, one), d)
<1>1. s.conflict.updates = r.conflict.updates
  BY SameUpdates, SMTT(30)
<1>2. /\ s.conflict.where = o.where /\ r.conflict.where = o.where
      /\ s.conflict.target = o.target /\ r.conflict.target = o.target
      /\ s.conflict.explicit <=> o.conflict # <<>>
      /\ r.conflict.explicit <=> o.conflict # <<>>
  BY ConflictIs
<1>6. SUFFICES /\ Arbiters(s, d) = Arbiters(r, d)
               /\ conflictTarget(s.conflict, d)
               /\ o.conflict # <<>> => s.conflict.columns = o.conflict /\ r.conflict.columns = o.conflict
  <2>1. Alike(r, s, d)
    BY <1>1, <1>6 DEF Alike
  <2>2. s.rows[1] = RowOf(row, one) /\ DOMAIN s.rows[1] = DOMAIN r.rows[1]
    BY DEF RowOf
  <2>3. ConflictPresent(s)
    BY <1>2, <1>6, <2>2 DEF Planned, ConflictPresent
  <2>4. Rendered(s)
    BY DEF Planned, Rendered
  <2>5. Planned(s, d)
    BY <1>6, <2>3, <2>4 DEF Planned
  <2>6. ~Ambiguous(s, d)
    BY DEF Ambiguous
  <2> QED BY <2>1, <2>5, <2>6 DEF OneOf
<1>3. CASE o.conflict # <<>>
  <2>1. s.conflict.columns = o.conflict /\ r.conflict.columns = o.conflict
    BY <1>3, ConflictIs DEF conflictTargetColumns
  <2>2. Arbiters(s, d) = Arbiters(r, d)
    BY <1>2, <2>1 DEF Arbiters
  <2>3. conflictTarget(s.conflict, d)
    BY <1>2, <1>3, <2>1 DEF Planned, conflictTarget
  <2> QED BY <2>1, <2>2, <2>3
<1>4. CASE o.conflict = <<>> /\ o.target # ""
  <2>1. Arbiters(s, d) = Arbiters(r, d)
    BY <1>2, <1>4 DEF Arbiters
  <2>2. conflictTarget(s.conflict, d)
    BY <1>2, <1>4 DEF Planned, conflictTarget
  <2> QED BY <1>2, <1>4, <2>1, <2>2
<1>5. CASE o.conflict = <<>> /\ o.target = ""
  <2>1. o.wherePK
    BY <1>5 DEF hasConflictTarget
  <2>2. Range(key) = Range(pk) /\ pk # <<>>
    BY <2>1
  <2>3. s.conflict.columns = key /\ r.conflict.columns = pk
    <3>1. conflictTargetColumns(o, key) = key /\ conflictTargetColumns(o, pk) = pk
      BY <1>5 DEF conflictTargetColumns
    <3>2. s.conflict.columns = conflictTargetColumns(o, key)
      BY ConflictIs
    <3>3. r.conflict.columns = conflictTargetColumns(o, pk)
      BY ConflictIs
    <3> QED BY <3>1, <3>2, <3>3
  <2>4. \A k : <<k>> = key <=> <<k>> = pk
    BY <2>2, SameSingleton, ZenonT(60)
  <2>5. {k \in Cols : <<k>> = s.conflict.columns} = {k \in Cols : <<k>> = r.conflict.columns}
    BY <2>3, <2>4
  <2>6. Arbiters(s, d) = Arbiters(r, d)
    BY <1>2, <2>5 DEF Arbiters
  <2>7. key # <<>>
    BY <2>2, NotNothing, NothingInSeq
  <2>8. conflictTarget(s.conflict, d)
    BY <1>2, <1>5, <2>3, <2>7 DEF Planned, conflictTarget
  <2> QED BY <1>2, <1>5, <2>6, <2>8
<1> QED BY <1>3, <1>4, <1>5

(***************************************************************************)
(* The batch, and the rows one by one.                                     *)
(***************************************************************************)
\* The tables OneByOne goes through.
Ones(w, n, f) ==
    f = [i \in 0..n |-> IF i = 0 THEN Table(Before, {}) ELSE AndThen(w, f[i - 1], w.rows[i])]

LEMMA OnesExists ==
  ASSUME NEW w, NEW m \in Nat
  PROVE  \E f : Ones(w, m, f)
<1> DEFINE start == Table(Before, {})
           D == {n \in 0..m : \E f : Ones(w, n, f)}
<1>1. 0 \in D
  <2> DEFINE f == [i \in 0..0 |-> start]
  <2>1. Ones(w, 0, f)
    BY DEF Ones
  <2> HIDE DEF f
  <2> QED BY <2>1
<1>2. ASSUME NEW n \in 0..m, n \in D, n < m PROVE n + 1 \in D
  <2>1. PICK f : Ones(w, n, f)
    BY <1>2
  <2> DEFINE T(i) == IF i = 0 THEN start ELSE AndThen(w, f[i - 1], w.rows[i])
             g == [i \in 0..(n + 1) |-> T(i)]
  <2>2. \A i \in 0..n : g[i] = f[i]
    <3>1. \A i \in 0..n : f[i] = T(i)
      BY <2>1 DEF Ones
    <3>2. \A i \in 0..n : g[i] = T(i)
      <4>1. \A i \in 0..n : i \in 0..(n + 1)
        BY InNext
      <4> HIDE DEF T
      <4> QED BY <4>1
    <3> HIDE DEF T, g
    <3> QED BY <3>1, <3>2
  <2>3. \A i \in 0..(n + 1) : i # 0 => g[i - 1] = f[i - 1]
    <3> HIDE DEF g
    <3> QED BY <2>2, NextInto
  <2>4. g = [i \in 0..(n + 1) |-> IF i = 0 THEN start ELSE AndThen(w, g[i - 1], w.rows[i])]
    <3>1. \A i \in 0..(n + 1) : T(i) = IF i = 0 THEN start ELSE AndThen(w, g[i - 1], w.rows[i])
      <4> HIDE DEF g
      <4> QED BY <2>3
    <3> HIDE DEF T
    <3> QED BY <3>1
  <2> HIDE DEF g
  <2>5. Ones(w, n + 1, g)
    BY <2>4 DEF Ones
  <2> QED BY <1>2, <2>5, UpToNext
<1>3. m \in D
  <2> HIDE DEF D
  <2>1. \A n \in 0..m : n \in D
    BY <1>1, <1>2, UpTo
  <2> QED BY <2>1
<1> QED BY <1>3

LEMMA AndThenIs ==
  ASSUME NEW w, NEW st, NEW row, st.ok
  PROVE  AndThen(w, st, row) = Executed(SingleRequest(w, row), w.d, st.rows)
BY DEF AndThen

\* g is the tables OneByOne goes through.
OneSteps(w, g) ==
    /\ OneByOne(w) = g[Len(w.rows)] /\ g[0] = Table(Before, {})
    /\ \A i \in 1..Len(w.rows) : g[i] = AndThen(w, g[i - 1], w.rows[i])

LEMMA OneByOneIs == \A w : Len(w.rows) \in Nat => \E g : OneSteps(w, g)
<1> SUFFICES ASSUME NEW w, Len(w.rows) \in Nat PROVE \E g : OneSteps(w, g)
  OBVIOUS
<1> DEFINE n == Len(w.rows)
           g == CHOOSE f : Ones(w, n, f)
<1>1. n \in Nat
  OBVIOUS
<1>2. OneByOne(w) = g[n]
  BY DEF OneByOne, Ones
<1> HIDE DEF n
<1>3. Ones(w, n, g)
  BY <1>1, OnesExists
<1> HIDE DEF g
<1>4. g[0] = Table(Before, {}) /\ \A i \in 1..n : g[i] = AndThen(w, g[i - 1], w.rows[i])
  BY <1>1, <1>3 DEF Ones
<1>5. OneSteps(w, g)
  BY <1>2, <1>4 DEF n, OneSteps
<1> QED BY <1>5

\* A planned statement that succeeds is what is executed.
LEMMA Executes ==
  ASSUME NEW s, NEW d, NEW t, s.op # "update", Planned(s, d), ~Ambiguous(s, d), InsertRows(Table(t, {}), s, d).ok
  PROVE  Executed({s}, d, t) = InsertRows(Table(t, {}), s, d)
<1>1. {s} # NoRequest /\ (CHOOSE r \in {s} : TRUE) = s
  BY DEF NoRequest
<1> DEFINE end == InsertRows(Table(t, {}), s, d)
<1>2. Executed({s}, d, t) = IF end.ok THEN end ELSE Failed(Table(t, {}))
  BY <1>1 DEF Executed
<1> HIDE DEF end
<1> QED BY <1>2 DEF end

\* What one row's own statement does to the table the batch's had before it.
\* The statement was accepted, and what it left is what another one leaves.
Took(a) == a.ok
Leaves(a, b) == a.ok /\ a.rows = b.rows

LEMMA OneStep ==
  ASSUME NEW r, NEW s, NEW row, NEW d, NEW st, OneOf(r, s, row, d), r.op # "update",
         Took(InsertRow(st, row, r, d))
  PROVE  Leaves(Executed({s}, d, st.rows), InsertRow(st, row, r, d))
<1> DEFINE t == Table(st.rows, {})
<1>1. s.rows = <<row>> /\ Alike(r, s, d) /\ Planned(s, d) /\ ~Ambiguous(s, d) /\ s.op # "update"
  BY DEF OneOf, Alike
<1>2. InsertRows(t, s, d) = InsertRow(t, row, s, d)
  BY <1>1, InsertOne
<1>3. InsertRow(t, row, s, d) = InsertRow(t, row, r, d)
  BY <1>1, AlikeIs
<1>4. InsertRow(t, row, r, d).ok /\ InsertRow(t, row, r, d).rows = InsertRow(st, row, r, d).rows
  BY Alone DEF Took
<1>5. InsertRows(t, s, d).ok
  BY <1>2, <1>3, <1>4
<1>6. Executed({s}, d, st.rows) = InsertRows(t, s, d)
  BY <1>1, <1>5, Executes
<1> HIDE DEF t
<1> QED BY <1>2, <1>3, <1>4, <1>6 DEF Leaves

\* The batch and the rows one by one go through the same tables.
LEMMA BatchFollows ==
  ASSUME NEW w, NEW n \in Nat, Len(w.rows) = n, NEW r, Len(r.rows) = n, r.op # "update",
         InsertRows(Table(Before, {}), r, w.d).ok,
         \A i \in 1..n : \E s : SingleRequest(w, w.rows[i]) = {s} /\ OneOf(r, s, r.rows[i], w.d)
  PROVE  OneByOne(w).ok /\ OneByOne(w).rows = InsertRows(Table(Before, {}), r, w.d).rows
<1> DEFINE start == Table(Before, {})
           d == w.d
<1>1. PICK f : Steps(start, r, d, f)
  BY InsertRowsIs
<1>2. PICK g : OneSteps(w, g)
  BY OneByOneIs
<1>3. f[0] = start /\ f[n] = InsertRows(start, r, d) /\ f[n].ok
  BY <1>1 DEF Steps
<1>4. \A i \in 1..n : f[i] = InsertRow(f[i - 1], r.rows[i], r, d)
  BY <1>1 DEF Steps
<1>5. g[0].ok /\ g[0].rows = Before /\ OneByOne(w) = g[n]
  BY <1>2, TableIs DEF OneSteps
<1>6. \A i \in 1..n : g[i] = AndThen(w, g[i - 1], w.rows[i])
  BY <1>2 DEF OneSteps
<1>7. ASSUME NEW i \in 0..n PROVE f[i].ok
  <2>1. SUFFICES ASSUME ~f[i].ok PROVE FALSE
    OBVIOUS
  <2> DEFINE D == {j \in 0..n : j >= i => ~f[j].ok}
  <2>2. 0 \in D
    <3>1. 0 \in 0..n /\ (0 >= i => i = 0)
      OBVIOUS
    <3> QED BY <2>1, <3>1
  <2>3. ASSUME NEW j \in 0..n, j \in D, j < n PROVE j + 1 \in D
    <3>1. j + 1 \in 0..n /\ j + 1 \in 1..n /\ (j + 1) - 1 = j /\ (j + 1 >= i => j >= i \/ j + 1 = i)
      BY <2>3
    <3>2. f[j + 1] = InsertRow(f[j], r.rows[j + 1], r, d)
      BY <1>4, <3>1
    <3>3. ASSUME j >= i PROVE ~f[j + 1].ok
      BY <2>3, <3>2, <3>3, StaysFailed
    <3> QED BY <2>1, <3>1, <3>3
  <2>4. \A j \in 0..n : j \in D
    <3> HIDE DEF D
    <3> QED BY <2>2, <2>3, UpTo
  <2>5. n \in 0..n /\ n >= i
    OBVIOUS
  <2> QED BY <1>3, <2>4, <2>5
<1> HIDE DEF start
<1> DEFINE Follows(i) == g[i].ok /\ g[i].rows = f[i].rows
           D == {i \in 0..n : Follows(i)}
<1>8. 0 \in D
  <2>1. start.rows = Before /\ 0 \in 0..n
    BY TableIs DEF start
  <2> QED BY <1>3, <1>5, <2>1
<1>9. ASSUME NEW i \in 0..n, i \in D, i < n PROVE i + 1 \in D
  <2>1. i + 1 \in 0..n /\ i + 1 \in 1..n /\ (i + 1) - 1 = i
    BY <1>9
  <2>2. f[i + 1] = InsertRow(f[i], r.rows[i + 1], r, d) /\ f[i + 1].ok
    BY <1>4, <1>7, <2>1
  <2>3. g[i + 1] = AndThen(w, g[i], w.rows[i + 1])
    BY <1>6, <2>1
  <2>4. PICK s : SingleRequest(w, w.rows[i + 1]) = {s} /\ OneOf(r, s, r.rows[i + 1], d)
    BY <2>1
  <2>5. Executed({s}, d, f[i].rows).ok /\ Executed({s}, d, f[i].rows).rows = f[i + 1].rows
    <3> HIDE DEF d
    <3> DEFINE row == r.rows[i + 1]
               st == f[i]
    <3>1. OneOf(r, s, row, d) /\ Took(InsertRow(st, row, r, d)) /\ f[i + 1] = InsertRow(st, row, r, d)
      BY <2>2, <2>4 DEF Took
    <3> HIDE DEF row, st
    <3>2. Leaves(Executed({s}, d, st.rows), InsertRow(st, row, r, d))
      BY <3>1, OneStep
    <3> QED BY <3>1, <3>2 DEF st, Leaves
  <2>6. g[i].ok /\ g[i].rows = f[i].rows
    BY <1>9
  <2>7. Executed(SingleRequest(w, w.rows[i + 1]), w.d, g[i].rows) = Executed({s}, d, f[i].rows)
    BY <2>4, <2>6
  <2>8. Follows(i + 1)
    BY <2>3, <2>5, <2>6, <2>7, AndThenIs
  <2> QED BY <2>1, <2>8
<1>10. \A i \in 0..n : i \in D
  <2> HIDE DEF D
  <2> QED BY <1>8, <1>9, UpTo
<1>11. Follows(n)
  <2>1. n \in 0..n
    OBVIOUS
  <2> QED BY <1>10, <2>1
<1> QED BY <1>3, <1>5, <1>11 DEF start

LEMMA InsertRequest ==
  ASSUME NEW rs \in RowSets, NEW row \in rs, NEW o, buildInsertInput(row, o) # NoRequest
  PROVE  \E s : /\ buildInsertInput(row, o) = {s}
                /\ s.op = "insert" /\ s.assign = o.assign /\ s.conflict = NoConflict
                /\ s.rows = <<RowOf(row, insertColumns(row, o))>>
<1> DEFINE cols == insertColumns(row, o)
           args == ArgsOf(row, cols)
           s == RequestOf("insert", cols, args, 1, <<>>, o)
           input == newWriteInput("insert", cols, args, 1, <<>>, o)
<1>1. buildInsertInput(row, o) = input /\ input # NoRequest
  BY DEF buildInsertInput
<1>2. input = {s}
  BY <1>1, RequestIs
<1>3. cols \in Seq(Cols)
  BY InsertColumnsAre
<1> HIDE DEF cols
<1>4. RowsOf(cols, args, 1) = <<RowOf(row, cols)>>
  BY <1>3, OneRow
<1> HIDE DEF args
<1>5. s.op = "insert" /\ s.assign = o.assign /\ s.conflict = NoConflict /\ s.rows = RowsOf(cols, args, 1)
  BY DEF RequestOf
<1> HIDE DEF s
<1> QED BY <1>1, <1>2, <1>4, <1>5 DEF cols

LEMMA SameRow == \A row, a, b : Range(a) = Range(b) => RowOf(row, a) = RowOf(row, b)
BY DEF RowOf

LEMMA BatchRowIs ==
  ASSUME NEW r, NEW op, NEW rows, NEW cols, NEW pk, NEW o, NEW n \in Nat, Len(rows) = n,
         Batch(r, op, rows, cols, pk, o)
  PROVE  Len(r.rows) = n /\ \A i \in 1..n : r.rows[i] = RowOf(rows[i], cols)
<1>1. r.rows = [i \in 1..n |-> RowOf(rows[i], cols)]
  BY DEF Batch
<1> QED BY <1>1

\* InsertMany and Insert agree on the columns of every row, and so on the table.
LEMMA InsertManyMatches ==
  ASSUME NEW rs \in RowSets, NEW n \in Nat, NEW rows \in [1..n -> rs], NEW x, x.op = "insertMany", x.rows = rows,
         Took(Executed(buildInsertManyInput(rows, x.o), x.d, Before)),
         \A i \in DOMAIN rows : SingleRequest(x, rows[i]) # NoRequest
  PROVE  Leaves(OneByOne(x), Executed(buildInsertManyInput(rows, x.o), x.d, Before))
<1> DEFINE o == x.o
           d == x.d
           req == buildInsertManyInput(rows, o)
<1>1. req # NoRequest
  BY NothingExecuted DEF Took
<1>2. n # 0 /\ Len(rows) = n
  BY <1>1, InsertManyRequest
<1>3. PICK cols \in Seq(Cols) : \E r :
         /\ req = {r} /\ Batch(r, "insert", rows, cols, <<>>, o)
         /\ \A i \in 1..n : Range(insertColumns(rows[i], o)) = Range(cols)
  BY <1>1, InsertManyRequest
<1>4. PICK r : /\ req = {r} /\ Batch(r, "insert", rows, cols, <<>>, o)
               /\ \A i \in 1..n : Range(insertColumns(rows[i], o)) = Range(cols)
  BY <1>3
<1>5. r.op = "insert"
  BY <1>4 DEF Batch
<1>6. Executed({r}, d, Before).ok
  BY <1>4 DEF Took
<1>7. /\ Planned(r, d) /\ ~Ambiguous(r, d) /\ Executed({r}, d, Before) = InsertRows(Table(Before, {}), r, d)
      /\ InsertRows(Table(Before, {}), r, d).ok
  BY <1>5, <1>6, ExecutedIs
<1>8. Len(r.rows) = n /\ \A i \in 1..n : r.rows[i] = RowOf(rows[i], cols)
  BY <1>2, <1>4, BatchRowIs
<1> HIDE DEF req
<1>9. ASSUME NEW i \in 1..n PROVE \E s : SingleRequest(x, x.rows[i]) = {s} /\ OneOf(r, s, r.rows[i], d)
  <2>1. rows[i] \in rs /\ x.rows[i] = rows[i]
    OBVIOUS
  <2>2. SingleRequest(x, rows[i]) = buildInsertInput(rows[i], o) /\ buildInsertInput(rows[i], o) # NoRequest
    BY DEF SingleRequest
  <2>3. PICK s : /\ buildInsertInput(rows[i], o) = {s}
                 /\ s.op = "insert" /\ s.assign = o.assign /\ s.conflict = NoConflict
                 /\ s.rows = <<RowOf(rows[i], insertColumns(rows[i], o))>>
    BY <2>1, <2>2, InsertRequest
  <2>4. RowOf(rows[i], insertColumns(rows[i], o)) = r.rows[i]
    BY <1>4, <1>8, SameRow
  <2> DEFINE row == r.rows[i]
  <2>5. s.rows = <<row>> /\ s.op = "insert" /\ s.assign = o.assign /\ s.conflict = NoConflict
    BY <2>3, <2>4
  <2> HIDE DEF row, o, d
  <2>6. Batch(r, "insert", rows, cols, <<>>, o) /\ Planned(r, d)
    BY <1>4, <1>7
  <2>7. OneOf(r, s, row, d)
    BY <2>5, <2>6, InsertAlike
  <2> QED BY <2>1, <2>2, <2>3, <2>7 DEF row, o
<1>10. OneByOne(x).ok /\ OneByOne(x).rows = InsertRows(Table(Before, {}), r, d).rows
  <2>1. Len(x.rows) = n /\ r.op # "update"
    BY <1>2, <1>5
  <2> QED BY <1>7, <1>8, <1>9, <2>1, BatchFollows
<1>11. Leaves(OneByOne(x), Executed(req, d, Before))
  BY <1>4, <1>7, <1>10 DEF Leaves
<1> QED BY <1>11 DEF req

LEMMA UpsertOne ==
  ASSUME NEW rs \in RowSets, NEW row \in rs, NEW o, buildUpsertInput(row, o, ColOrder) # NoRequest
  PROVE  /\ isMap(row) /\ o.wherePK => o.pk \subseteq DOMAIN row.vals
         /\ \E s : /\ buildUpsertInput(row, o, ColOrder) = {s}
                   /\ s.op = "upsert" /\ s.assign = o.assign
                   /\ s.conflict = Conflict(upsertColumns(row, o, ColOrder), OneKeys(row, o, ColOrder), o)
                   /\ s.rows = <<RowOf(row, upsertColumns(row, o, ColOrder))>>
<1> DEFINE cols == upsertColumns(row, o, ColOrder)
           pk == Keep(cols, {c \in Range(cols) : isPK(row, o, c)})
           args == ArgsOf(row, cols)
           s == RequestOf("upsert", cols, args, 1, pk, o)
<1>1. /\ buildUpsertInput(row, o, ColOrder) = {s} /\ cols \in Seq(Cols)
      /\ isMap(row) /\ o.wherePK => o.pk \subseteq DOMAIN row.vals
  <2>1. UpsertAsks(row, o, ColOrder)
    BY OrderComplete, UpsertRequest
  <2> QED BY <2>1 DEF UpsertAsks
<1>2. pk = OneKeys(row, o, ColOrder)
  BY DEF OneKeys
<1> HIDE DEF cols, pk
<1>3. RowsOf(cols, args, 1) = <<RowOf(row, cols)>>
  BY <1>1, OneRow
<1> HIDE DEF args
<1>4. s.op = "upsert" /\ s.assign = o.assign /\ s.conflict = Conflict(cols, pk, o) /\ s.rows = RowsOf(cols, args, 1)
  BY DEF RequestOf
<1> HIDE DEF s
<1> QED BY <1>1, <1>2, <1>3, <1>4 DEF cols

\* UpsertMany and Upsert agree on the columns, the keys and the conflict clause.
LEMMA UpsertManyMatches ==
  ASSUME NEW rs \in RowSets, NEW n \in Nat, NEW rows \in [1..n -> rs], NEW x, x.op = "upsertMany", x.rows = rows,
         Took(Executed(buildUpsertManyInput(rows, x.o), x.d, Before)),
         \A i \in DOMAIN rows : SingleRequest(x, rows[i]) # NoRequest
  PROVE  Leaves(OneByOne(x), Executed(buildUpsertManyInput(rows, x.o), x.d, Before))
<1> DEFINE o == x.o
           d == x.d
           req == buildUpsertManyInput(rows, o)
           pk == ManyKeys(rows[1], o)
<1>1. req # NoRequest
  BY NothingExecuted DEF Took
<1>2. /\ n # 0 /\ Len(rows) = n /\ ~UpsertRefused(rows[1], o)
      /\ o.wherePK => pk # <<>>
      /\ \A i \in 1..n : rows[i].typ = rows[1].typ
  BY <1>1, UpsertManyRequest
<1>3. PICK cols \in Seq(Cols) : \E r :
         /\ req = {r} /\ Batch(r, "upsert", rows, cols, pk, o)
         /\ \A i \in 1..n : Range(upsertColumns(rows[i], o, ColOrder)) = Range(cols)
  <2>1. UpsertsAll(req, rows, n, pk, o)
    BY <1>1, UpsertManyRequest
  <2> HIDE DEF req, pk, o
  <2> QED BY <2>1 DEF UpsertsAll
<1>4. PICK r : /\ req = {r} /\ Batch(r, "upsert", rows, cols, pk, o)
               /\ \A i \in 1..n : Range(upsertColumns(rows[i], o, ColOrder)) = Range(cols)
  BY <1>3
<1>5. r.op = "upsert" /\ r.assign = o.assign /\ r.conflict = Conflict(cols, pk, o)
  BY <1>4 DEF Batch
<1>6. Executed({r}, d, Before).ok
  BY <1>4 DEF Took
<1>7. /\ Planned(r, d) /\ ~Ambiguous(r, d) /\ Executed({r}, d, Before) = InsertRows(Table(Before, {}), r, d)
      /\ InsertRows(Table(Before, {}), r, d).ok
  BY <1>5, <1>6, ExecutedIs
<1>8. Len(r.rows) = n /\ \A i \in 1..n : r.rows[i] = RowOf(rows[i], cols)
  BY <1>2, <1>4, BatchRowIs
<1>12. rows[1] \in rs /\ r.rows[1] = RowOf(rows[1], cols)
  BY <1>2, <1>8
<1>13. o.wherePK \/ hasConflictTarget(o)
  BY <1>2 DEF UpsertRefused
<1> HIDE DEF req, pk
<1>9. ASSUME NEW i \in 1..n PROVE \E s : SingleRequest(x, x.rows[i]) = {s} /\ OneOf(r, s, r.rows[i], d)
  <2>1. rows[i] \in rs /\ x.rows[i] = rows[i] /\ rows[1].typ = rows[i].typ
    BY <1>2
  <2>2. SingleRequest(x, rows[i]) = buildUpsertInput(rows[i], o, ColOrder) /\ buildUpsertInput(rows[i], o, ColOrder) # NoRequest
    BY DEF SingleRequest
  <2> DEFINE row == rows[i]
             first == rows[1]
             one == upsertColumns(row, o, ColOrder)
             key == OneKeys(row, o, ColOrder)
  <2>3. row \in rs /\ first \in rs /\ first.typ = row.typ
    BY <1>12, <2>1
  <2>4. buildUpsertInput(row, o, ColOrder) # NoRequest /\ Range(one) = Range(cols) /\ r.rows[i] = RowOf(row, cols)
    BY <1>4, <1>8, <2>2
  <2>14. SingleRequest(x, x.rows[i]) = buildUpsertInput(row, o, ColOrder)
    BY <2>1, <2>2
  <2>15. pk = ManyKeys(first, o) /\ r.rows[1] = RowOf(first, cols)
    BY <1>12 DEF pk
  <2> HIDE DEF row, first, o, d
  <2>5. isMap(row) /\ o.wherePK => o.pk \subseteq DOMAIN row.vals
    BY <2>3, <2>4, UpsertOne
  <2>6. PICK s : /\ buildUpsertInput(row, o, ColOrder) = {s}
                 /\ s.op = "upsert" /\ s.assign = o.assign
                 /\ s.conflict = Conflict(one, key, o)
                 /\ s.rows = <<RowOf(row, one)>>
    BY <2>3, <2>4, UpsertOne
  <2>7. DOMAIN row.vals \subseteq Cols
    BY <2>3, RowIs
  <2>8. one \in Seq(Cols) /\ Range(one) \subseteq DOMAIN row.vals
    BY <2>3, <2>7, OrderComplete, UpsertColumnsAre
  <2>9. key \in Seq(Cols) /\ IsInjective(key) /\ Range(key) = {c \in DOMAIN row.vals : isPK(row, o, c)}
    BY <2>3, OneKeysAre
  <2>18. KeysFit(pk, row, o)
    BY <2>3, <2>15, ManyKeysAre
  <2>10. /\ pk \in Seq(Cols) /\ IsInjective(pk)
         /\ Range(pk) \cap DOMAIN row.vals = {c \in DOMAIN row.vals : isPK(row, o, c)}
         /\ (isMap(row) => o.pk \subseteq DOMAIN row.vals) =>
               Range(pk) = {c \in DOMAIN row.vals : isPK(row, o, c)}
    BY <2>18 DEF KeysFit
  <2> HIDE DEF one, key
  <2>11. Range(cols) \cap Range(key) = Range(cols) \cap Range(pk)
    BY <2>4, <2>8, <2>9, <2>10
  <2>12. o.wherePK => Range(key) = Range(pk) /\ pk # <<>>
    BY <1>2, <2>5, <2>9, <2>10
  <2>16. Range(one) = Range(cols)
    BY <2>4
  <2>13. OneOf(r, s, RowOf(row, one), d)
    BY <1>5, <1>7, <1>13, <2>6, <2>8, <2>9, <2>10, <2>11, <2>12, <2>15, <2>16, UpsertAlike
  <2>17. RowOf(row, one) = r.rows[i]
    BY <2>4, SameRow
  <2> QED BY <2>6, <2>13, <2>14, <2>17
<1>10. OneByOne(x).ok /\ OneByOne(x).rows = InsertRows(Table(Before, {}), r, d).rows
  <2>1. Len(x.rows) = n /\ r.op # "update"
    BY <1>2, <1>5
  <2> QED BY <1>7, <1>8, <1>9, <2>1, BatchFollows
<1>11. Leaves(OneByOne(x), Executed(req, d, Before))
  BY <1>4, <1>7, <1>10 DEF Leaves
<1> QED BY <1>11 DEF req

LEMMA InsertManyStep ==
  ASSUME NEW rs \in RowSets, NEW n \in Nat, NEW rows \in [1..n -> rs], NEW o, NEW d, InsertMany(rows, o, d)
  PROVE  BatchMatchesSingle'
<1> DEFINE req == buildInsertManyInput(rows, o)
           x == Made("insertMany", rows, o, d, req)
<1>1. write' = {x}
  BY DEF InsertMany, Perform, Made
<1>2. /\ x.op = "insertMany" /\ x.rows = rows /\ x.o = o /\ x.d = d
      /\ x.after = Executed(req, d, Before).rows
      /\ x.ok => Executed(req, d, Before).ok
  BY MadeIs
<1> HIDE DEF x
<1>3. ASSUME x.ok, \A i \in DOMAIN x.rows : SingleRequest(x, x.rows[i]) # NoRequest
      PROVE  OneByOne(x).ok /\ OneByOne(x).rows = x.after
  <2>1. Took(Executed(buildInsertManyInput(rows, x.o), x.d, Before))
    BY <1>2, <1>3 DEF Took
  <2>2. \A i \in DOMAIN rows : SingleRequest(x, rows[i]) # NoRequest
    BY <1>2, <1>3
  <2>3. x.op = "insertMany" /\ x.rows = rows
    BY <1>2
  <2>4. Leaves(OneByOne(x), Executed(buildInsertManyInput(rows, x.o), x.d, Before))
    BY <2>1, <2>2, <2>3, InsertManyMatches
  <2>5. Executed(buildInsertManyInput(rows, x.o), x.d, Before).rows = x.after /\ Executed(req, d, Before).ok
    BY <1>2, <1>3
  <2> QED BY <1>2, <2>4, <2>5 DEF Leaves
<1> QED BY <1>1, <1>3 DEF BatchMatchesSingle

LEMMA UpsertManyStep ==
  ASSUME NEW rs \in RowSets, NEW n \in Nat, NEW rows \in [1..n -> rs], NEW o, NEW d, UpsertMany(rows, o, d)
  PROVE  BatchMatchesSingle'
<1> DEFINE req == buildUpsertManyInput(rows, o)
           x == Made("upsertMany", rows, o, d, req)
<1>1. write' = {x}
  BY DEF UpsertMany, Perform, Made
<1>2. /\ x.op = "upsertMany" /\ x.rows = rows /\ x.o = o /\ x.d = d
      /\ x.after = Executed(req, d, Before).rows
      /\ x.ok => Executed(req, d, Before).ok
  BY MadeIs
<1> HIDE DEF x
<1>3. ASSUME x.ok, \A i \in DOMAIN x.rows : SingleRequest(x, x.rows[i]) # NoRequest
      PROVE  OneByOne(x).ok /\ OneByOne(x).rows = x.after
  <2>1. Took(Executed(buildUpsertManyInput(rows, x.o), x.d, Before))
    BY <1>2, <1>3 DEF Took
  <2>2. \A i \in DOMAIN rows : SingleRequest(x, rows[i]) # NoRequest
    BY <1>2, <1>3
  <2>3. x.op = "upsertMany" /\ x.rows = rows
    BY <1>2
  <2>4. Leaves(OneByOne(x), Executed(buildUpsertManyInput(rows, x.o), x.d, Before))
    BY <2>1, <2>2, <2>3, UpsertManyMatches
  <2>5. Executed(buildUpsertManyInput(rows, x.o), x.d, Before).rows = x.after /\ Executed(req, d, Before).ok
    BY <1>2, <1>3
  <2> QED BY <1>2, <2>4, <2>5 DEF Leaves
<1> QED BY <1>1, <1>3 DEF BatchMatchesSingle

LEMMA SingleStep ==
  ASSUME NEW op \in {"insert", "update", "upsert"}, NEW rows, NEW o, NEW d, NEW req, Perform(op, rows, o, d, req)
  PROVE  BatchMatchesSingle'
<1>1. \A x \in write' : x.op = op
  BY DEF Perform
<1> QED BY <1>1 DEF BatchMatchesSingle

\* An InsertMany or UpsertMany that succeeds leaves the table as the Inserts or
\* Upserts of its rows would, for every number of rows, every struct and map,
\* every option and every dialect.
THEOREM BatchMatched == MappingSpec => []BatchMatchesSingle
<1>1. MappingInit => BatchMatchesSingle
  BY DEF MappingInit, BatchMatchesSingle
<1>2. BatchMatchesSingle /\ [MappingNext]_write => BatchMatchesSingle'
  <2> SUFFICES ASSUME BatchMatchesSingle, [MappingNext]_write PROVE BatchMatchesSingle'
    OBVIOUS
  <2>1. CASE UNCHANGED write
    <3>1. ASSUME NEW x \in write PROVE x \in write'
      BY <2>1, <3>1
    <3> QED BY <2>1 DEF BatchMatchesSingle
  <2>2. CASE MappingNext
    <3>1. PICK rs \in RowSets, o \in Options, d \in Dialects :
             \/ \E row \in rs : Insert(row, o, d) \/ Update(row, o, d) \/ Upsert(row, o, d)
             \/ \E n \in 0..MaxBatch : \E rows \in [1..n -> rs] : InsertMany(rows, o, d) \/ UpsertMany(rows, o, d)
      BY <2>2 DEF MappingNext
    <3>2. ASSUME NEW row \in rs, Insert(row, o, d) PROVE BatchMatchesSingle'
      BY <3>2, SingleStep DEF Insert
    <3>3. ASSUME NEW row \in rs, Update(row, o, d) PROVE BatchMatchesSingle'
      BY <3>3, SingleStep DEF Update
    <3>4. ASSUME NEW row \in rs, Upsert(row, o, d) PROVE BatchMatchesSingle'
      BY <3>4, SingleStep DEF Upsert
    <3>5. ASSUME NEW n \in 0..MaxBatch, NEW rows \in [1..n -> rs], InsertMany(rows, o, d)
          PROVE  BatchMatchesSingle'
      BY <3>5, InsertManyStep
    <3>6. ASSUME NEW n \in 0..MaxBatch, NEW rows \in [1..n -> rs], UpsertMany(rows, o, d)
          PROVE  BatchMatchesSingle'
      BY <3>6, UpsertManyStep
    <3> QED BY <3>1, <3>2, <3>3, <3>4, <3>5, <3>6
  <2> QED BY <2>1, <2>2
<1> QED BY <1>1, <1>2, PTL DEF MappingSpec
=============================================================================
