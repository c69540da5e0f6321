---------------------------- MODULE PlanBinding ----------------------------
(***************************************************************************)
(* Validated plans (orm/query/binding.go, authorization*.go, execution.go, *)
(* observation.go).  Validate* inspects a Query and returns a single-      *)
(* attempt handle; ExecuteValidated* claims the handle, rebuilds the plan  *)
(* from the Query as it is then, asks the external authorization provider  *)
(* if the statement is high-risk, and dispatches the rebuilt, private      *)
(* statement.  Between those steps application code runs -- the provider,  *)
(* the methods of contexts, other holders of the handle -- so the Query,   *)
(* its approval, the context and the clock may all have changed.           *)
(*                                                                         *)
(* A material is everything the comparison of plans covers: statement,     *)
(* values, settings, policies, registration, tenant, key and target.  The  *)
(* expiry of an approval is not part of it; the code compares it apart.  A *)
(* Query without an approval is one whose approval outlives the clock.     *)
(***************************************************************************)
EXTENDS Integers, FiniteSets

CONSTANTS
  Attempts,   \* calls of ExecuteValidated*
  Handles,    \* handles Validate* returns
  Materials,
  Blocked,    \* materials the execution gate refuses
  Risky,      \* materials that need authorization
  Owned,      \* materials with an owned atomic write, outside a managed tx
  MaxTime,    \* bound of the clock
  None

ASSUME MaterialAssumption ==
  Blocked \subseteq Materials /\ Risky \subseteq Materials /\ Owned \subseteq Materials
ASSUME TimeAssumption == MaxTime \in Nat
ASSUME NoneAssumption == None \notin Handles

VARIABLES
  now,
  query,      \* the material of the Query at this moment
  approval,   \* when the Query's approval expires
  canceled,   \* the context is done
  handle,     \* handle[h]: what Validate retained
  used,       \* used[h]: an attempt claimed the handle
  pc, plan,   \* plan[a]: the handle a claimed, the plan it rebuilt and the decision it got
  asked,      \* history: attempts that called the provider
  dispatched  \* history: calls of the executor

queryVars == <<now, query, approval, canceled>>
bindingVars == <<queryVars, handle, used, pc, plan, asked, dispatched>>

Times == 0..MaxTime
Expiries == 1..(MaxTime + 1)
Earlier(s, t) == IF t < s THEN t ELSE s

\* A provider's decision is bound to the request of one attempt.
Decisions == [status : {"allow", "deny"}, request : Attempts, until : Expiries]
HandleStates == [material : Materials, expires : Expiries]
Plans == [handle : Handles \cup {None}, material : Materials \cup {None},
          expires : Expiries, approval : Expiries, ceiling : Expiries,
          decision : Decisions \cup {None}]
NoPlan == [handle |-> None, material |-> None, expires |-> 1, approval |-> 1,
           ceiling |-> 1, decision |-> None]

BindingInit ==
  /\ now = 0 /\ canceled = FALSE
  /\ query \in Materials /\ approval \in Expiries
  /\ handle = [h \in Handles |-> None]
  /\ used = [h \in Handles |-> FALSE]
  /\ pc = [a \in Attempts |-> "idle"]
  /\ plan = [a \in Attempts |-> NoPlan]
  /\ asked = {} /\ dispatched = {}

(***************************************************************************)
(* The application.                                                        *)
(***************************************************************************)
Tick ==
  /\ now < MaxTime /\ now' = now + 1
  /\ UNCHANGED <<query, approval, canceled, handle, used, pc, plan, asked, dispatched>>

Mutate ==
  /\ query' \in Materials /\ approval' \in Expiries
  /\ UNCHANGED <<now, canceled, handle, used, pc, plan, asked, dispatched>>

CancelContext ==
  /\ canceled' = TRUE
  /\ UNCHANGED <<now, query, approval, handle, used, pc, plan, asked, dispatched>>

(***************************************************************************)
(* Validate*.                                                              *)
(***************************************************************************)
\* A deadline is required and must lie ahead; the approval's own may be earlier.
Validate(h) ==
  /\ handle[h] = None
  /\ ~canceled /\ query \notin Blocked
  /\ \E expiry \in Expiries :
       /\ Earlier(expiry, approval) > now
       /\ handle' = [handle EXCEPT ![h] =
                       [material |-> query, expires |-> Earlier(expiry, approval)]]
  /\ UNCHANGED <<queryVars, used, pc, plan, asked, dispatched>>

(***************************************************************************)
(* ExecuteValidated*.                                                      *)
(***************************************************************************)
Refuse(a) == pc' = [pc EXCEPT ![a] = "refused"] /\ UNCHANGED plan
Go(a, label) == pc' = [pc EXCEPT ![a] = label]

\* Mutant: the handle is consumed only when the plan is rebuilt.
ClaimAfterRebuild(a, h) ==
  /\ pc[a] = "idle" /\ handle[h] # None
  /\ \/ ~used[h] /\ Go(a, "rebuild") /\ plan' = [plan EXCEPT ![a].handle = h]
     \/ used[h] /\ Refuse(a)
  /\ UNCHANGED <<queryVars, handle, used, asked, dispatched>>

\* The handle is consumed first: whatever follows, it is the only attempt.
Claim(a, h) ==
  /\ pc[a] = "idle" /\ handle[h] # None
  /\ \/ ~used[h] /\ Go(a, "rebuild") /\ plan' = [plan EXCEPT ![a].handle = h]
     \/ used[h] /\ Refuse(a) \* ErrBindingConsumed
  /\ used' = [used EXCEPT ![h] = TRUE]
  /\ UNCHANGED <<queryVars, handle, asked, dispatched>>

\* Mutant: the rebuilt material is not compared.
RebuildsSameTarget(h) ==
  /\ ~canceled /\ query \notin Blocked
  /\ Earlier(handle[h].expires, approval) > now

\* rebuildBinding succeeds: the Query still is what was validated.
Rebuilds(h) ==
  /\ ~canceled /\ query \notin Blocked
  /\ query = handle[h].material
  /\ Earlier(handle[h].expires, approval) > now

\* The plan that will run is sealed here, with private copies; a later change
\* of the Query does not reach it.
Rebuild(a) ==
  LET h == plan[a].handle
  IN /\ pc[a] = "rebuild"
     /\ \/ /\ Rebuilds(h)
           /\ plan' = [plan EXCEPT ![a].material = query, ![a].approval = approval,
                         ![a].expires = Earlier(handle[h].expires, approval)]
           /\ Go(a, IF query \in Risky THEN "request" ELSE "bind")
        \/ ~Rebuilds(h) /\ Refuse(a)
     /\ UNCHANGED <<queryVars, handle, used, asked, dispatched>>

\* authorizeBinding calls the provider once, with a request made of the plan;
\* the request's ceiling is the earliest deadline.  An owned atomic write
\* cannot be authorized: it would run on another executor.
Request(a) ==
  LET ceiling == Earlier(handle[plan[a].handle].expires, plan[a].approval)
  IN /\ pc[a] = "request"
     /\ \/ /\ plan[a].material \notin Owned /\ ~canceled /\ ceiling > now
           /\ plan' = [plan EXCEPT ![a].ceiling = ceiling]
           /\ asked' = asked \cup {a}
           /\ Go(a, "asking")
        \/ /\ plan[a].material \in Owned \/ canceled \/ ceiling <= now
           /\ Refuse(a) /\ UNCHANGED asked
     /\ UNCHANGED <<queryVars, handle, used, dispatched>>

\* The provider answers after any time: a decision, possibly a kept one of
\* another request, or an error.
Answer(a) ==
  /\ pc[a] = "asking"
  /\ \/ \E d \in Decisions :
          /\ d.request \in asked
          /\ plan' = [plan EXCEPT ![a].decision = d]
          /\ Go(a, "check")
     \/ Refuse(a)
  /\ UNCHANGED <<queryVars, handle, used, asked, dispatched>>

\* check, the closure of authorizeBinding: deadlines, the Query rebuilt once
\* more, and validateAuthorization of the decision against it.
Authorized(a) ==
  LET p == plan[a] d == plan[a].decision
  IN /\ ~canceled
     /\ handle[p.handle].expires > now /\ p.approval > now
     /\ Rebuilds(p.handle)
     /\ p.ceiling > now
     /\ d # None /\ d.request = a /\ d.status = "allow"
     /\ d.until <= p.ceiling /\ d.until <= Earlier(handle[p.handle].expires, approval)
     /\ d.until > now

Check(a) ==
  /\ pc[a] = "check"
  /\ \/ Authorized(a) /\ Go(a, "bind") /\ UNCHANGED plan
     \/ ~Authorized(a) /\ Refuse(a)
  /\ UNCHANGED <<queryVars, handle, used, asked, dispatched>>

\* Mutant: cancellation and expiry are not looked at.
ExecutableUnchecked(a) == plan[a].material \in Risky => Authorized(a)

\* checkExecution.
Executable(a) ==
  /\ plan[a].material \in Risky => Authorized(a)
  /\ ~canceled
  /\ plan[a].expires > now /\ plan[a].approval > now

Bind(a) ==
  /\ pc[a] = "bind"
  /\ \/ Executable(a) /\ Go(a, "dispatch") /\ UNCHANGED plan
     \/ ~Executable(a) /\ Refuse(a)
  /\ UNCHANGED <<queryVars, handle, used, asked, dispatched>>

\* The call of the executor, with what a reader wants to know of its moment.
Sent(a) ==
  [attempt |-> a, handle |-> plan[a].handle, material |-> plan[a].material,
   at |-> now, query |-> query, approval |-> approval, canceled |-> canceled,
   decision |-> plan[a].decision]

\* Mutant: the authorization is not checked again.
DispatchUnchecked(a) ==
  /\ pc[a] = "dispatch"
  /\ Go(a, "done") /\ dispatched' = dispatched \cup {Sent(a)} /\ UNCHANGED plan
  /\ UNCHANGED <<queryVars, handle, used, asked>>

\* plannedExecution.observe: the authorization is checked once more, then the
\* statement may still be refused by the query budget.
Dispatch(a) ==
  /\ pc[a] = "dispatch"
  /\ \/ /\ plan[a].material \in Risky => Authorized(a)
        /\ Go(a, "done")
        /\ dispatched' = dispatched \cup {Sent(a)}
        /\ UNCHANGED plan
     \/ Refuse(a) /\ UNCHANGED dispatched
  /\ UNCHANGED <<queryVars, handle, used, asked>>

Step(a) ==
  \/ \E h \in Handles : Claim(a, h)
  \/ Rebuild(a) \/ Request(a) \/ Answer(a) \/ Check(a) \/ Bind(a) \/ Dispatch(a)

BindingNext ==
  \/ Tick \/ Mutate \/ CancelContext
  \/ \E h \in Handles : Validate(h)
  \/ \E a \in Attempts : Step(a)

BindingSpec == BindingInit /\ [][BindingNext]_bindingVars

(***************************************************************************)
(* Properties.                                                             *)
(***************************************************************************)
\* One handle, one attempt: however many goroutines hold copies of a handle, the
\* provider is asked at most once for it and the executor called at most once.
SingleAttempt ==
  \A h \in Handles :
    /\ Cardinality({a \in asked : plan[a].handle = h}) <= 1
    /\ Cardinality({d \in dispatched : d.handle = h}) <= 1

\* What runs is what was validated, no matter how the Query changed since, and it
\* was never something the gate refuses.
RunsWhatWasValidated ==
  \A d \in dispatched : d.material = handle[d.handle].material /\ d.material \notin Blocked

\* A high-risk statement reaches the executor only under an allowing decision of
\* the provider for this very attempt, and while nothing has been withdrawn: the
\* decision, the handle and the approval in force are unexpired, the context is
\* live, and the Query still is what was validated.
HighRiskIsAuthorized ==
  \A d \in dispatched : d.material \in Risky =>
    /\ d.attempt \in asked
    /\ d.decision # None /\ d.decision.status = "allow" /\ d.decision.request = d.attempt
    /\ d.at < d.decision.until /\ d.decision.until <= handle[d.handle].expires
    /\ d.decision.until <= d.approval
    /\ ~d.canceled /\ d.query = d.material

\* What reaches the executor was validated and, at high risk, authorized.
DispatchIsCovered == RunsWhatWasValidated /\ HighRiskIsAuthorized

\* No plan passes its last gate late: when an attempt becomes bound its handle is
\* unexpired and its context live.  (A low-risk statement is not checked again.)
BoundInTime ==
  [][\A a \in Attempts : pc[a] = "bind" /\ pc'[a] = "dispatch" =>
        /\ now < handle[plan[a].handle].expires
        /\ ~canceled]_bindingVars
=============================================================================
