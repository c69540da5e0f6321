-------------------------- MODULE MC_CommandStore --------------------------
(***************************************************************************)
(* Model-checking instances of CommandStore: two callers that reuse one    *)
(* operation ID with two different inputs.                                 *)
(***************************************************************************)
EXTENDS CommandStore

CONSTANTS small, hooked

MCInputs == {small, hooked}
\* small: one business statement; hooked: one statement and one hook.
MCSteps == [i \in MCInputs |-> IF i = small THEN 1 ELSE 2]
MCHooks == [i \in MCInputs |-> IF i = small THEN 0 ELSE 1]

CONSTANTS c1, c2

\* Callers are interchangeable, so the first to run is c1.  There are two runs,
\* of one caller or of two, in sequence or at once.
MCNext ==
  /\ Next
  /\ runs'[c2] > 0 => runs'[c1] > 0
  /\ runs'[c1] + runs'[c2] <= 2
MCSpec == Init /\ [][MCNext]_vars /\ Fairness
=============================================================================
