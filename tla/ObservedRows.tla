---------------------------- MODULE ObservedRows ----------------------------
(***************************************************************************)
(* internal/observe/rows.go: Rows, the reader that stands between a caller *)
(* and *sql.Rows and decides how its statement's ticket ends.  The caller  *)
(* may call its methods in any order and any number of times; the result   *)
(* may have several sets, any call may fail, and the context may end       *)
(* between two calls.                                                      *)
(*                                                                         *)
(* *sql.Rows is external: set and row say where it stands, closed and err  *)
(* what its Err reports.  It closes itself at the end of the last set and  *)
(* on an error; a context that ends closes it asynchronously.              *)
(***************************************************************************)
EXTENDS Integers, Sequences

CONSTANTS
  Results,    \* possible results: sequences of row counts, one per result set
  MaxScans,   \* bound: scans, which a caller may repeat
  NoEnd       \* the ticket has not been ended

ASSUME ResultsAssumption == Results \subseteq Seq(Nat) /\ \A r \in Results : r # <<>>
ASSUME BoundAssumption == MaxScans \in Nat

VARIABLES
  result, set, row, closed, err,                           \* *sql.Rows
  consumed, scans, code, ended, atEnd, allSets, skipped,   \* Rows
  final,      \* what Ticket.End was called with
  ends,       \* history: calls of Ticket.End
  fed, read,  \* history: rows Next gave the caller, all and of each set
  failures    \* history: the failures the reader was shown before its end

sqlVars == <<result, set, row, closed, err>>
readVars == <<consumed, scans, atEnd, allSets, skipped>>
endVars == <<ended, final, ends>>
givenVars == <<fed, read>>
rowsVars == <<sqlVars, readVars, code, endVars, givenVars, failures>>

Failures == {"cancelled", "rows", "scan", "close", "result"}
Codes == {"none"} \cup Failures

ASSUME NoEndAssumption ==
  NoEnd \notin [outcome : {"success", "partial", "error"}, code : Codes,
                known : BOOLEAN, returned : Nat]

RowsInit ==
  /\ result \in Results
  /\ set = 1 /\ row = 0 /\ closed = FALSE /\ err = "none"
  /\ consumed = 0 /\ scans = 0 /\ code = "none"
  /\ ended = FALSE /\ atEnd = FALSE /\ allSets = FALSE /\ skipped = FALSE
  /\ final = NoEnd /\ ends = 0
  /\ fed = 0 /\ read = [i \in 1..Len(result) |-> 0] /\ failures = {}

\* The reader is shown the failures f and then g ("none" is a nil error).
\* note keeps the first one; after the end it keeps nothing.
Note(f, g) ==
  /\ failures' = IF ended THEN failures ELSE failures \cup ({f, g} \ {"none"})
  /\ code' = IF ended \/ code # "none" THEN code ELSE IF f # "none" THEN f ELSE g

(***************************************************************************)
(* *sql.Rows.                                                              *)
(***************************************************************************)

\* Next has a row; it is at the end of a set (of the last one: it closes);
\* it fails, and closes.
HasRow == ~closed /\ row < result[set]
SetDone == ~closed /\ row = result[set]
LastSet == set = Len(result)

Fails(f) == closed' = TRUE /\ err' = f /\ UNCHANGED <<result, set, row>>

\* The context ends while the rows are open.
Cancel ==
  /\ ~closed
  /\ Fails("cancelled")
  /\ UNCHANGED <<readVars, code, endVars, givenVars, failures>>

(***************************************************************************)
(* Close.  The first one decides how the ticket ends: a success has read   *)
(* every set to its end and met no failure, and only then is the number of *)
(* rows known.                                                             *)
(***************************************************************************)
\* Mutant: the outcome ignores the errors noted.
CloseOutcomeBySets(cerr, rerr, every) ==
  /\ Note(cerr, rerr)
  /\ ended' = TRUE /\ ends' = IF ended THEN ends ELSE ends + 1
  /\ final' = IF ended THEN final
              ELSE [outcome |-> IF every THEN "success" ELSE "partial",
                    code |-> code', known |-> every, returned |-> IF every THEN consumed ELSE 0]

\* cerr: the error of closing; rerr: the rows' Err, whatever was noted before.
CloseWith(cerr, rerr, every) ==
  /\ Note(cerr, rerr)
  /\ ended' = TRUE /\ ends' = IF ended THEN ends ELSE ends + 1
  /\ final' = IF ended THEN final
              ELSE LET full == every /\ code' = "none"
                   IN [outcome |-> CASE full -> "success" [] code' # "none" -> "error" [] OTHER -> "partial",
                       code |-> code', known |-> full, returned |-> IF full THEN consumed ELSE 0]

Close ==
  /\ closed' = TRUE
  /\ \E cerr \in {"none", "close"} :
       /\ closed => cerr = "none"
       /\ CloseWith(cerr, err, allSets)
  /\ UNCHANGED <<result, set, row, err, readVars, givenVars>>

(***************************************************************************)
(* Iteration.                                                              *)
(***************************************************************************)
NextRow ==
  /\ HasRow
  /\ row' = row + 1 /\ fed' = fed + 1 /\ read' = [read EXCEPT ![set] = @ + 1]
  /\ IF ended THEN UNCHANGED readVars
              ELSE consumed' = consumed + 1 /\ atEnd' = FALSE /\ UNCHANGED <<scans, allSets, skipped>>
  /\ UNCHANGED <<result, set, closed, err, code, endVars, failures>>

\* Next returns false: at the end of a set, on a failure, or once closed.
NextFalse ==
  /\ \/ SetDone /\ closed' = LastSet /\ UNCHANGED <<result, set, row, err>>
     \/ ~closed /\ Fails("rows")
     \/ closed /\ UNCHANGED sqlVars
  /\ Note(err', "none")
  /\ atEnd' = (~ended \/ atEnd)
  /\ UNCHANGED <<consumed, scans, allSets, skipped, endVars, givenVars>>

\* Scan fails on a conversion, and without a current row.
Scan(ok) ==
  /\ scans < MaxScans
  /\ ok => ~closed /\ row > 0
  /\ Note(IF ok THEN "none" ELSE "scan", "none")
  /\ scans' = IF ok /\ ~ended THEN scans + 1 ELSE scans
  /\ UNCHANGED <<sqlVars, consumed, atEnd, allSets, skipped, endVars, givenVars>>

Err ==
  /\ Note(err, "none")
  /\ UNCHANGED <<sqlVars, readVars, endVars, givenVars>>

\* Result: mapping, decoding or checking what was scanned failed.
Result ==
  /\ Note("result", "none")
  /\ UNCHANGED <<sqlVars, readVars, endVars, givenVars>>

\* Mutant: rows left unread in a set are forgotten.
NextSetForgetsSkipped ==
  /\ ~closed /\ ~LastSet
  /\ set' = set + 1 /\ row' = 0
  /\ atEnd' = FALSE
  /\ UNCHANGED <<result, closed, err, consumed, scans, allSets, skipped, code, endVars, givenVars, failures>>

\* NextResultSet moves on; leaving a set before its end is remembered.
NextSet ==
  /\ ~closed /\ ~LastSet
  /\ set' = set + 1 /\ row' = 0
  /\ skipped' = (skipped \/ (~ended /\ ~atEnd))
  /\ atEnd' = FALSE
  /\ UNCHANGED <<result, closed, err, consumed, scans, allSets, code, endVars, givenVars, failures>>

\* NextResultSet returns false: no further set, a failure, or closed already.
\* It ends the reader: all sets were read if none was left early.
NoNextSet ==
  /\ \/ ~closed /\ LastSet /\ closed' = TRUE /\ UNCHANGED <<result, set, row, err>>
     \/ ~closed /\ Fails("rows")
     \/ closed /\ UNCHANGED sqlVars
  /\ skipped' = (skipped \/ (~ended /\ ~atEnd))
  /\ allSets' = IF ended THEN allSets ELSE ~skipped'
  /\ CloseWith("none", err', allSets')
  /\ UNCHANGED <<consumed, scans, atEnd, givenVars>>

RowsNext ==
  \/ NextRow \/ NextFalse \/ Err \/ Result \/ NextSet \/ NoNextSet \/ Close \/ Cancel
  \/ \E ok \in BOOLEAN : Scan(ok)

RowsSpec == RowsInit /\ [][RowsNext]_rowsVars

(***************************************************************************)
(* Properties.                                                             *)
(***************************************************************************)
\* A success is a whole result: it is reported only when the caller was given
\* every row of every set and no call, the closing included, showed a failure;
\* and exactly then is the number of returned rows known, and right.
SuccessIsComplete ==
  final # NoEnd =>
    /\ final.outcome = "success" => read = result /\ failures = {} /\ err = "none"
    /\ final.known <=> final.outcome = "success"
    /\ final.known => final.returned = fed

\* Nothing that failed is reported as clean: a failure the reader was shown
\* before it ended makes the statement an error, with one of those failures.
FailureIsReported ==
  final # NoEnd =>
    /\ failures # {} <=> final.outcome = "error"
    /\ failures # {} => final.code \in failures

\* Both, and the ticket is ended once, by the first closing -- NextResultSet
\* closes too -- whatever the caller calls after it.
EndIsTruthful == SuccessIsComplete /\ FailureIsReported /\ ends <= 1
=============================================================================
