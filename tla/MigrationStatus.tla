-------------------------- MODULE MigrationStatus --------------------------
(***************************************************************************)
(* migration.ReadStatus and `goquent migrate status` (status.go,           *)
(* migrate.go): whether the migration table exists is one query, its rows  *)
(* another, with nothing around the two.  The table belongs to a migration *)
(* tool that goes on working meanwhile: it marks a version dirty, applies  *)
(* it, cleans the mark, and may undo versions or drop the table.           *)
(***************************************************************************)
EXTENDS Naturals, SequencesExt

CONSTANTS
    Versions,     \* versions, ordered as numbers
    DesiredLists, \* what --desired and the files may name
    MaxMoves      \* bound: changes by the migration tool

VARIABLES
    ledger,       \* the table: exists, and the versions marked dirty and clean
    moves,
    status,       \* the read: phase, desired, dirty column, report, exit code
    wasReady      \* history: since the read began, the table was as desired

statusVars == <<ledger, moves, status, wasReady>>

NoReport == [exists |-> FALSE, applied |-> {}, dirty |-> FALSE, unknown |-> FALSE, pending |-> {}]
Empty == [exists |-> FALSE, dirty |-> {}, clean |-> {}]

-----------------------------------------------------------------------------
(* ReadStatus                                                              *)

(* Blank entries, here 0, and repeated ones are dropped; the order of what
   is left is layout                                                       *)
normalizeDesiredVersions(list) == Range(list) \ {0}

(* Mutant: what is not after the latest applied version counts as applied  *)
pendingByLatest(desired, applied) == {v \in desired : \A a \in applied : v > a}
pendingMigrationVersions(desired, applied) == {v \in desired : v \notin applied}

migrationStatusWarnings(desired, applied) == IF desired = {} THEN {} ELSE applied \ desired

Rows(t) == t.dirty \cup t.clean
Report(desired, column, t) ==
    [exists |-> TRUE, applied |-> Rows(t), dirty |-> column /\ t.dirty # {},
     unknown |-> migrationStatusWarnings(desired, Rows(t)) # {},
     pending |-> pendingMigrationVersions(desired, Rows(t))]

(* the exit code of runMigrateStatus                                       *)
ExitOf(r) == IF ~r.exists \/ r.dirty \/ r.unknown \/ r.pending # {} THEN 1 ELSE 0

Ready(t, desired, column) ==
    /\ t.exists /\ desired \subseteq Rows(t)
    /\ desired # {} => Rows(t) \subseteq desired
    /\ column => t.dirty = {}

Open == [phase |-> "idle", desired |-> {}, column |-> FALSE, report |-> NoReport, exit |-> 0]

ReadStatus(list, column) ==
    /\ status.phase = "idle"
    /\ status' = [Open EXCEPT !.phase = "exists", !.desired = normalizeDesiredVersions(list), !.column = column]
    /\ wasReady' = Ready(ledger, normalizeDesiredVersions(list), column)
    /\ UNCHANGED <<ledger, moves>>

Answered(report, code) ==
    status' = [status EXCEPT !.phase = "done", !.report = report, !.exit = code]

migrationStatusTableExists ==
    /\ status.phase = "exists"
    /\ IF ledger.exists THEN status' = [status EXCEPT !.phase = "rows"]
       ELSE Answered([NoReport EXCEPT !.pending = status.desired], 1)
    /\ UNCHANGED <<ledger, moves, wasReady>>

(* Fails when the table is gone by now                                     *)
readAppliedMigrations ==
    /\ status.phase = "rows"
    /\ LET r == Report(status.desired, status.column, ledger)
       IN  IF ledger.exists THEN Answered(r, ExitOf(r)) ELSE Answered(NoReport, 2)
    /\ UNCHANGED <<ledger, moves, wasReady>>

StatusFails ==
    /\ status.phase \in {"exists", "rows"}
    /\ Answered(NoReport, 2)
    /\ UNCHANGED <<ledger, moves, wasReady>>

-----------------------------------------------------------------------------
(* The migration tool                                                      *)

Moves(t) ==
    /\ moves < MaxMoves /\ status.phase # "done"
    /\ ledger' = t /\ moves' = moves + 1
    /\ wasReady' = (wasReady \/ Ready(t, status.desired, status.column))
    /\ UNCHANGED status

CreateLedger == ~ledger.exists /\ Moves([Empty EXCEPT !.exists = TRUE])
DropLedger == ledger.exists /\ Moves(Empty)
MarkDirty(v) == ledger.exists /\ v \notin Rows(ledger) /\ Moves([ledger EXCEPT !.dirty = @ \cup {v}])
MarkClean(v) == v \in ledger.dirty /\ Moves([ledger EXCEPT !.dirty = @ \ {v}, !.clean = @ \cup {v}])
Undo(v) == v \in ledger.clean /\ Moves([ledger EXCEPT !.clean = @ \ {v}])

StatusInit ==
    /\ ledger = Empty /\ moves = 0 /\ status = Open /\ wasReady = FALSE
StatusNext ==
    \/ \E list \in DesiredLists, column \in BOOLEAN : ReadStatus(list, column)
    \/ migrationStatusTableExists \/ readAppliedMigrations \/ StatusFails
    \/ CreateLedger \/ DropLedger
    \/ \E v \in Versions : MarkDirty(v) \/ MarkClean(v) \/ Undo(v)
StatusSpec == StatusInit /\ [][StatusNext]_statusVars

-----------------------------------------------------------------------------
(* Exit code 0 of `migrate status` means that at some moment of the read the
   table held every desired version and no other, and no dirty one when the
   dirty column was named, although its two queries may see the table in
   two different states (status.go:90).                                    *)
ReadyWasTrue == status.phase = "done" /\ status.exit = 0 => wasReady
=============================================================================
