------------------------------- MODULE Observers -------------------------------
(***************************************************************************)
(* What other processes see of the store while commands change it: the      *)
(* readiness report of run_refdata_diagnostics() (diagnostics.py,           *)
(* sql/diagnostics.py) and the contract queries of RefDataReader            *)
(* (reader.py), beside builds and rebuilds.                                 *)
(*                                                                          *)
(* A report is put together from the two transactions of inspect(), one for *)
(* the row counts and one or two for each canonical cycle: nothing keeps    *)
(* the database still between them.  A contract query is two statements of  *)
(* one READ COMMITTED transaction, each with a snapshot of its own; the     *)
(* table read first stays locked against DROP until the transaction ends.   *)
(* A transaction of one statement is one step.                              *)
(***************************************************************************)
EXTENDS Materialisation, Sequences

CONSTANTS
    Observer,         \* the processes that report and query, and issue no command
    CanonicalCycles   \* the cycles diagnostics verifies, in its order

ASSUME ObserverAssumption == Observer \subseteq Runner
ASSUME CanonicalAssumption == CanonicalCycles \in Seq(Cycle) \ {<<>>}

VARIABLES
    look,        \* where each observer is
    failed,      \* the checks its report has failed so far
    counted,     \* whether its report has row counts
    turn,        \* the canonical cycle it verifies
    fetched,     \* the contracts its query has read
    readyBefore  \* history: the store was ready when the report was begun

reportVars == <<failed, counted, turn, readyBefore>>
observerVars == <<look, reportVars, fetched>>
observedVars == <<vars, observerVars>>

CountChecks == {"core reference data populated", "product provenance complete",
                "period cycles populated"}
Checks == {"migration state", "migration initialised", "migration current"}
          \cup CountChecks \cup Cycle

\* The check of a canonical cycle is named after it (diagnostics.py:389), unlike
\* those of the counts.
ASSUME CheckNamesAssumption == Cycle \cap CountChecks = {}

Looking == {"inspect", "cycle", "memberships", "contracts"}
Looked == {"reported", "answered", "lookup_error", "raised"}

Observe(o, l) == look' = [look EXCEPT ![o] = l]

ObservedInit ==
    /\ Init
    /\ look = [o \in Observer |-> "idle"]
    /\ failed = [o \in Observer |-> {}]
    /\ counted = [o \in Observer |-> FALSE]
    /\ turn = [o \in Observer |-> 1]
    /\ fetched = [o \in Observer |-> {}]
    /\ readyBefore = [o \in Observer |-> FALSE]

-----------------------------------------------------------------------------
(* What the checks ask of the rows *)

RowsOf(s, t) == {k \in Present(s) : k.table = t}
CountOf(s, t) == Cardinality(RowsOf(s, t))
SomeIn(s, t) == RowsOf(s, t) # {}

CompareWithContracts(s) ==
    CountOf(s, "futures_product_sources") = CountOf(s, "futures_contracts")
ProvenanceComplete(s) ==
    CountOf(s, "futures_product_sources") = CountOf(s, "futures_products")

CountsPass(s, check) ==
    CASE check = "core reference data populated" ->
            /\ SomeIn(s, "futures_products")
            /\ SomeIn(s, "periods")
            /\ SomeIn(s, "futures_contracts")
      [] check = "product provenance complete" -> ProvenanceComplete(s)
      [] check = "period cycles populated" ->
            /\ SomeIn(s, "period_cycles")
            /\ SomeIn(s, "period_cycle_memberships")

FailedCounts(s) == {check \in CountChecks : ~CountsPass(s, check)}

\* The structure of a persisted cycle is that of the constants both sides use.
CycleIsThere(s, c) == s[Row("period_cycles", c)] # Unset
AlwaysMembers(s, c) == TRUE
HasMembers(s, c) == \E k \in RowsOf(s, "period_cycle_memberships") : k.id[1] = c

-----------------------------------------------------------------------------
(* run_refdata_diagnostics() *)

\* What "ready" is meant to say of a store: it is migrated, no table is empty,
\* each product has its source, each canonical cycle is there with memberships.
StoreReady ==
    /\ Recorded(Tracked(PackageRes)) \subseteq Recorded(ledger)
    /\ \A t \in Tables : \E k \in Present(rows) : k.table = t
    /\ \A p \in Product : rows[Row("futures_products", p)] # Unset =>
                                rows[Row("futures_product_sources", p)] # Unset
    /\ \A i \in DOMAIN CanonicalCycles :
        /\ rows[Row("period_cycles", CanonicalCycles[i])] # Unset
        /\ \E k \in Present(rows) : /\ k.table = "period_cycle_memberships"
                                    /\ k.id[1] = CanonicalCycles[i]

StartDiagnostics(o) ==
    /\ look[o] = "idle"
    /\ StartInspect(o, PackageRes)
    /\ Observe(o, "inspect")
    /\ readyBefore' = [readyBefore EXCEPT ![o] = StoreReady]
    /\ UNCHANGED <<rows, phase, commandVars, transactionVars, failed, counted, turn,
                   fetched>>

\* Another process may drop the schema between the two transactions.
InspectMigrations(o) ==
    /\ look[o] = "inspect"
    /\ Inspect(o) \/ LedgerMissing(o)
    /\ UNCHANGED <<rows, phase, commandVars, transactionVars, observerVars>>

InspectFault(o) ==
    /\ look[o] = "inspect"
    /\ Interrupt(o)
    /\ UNCHANGED <<rows, phase, commandVars, transactionVars, observerVars>>

EndReport(o, checks) ==
    /\ failed' = [failed EXCEPT ![o] = checks]
    /\ Observe(o, "reported")

\* except MigrationError
ReportMigrationError(o) ==
    /\ look[o] = "inspect"
    /\ step[o] = "failed"
    /\ err[o] = "MigrationStateError"
    /\ EndReport(o, {"migration state"})
    /\ UNCHANGED <<vars, counted, turn, fetched, readyBefore>>

\* Any other exception is the caller's.
InspectRaises(o) ==
    /\ look[o] = "inspect"
    /\ step[o] = "failed"
    /\ err[o] # "MigrationStateError"
    /\ Observe(o, "raised")
    /\ UNCHANGED <<vars, reportVars, fetched>>

ReportUninitialised(o) ==
    /\ look[o] = "inspect"
    /\ step[o] = "inspected"
    /\ ~inspection[o].initialised
    /\ EndReport(o, {"migration initialised"})
    /\ UNCHANGED <<vars, counted, turn, fetched, readyBefore>>

ReportPending(o) ==
    /\ look[o] = "inspect"
    /\ step[o] = "inspected"
    /\ inspection[o].initialised
    /\ ~Current(inspection[o])
    /\ EndReport(o, {"migration current"})
    /\ UNCHANGED <<vars, counted, turn, fetched, readyBefore>>

CyclesWithoutEnd(o) ==
    /\ turn' = [turn EXCEPT ![o] = @ + 1]
    /\ Observe(o, "cycle")

\* The next canonical cycle, or the report.
NextCycle(o) ==
    /\ turn' = [turn EXCEPT ![o] = @ + 1]
    /\ Observe(o, IF turn[o] = Len(CanonicalCycles) THEN "reported" ELSE "cycle")

CycleAt(o) == CanonicalCycles[turn[o]]
Fails(o, check) == failed' = [failed EXCEPT ![o] = @ \cup {check}]

\* fetch_refdata_row_counts(): six counts in one statement, one snapshot.
CountRows(o) ==
    /\ look[o] = "inspect"
    /\ step[o] = "inspected"
    /\ Current(inspection[o])
    /\ TablesExist
    /\ failed' = [failed EXCEPT ![o] = FailedCounts(rows)]
    /\ counted' = [counted EXCEPT ![o] = TRUE]
    /\ Observe(o, "cycle")
    /\ UNCHANGED <<vars, turn, fetched, readyBefore>>

\* get_cycle_by_id()
ReadCycle(o) ==
    /\ look[o] = "cycle"
    /\ TablesExist
    /\ CycleIsThere(rows, CycleAt(o))
    /\ Observe(o, "memberships")
    /\ UNCHANGED <<vars, reportVars, fetched>>

MissCycle(o) ==
    /\ look[o] = "cycle"
    /\ TablesExist
    /\ ~CycleIsThere(rows, CycleAt(o))
    /\ Fails(o, CycleAt(o))
    /\ NextCycle(o)
    /\ UNCHANGED <<vars, counted, fetched, readyBefore>>

\* get_cycle_memberships()
ReadMemberships(o) ==
    /\ look[o] = "memberships"
    /\ TablesExist
    /\ HasMembers(rows, CycleAt(o))
    /\ NextCycle(o)
    /\ UNCHANGED <<vars, failed, counted, fetched, readyBefore>>

MissMemberships(o) ==
    /\ look[o] = "memberships"
    /\ TablesExist
    /\ ~HasMembers(rows, CycleAt(o))
    /\ Fails(o, CycleAt(o))
    /\ NextCycle(o)
    /\ UNCHANGED <<vars, counted, fetched, readyBefore>>

\* A statement finds no tables: a rebuild dropped them after the inspection.
ReportLosesTables(o) ==
    /\ \/ look[o] \in {"cycle", "memberships"}
       \/ look[o] = "inspect" /\ step[o] = "inspected" /\ Current(inspection[o])
    /\ ~TablesExist
    /\ Observe(o, "raised")
    /\ err' = [err EXCEPT ![o] = "UndefinedTable"]
    /\ UNCHANGED <<schemaState, step, runnerState, faults, rows, phase, commandVars,
                   transactionVars, reportVars, fetched>>

\* RefDataDiagnosticReport.ready
Ready(o) ==
    look[o] = "reported" /\ Current(inspection[o]) /\ counted[o] /\ failed[o] = {}

-----------------------------------------------------------------------------
(* get_contracts_for_product() and get_active_contracts() *)

\* The first statement: the contracts of some products, of some periods (those
\* of a period type, or active on a date).
ContractsOf(ps, ms) ==
    {k \in RowsOf(rows, "futures_contracts") : k.id[1] \in ps /\ k.id[2] \in ms}

LeaveUnlocked(o) == UNCHANGED locked
Lock(o) == locked' = [locked EXCEPT ![o] = {"futures_contracts"}]

ReadContracts(o, ps, ms) ==
    /\ look[o] = "idle"
    /\ TablesExist
    /\ fetched' = [fetched EXCEPT ![o] = ContractsOf(ps, ms)]
    /\ Lock(o)
    /\ Observe(o, "contracts")
    /\ UNCHANGED <<migrationVars, rows, phase, commandVars, written, reportVars>>

QueryFindsNoTables(o) ==
    /\ look[o] = "idle"
    /\ ~TablesExist
    /\ Observe(o, "raised")
    /\ err' = [err EXCEPT ![o] = "UndefinedTable"]
    /\ UNCHANGED <<schemaState, step, runnerState, faults, rows, phase, commandVars,
                   transactionVars, reportVars, fetched>>

\* The second statement reads their periods, and _order_contracts_by_period()
\* wants every one of them.
PeriodsMissing(o) == {k \in fetched[o] : rows[Row("periods", k.id[2])] = Unset}

KeepLock(o) == UNCHANGED locked
Unlock(o) == locked' = [locked EXCEPT ![o] = {}]

ReadPeriods(o) ==
    /\ look[o] = "contracts"
    /\ Unlock(o)
    /\ Observe(o, IF PeriodsMissing(o) = {} THEN "answered" ELSE "lookup_error")
    /\ UNCHANGED <<migrationVars, rows, phase, commandVars, written, reportVars, fetched>>

-----------------------------------------------------------------------------
(* Failures, and the end of an observation *)

\* The connection fails, or PostgreSQL cancels the session (a reader and a DROP
\* that each hold a table the other wants, for one).
Disconnect(o) ==
    /\ look[o] \in Looking \ {"inspect"}
    /\ CountFault
    /\ Observe(o, "raised")
    /\ err' = [err EXCEPT ![o] = "OperationalError"]
    /\ Unlock(o)
    /\ UNCHANGED <<schemaState, step, runnerState, rows, phase, commandVars, written,
                   reportVars, fetched>>

EndObservation(o) ==
    /\ look[o] \in Looked
    /\ Observe(o, "idle")
    /\ ForgetRunner(o)
    /\ inspection' = [inspection EXCEPT ![o] = NotInspected]
    /\ err' = [err EXCEPT ![o] = "none"]
    /\ failed' = [failed EXCEPT ![o] = {}]
    /\ counted' = [counted EXCEPT ![o] = FALSE]
    /\ turn' = [turn EXCEPT ![o] = 1]
    /\ fetched' = [fetched EXCEPT ![o] = {}]
    /\ readyBefore' = [readyBefore EXCEPT ![o] = FALSE]
    /\ UNCHANGED <<schemaState, faults, rows, phase, commandVars, transactionVars>>

-----------------------------------------------------------------------------
Diagnose(o) ==
    \/ InspectMigrations(o)
    \/ ReportMigrationError(o)
    \/ InspectRaises(o)
    \/ ReportUninitialised(o)
    \/ ReportPending(o)
    \/ CountRows(o)
    \/ ReadCycle(o)
    \/ MissCycle(o)
    \/ ReadMemberships(o)
    \/ MissMemberships(o)
    \/ ReportLosesTables(o)

Observation(o) ==
    \/ StartDiagnostics(o)
    \/ Diagnose(o)
    \/ \E ps \in SUBSET Product \ {{}}, ms \in SUBSET Period :
            ReadContracts(o, ps, ms)
    \/ QueryFindsNoTables(o)
    \/ ReadPeriods(o)
    \/ InspectFault(o)
    \/ Disconnect(o)
    \/ EndObservation(o)

ObservedNext ==
    \/ \E r \in Runner \ Observer : CommandStep(r) /\ UNCHANGED observerVars
    \/ \E o \in Observer : Observation(o)

ObservedSpec == ObservedInit /\ [][ObservedNext]_observedVars
-----------------------------------------------------------------------------
(* Properties.  CompareWithContracts, AlwaysMembers, CyclesWithoutEnd,          *)
(* LeaveUnlocked and KeepLock are faulty variants of the definitions after      *)
(* them: nothing uses them, they show that each property below notices the      *)
(* fault.                                                                       *)

\* Type invariant of the observers.
ObserverTypeOK ==
    /\ look \in [Observer -> {"idle"} \cup Looking \cup Looked]
    /\ failed \in [Observer -> SUBSET Checks]
    /\ counted \in [Observer -> BOOLEAN]
    /\ turn \in [Observer -> 1..Len(CanonicalCycles) + 1]
    /\ \A o \in Observer : look[o] \in {"cycle", "memberships"} =>
                                turn[o] \in DOMAIN CanonicalCycles
    /\ fetched \in [Observer -> SUBSET Key]
    /\ readyBefore \in [Observer -> BOOLEAN]

\* A contract query never meets a contract without its period, although its two
\* statements have different snapshots and a rebuild may come in between: the
\* first statement keeps the tables from being dropped.
ContractsHavePeriods == \A o \in Observer : look[o] # "lookup_error"

\* The counts of a report are never those of a partial materialisation: a count
\* check fails when nothing was built, or when the desired state of some input
\* would fail it.
CountsAreOfWholeStates ==
    \A o \in Observer : counted[o] =>
        LET bad == failed[o] \cap CountChecks IN
        \/ bad = FailedCounts(Empty)
        \/ \E in \in ValidInputs : bad \subseteq FailedCounts(DesiredOf[in])

\* While nobody rebuilds, a report that says ready is right when it is read,
\* although its parts were observed at different times.
ReadyReportsHold == \A o \in Observer : Ready(o) => StoreReady

\* While nobody rebuilds, a store that was ready when the report was begun is
\* reported ready, whatever builds are going on or failing, unless the
\* observer's own connection fails.
NoFalseAlarm ==
    \A o \in Observer : readyBefore[o] =>
        /\ look[o] = "reported" => Ready(o)
        /\ look[o] = "raised" => err[o] = "OperationalError"

-----------------------------------------------------------------------------
(* Liveness *)

Observing(o) == Diagnose(o) \/ ReadPeriods(o)

FairObservedSpec ==
    /\ ObservedSpec
    /\ \A r \in Runner \ Observer : SF_observedVars(Command(r) /\ UNCHANGED observerVars)
    /\ \A o \in Observer : WF_observedVars(Observing(o))

\* Every report and every query ends, whoever takes their tables away, and so
\* does every command: a reader's transaction does not keep a rebuild waiting
\* for ever (reader.py:220, diagnostics.py:160, materialisation.py:388).
ObservationsEnd ==
    /\ CommandsEnd
    /\ \A o \in Observer : look[o] \in Looking ~> look[o] \in Looked
=============================================================================
