------------------------------ MODULE Migrations ------------------------------
(***************************************************************************)
(* The migration runner of mxm-refdata (sql/migration_runner.py): several   *)
(* processes run migrate() and inspect() of their own installed package     *)
(* against one PostgreSQL schema.                                           *)
(*                                                                          *)
(* A step is one statement or one transaction, at the places where another  *)
(* process can intervene: the two statements of the bootstrap transaction,  *)
(* the transaction that reads the ledger, one transaction per pending       *)
(* migration, and the two transactions of inspect().  No lock is held       *)
(* between them, so what a runner read may be stale when it acts on it.     *)
(*                                                                          *)
(* A migration is its version, its name and the checksum of its SQL text.   *)
(* What its SQL creates is one abstract relation per version: packaged      *)
(* migrations use a plain CREATE TABLE, which fails when it already exists. *)
(***************************************************************************)
EXTENDS Integers, FiniteSets

CONSTANTS
    Runner,     \* processes that call migrate() or inspect()
    Version,    \* versions of tracked migrations: "001", "002", ... as numbers
    Name,       \* migration names
    Checksum,   \* SHA-256 digests of migration texts
    Resources,  \* the sets of SQL resources a process may be installed with
    Absent,     \* no checksum: not packaged, or not recorded in the ledger
    MaxFaults   \* bound on the connection failures a behaviour may contain

BootstrapVersion == 0

Migration == [version : Version \cup {BootstrapVersion},
              name : Name, checksum : Checksum]

ASSUME VersionAssumption == Version \subseteq Nat \ {BootstrapVersion}
ASSUME AbsentAssumption == Absent \notin Checksum
ASSUME ResourcesAssumption == Resources \subseteq SUBSET Migration
ASSUME MaxFaultsAssumption == MaxFaults \in Nat

VARIABLES
    schemaExists,  \* the owned schema exists
    ledgerExists,  \* its table schema_migrations exists
    ledger,        \* the checksum recorded for each version
    relations,     \* the versions whose relations exist
    step,          \* where each runner is
    package,       \* tracked migrations of the package a runner discovered
    sawSchema,     \* whether CREATE SCHEMA IF NOT EXISTS found the schema
    pending,       \* packaged versions missing from the ledger a runner read
    newly,         \* versions the current migrate() call has applied
    inspection,    \* the last MigrationInspection of each runner
    err,           \* the exception that ended a runner's call
    faults         \* connection failures so far

schemaState == <<schemaExists, ledgerExists, ledger, relations>>
runnerState == <<package, sawSchema, pending, newly, inspection>>
migrationVars == <<schemaState, step, runnerState, err, faults>>

-----------------------------------------------------------------------------
(* Packages *)

IsBootstrap(m) == m.version = BootstrapVersion /\ m.name = "bootstrap"

\* What discover() accepts: 000_bootstrap.sql is there and no version occurs
\* twice, so no other file has the reserved version 000 and bootstrap is first.
Discoverable(res) ==
    /\ \E m \in res : IsBootstrap(m)
    /\ \A m, n \in res : m.version = n.version => m = n

\* migrations[1:], as a map from version to checksum.
Tracked(res) ==
    [v \in Version |->
        IF \E m \in res : m.version = v
        THEN (CHOOSE m \in res : m.version = v).checksum
        ELSE Absent]

Ledgers == [Version -> Checksum \cup {Absent}]
Recorded(book) == {v \in Version : book[v] # Absent}

Unknown(pkg) == Recorded(ledger) \ Recorded(pkg)
NoneMismatched(pkg) == {}
Mismatched(pkg) == {v \in Recorded(ledger) : ledger[v] # pkg[v]}
PendingIn(pkg) == Recorded(pkg) \ Recorded(ledger)

IsLast(r, v) == v \in pending[r] /\ \A w \in pending[r] : w <= v
IsNext(r, v) == v \in pending[r] /\ \A w \in pending[r] : v <= w

-----------------------------------------------------------------------------
Active == {"bootstrap", "create_ledger", "read_ledger", "apply",
           "inspect_bootstrap", "inspect_ledger"}
Ended == {"migrated", "inspected", "failed"}
Errors == {"none", "MigrationDiscoveryError", "MigrationStateError",
           "MigrationChecksumMismatchError", "UndefinedTable",
           "DuplicateObject", "OperationalError"}
Inspections == [initialised : BOOLEAN, applied : SUBSET Version,
                pending : SUBSET Version]
NotInspected == [initialised |-> FALSE, applied |-> {}, pending |-> {}]

GoTo(r, s) == step' = [step EXCEPT ![r] = s]
Raise(r, e) == GoTo(r, "failed") /\ err' = [err EXCEPT ![r] = e]

MigrationInit ==
    /\ schemaExists \in BOOLEAN         \* an administrator may have created it
    /\ ledgerExists = FALSE
    /\ ledger = [v \in Version |-> Absent]
    /\ relations = {}
    /\ step = [r \in Runner |-> "idle"]
    /\ package = [r \in Runner |-> [v \in Version |-> Absent]]
    /\ sawSchema = [r \in Runner |-> FALSE]
    /\ pending = [r \in Runner |-> {}]
    /\ newly = [r \in Runner |-> {}]
    /\ inspection = [r \in Runner |-> NotInspected]
    /\ err = [r \in Runner |-> "none"]
    /\ faults = 0

-----------------------------------------------------------------------------
(* discover(), shared by migrate() and inspect() *)

Discover(r, res, next) ==
    /\ step[r] = "idle"
    /\ Discoverable(res)
    /\ package' = [package EXCEPT ![r] = Tracked(res)]
    /\ newly' = [newly EXCEPT ![r] = {}]
    /\ GoTo(r, next)
    /\ UNCHANGED <<schemaState, sawSchema, pending, inspection, err, faults>>

StartMigrate(r, res) == Discover(r, res, "bootstrap")
StartInspect(r, res) == Discover(r, res, "inspect_bootstrap")

RejectPackage(r, res) ==
    /\ step[r] = "idle"
    /\ ~Discoverable(res)
    /\ Raise(r, "MigrationDiscoveryError")
    /\ UNCHANGED <<schemaState, runnerState, faults>>

-----------------------------------------------------------------------------
(* 000_bootstrap.sql: two IF NOT EXISTS statements in one transaction *)

CreateSchemaIfNotExists(r) ==
    /\ step[r] = "bootstrap"
    /\ sawSchema' = [sawSchema EXCEPT ![r] = schemaExists]
    /\ GoTo(r, "create_ledger")
    /\ UNCHANGED <<schemaState, package, pending, newly, inspection, err, faults>>

\* CREATE TABLE IF NOT EXISTS, and the commit that publishes both statements.
CommitBootstrap(r) ==
    /\ step[r] = "create_ledger"
    /\ sawSchema[r] = schemaExists
    /\ schemaExists' = TRUE
    /\ ledgerExists' = TRUE
    /\ GoTo(r, "read_ledger")
    /\ UNCHANGED <<ledger, relations, runnerState, err, faults>>

\* Another session committed the schema, or dropped it, after this session's
\* first statement looked: IF NOT EXISTS is no lock, and the second fails.
BootstrapCollides(r) ==
    /\ step[r] = "create_ledger"
    /\ sawSchema[r] # schemaExists
    /\ Raise(r, "DuplicateObject")
    /\ UNCHANGED <<schemaState, runnerState, faults>>

-----------------------------------------------------------------------------
(* _read_applied_migrations() and _validate_applied_migrations() *)

ReadingLedger(r) == step[r] \in {"read_ledger", "inspect_ledger"}

ReadLedger(r) ==
    /\ step[r] = "read_ledger"
    /\ ledgerExists
    /\ Unknown(package[r]) = {}
    /\ Mismatched(package[r]) = {}
    /\ pending' = [pending EXCEPT ![r] = PendingIn(package[r])]
    /\ GoTo(r, "apply")
    /\ UNCHANGED <<schemaState, package, sawSchema, newly, inspection, err, faults>>

\* Only a rebuild of another process removes it: see Materialisation.
LedgerMissing(r) ==
    /\ ReadingLedger(r)
    /\ ~ledgerExists
    /\ Raise(r, "UndefinedTable")
    /\ UNCHANGED <<schemaState, runnerState, faults>>

RejectUnknown(r) ==
    /\ ReadingLedger(r)
    /\ ledgerExists
    /\ Unknown(package[r]) # {}
    /\ Raise(r, "MigrationStateError")
    /\ UNCHANGED <<schemaState, runnerState, faults>>

RejectMismatch(r) ==
    /\ ReadingLedger(r)
    /\ ledgerExists
    /\ Unknown(package[r]) = {}
    /\ Mismatched(package[r]) # {}
    /\ Raise(r, "MigrationChecksumMismatchError")
    /\ UNCHANGED <<schemaState, runnerState, faults>>

-----------------------------------------------------------------------------
(* _apply_tracked_migration(): the SQL and the ledger row, one transaction *)

AlwaysApply(v) == ledgerExists
CanApply(v) == ledgerExists /\ v \notin relations /\ ledger[v] = Absent

CommitWithoutRecord(r, v) ==
    /\ relations' = relations \cup {v}
    /\ UNCHANGED <<schemaExists, ledgerExists, ledger>>

CommitMigration(r, v) ==
    /\ relations' = relations \cup {v}
    /\ ledger' = [ledger EXCEPT ![v] = package[r][v]]
    /\ UNCHANGED <<schemaExists, ledgerExists>>

ApplyMigration(r) ==
    /\ step[r] = "apply"
    /\ \E v \in Version :
        /\ IsNext(r, v)
        /\ CanApply(v)
        /\ CommitMigration(r, v)
        /\ pending' = [pending EXCEPT ![r] = @ \ {v}]
        /\ newly' = [newly EXCEPT ![r] = @ \cup {v}]
    /\ UNCHANGED <<step, package, sawSchema, inspection, err, faults>>

ApplyRetriesForever(r) == step[r] = "apply" /\ UNCHANGED migrationVars

\* The relation or the ledger row is there already, or the schema is gone:
\* another process acted after this one read the ledger.
ApplyCollides(r) ==
    /\ step[r] = "apply"
    /\ \E v \in Version : IsNext(r, v) /\ ~CanApply(v)
    /\ Raise(r, IF ledgerExists THEN "DuplicateObject" ELSE "UndefinedTable")
    /\ UNCHANGED <<schemaState, runnerState, faults>>

ReturnMigrated(r) ==
    /\ step[r] = "apply"
    /\ pending[r] = {}
    /\ GoTo(r, "migrated")
    /\ UNCHANGED <<schemaState, runnerState, err, faults>>

-----------------------------------------------------------------------------
(* inspect(): existence in one transaction, the ledger in a second *)

ReportBootstrapToo(r, initialised, applied, missing) ==
    /\ inspection' = [inspection EXCEPT ![r] =
            [initialised |-> initialised,
             applied |-> applied \cup {BootstrapVersion}, pending |-> missing]]
    /\ GoTo(r, "inspected")

Report(r, initialised, applied, missing) ==
    /\ inspection' = [inspection EXCEPT ![r] =
            [initialised |-> initialised, applied |-> applied,
             pending |-> missing]]
    /\ GoTo(r, "inspected")

InspectUninitialised(r) ==
    /\ step[r] = "inspect_bootstrap"
    /\ ~schemaExists
    /\ ~ledgerExists
    /\ Report(r, FALSE, {}, Recorded(package[r]))
    /\ UNCHANGED <<schemaState, package, sawSchema, pending, newly, err, faults>>

InspectInconsistent(r) ==
    /\ step[r] = "inspect_bootstrap"
    /\ schemaExists # ledgerExists
    /\ Raise(r, "MigrationStateError")
    /\ UNCHANGED <<schemaState, runnerState, faults>>

InspectBootstrap(r) ==
    /\ step[r] = "inspect_bootstrap"
    /\ schemaExists
    /\ ledgerExists
    /\ GoTo(r, "inspect_ledger")
    /\ UNCHANGED <<schemaState, runnerState, err, faults>>

InspectLedger(r) ==
    /\ step[r] = "inspect_ledger"
    /\ ledgerExists
    /\ Unknown(package[r]) = {}
    /\ Mismatched(package[r]) = {}
    /\ Report(r, TRUE, Recorded(ledger), PendingIn(package[r]))
    /\ UNCHANGED <<schemaState, package, sawSchema, pending, newly, err, faults>>

\* MigrationInspection.current
Current(i) == i.initialised /\ i.pending = {}

-----------------------------------------------------------------------------
(* Failures of the connection, and the end of a call *)

CountFault == faults < MaxFaults /\ faults' = faults + 1

\* The connection or the process fails: an open transaction is rolled back.
Interrupt(r) ==
    /\ step[r] \in Active
    /\ CountFault
    /\ Raise(r, "OperationalError")
    /\ UNCHANGED <<schemaState, runnerState>>

\* The server commits, and the connection fails before the client learns it.
CommitMigrationUnacknowledged(r) ==
    /\ step[r] = "apply"
    /\ \E v \in Version :
        IsNext(r, v) /\ CanApply(v) /\ CommitMigration(r, v)
    /\ CountFault
    /\ Raise(r, "OperationalError")
    /\ UNCHANGED runnerState

CommitBootstrapUnacknowledged(r) ==
    /\ step[r] = "create_ledger"
    /\ sawSchema[r] = schemaExists
    /\ schemaExists' = TRUE
    /\ ledgerExists' = TRUE
    /\ CountFault
    /\ Raise(r, "OperationalError")
    /\ UNCHANGED <<ledger, relations, runnerState>>

\* The command ends; the process may be called again.
EndCall(r) ==
    /\ step[r] \in Ended
    /\ GoTo(r, "idle")
    /\ err' = [err EXCEPT ![r] = "none"]
    /\ pending' = [pending EXCEPT ![r] = {}]
    /\ inspection' = [inspection EXCEPT ![r] = NotInspected]
    /\ package' = [package EXCEPT ![r] = [v \in Version |-> Absent]]
    /\ sawSchema' = [sawSchema EXCEPT ![r] = FALSE]
    /\ UNCHANGED <<schemaState, newly, faults>>

-----------------------------------------------------------------------------
Migrate(r) ==
    \/ CreateSchemaIfNotExists(r)
    \/ CommitBootstrap(r)
    \/ BootstrapCollides(r)
    \/ ReadLedger(r)
    \/ ApplyMigration(r)
    \/ ApplyCollides(r)
    \/ ReturnMigrated(r)

Inspect(r) ==
    \/ InspectUninitialised(r)
    \/ InspectInconsistent(r)
    \/ InspectBootstrap(r)
    \/ InspectLedger(r)

Validate(r) ==
    \/ RejectUnknown(r)
    \/ RejectMismatch(r)

Progress(r) == Migrate(r) \/ Inspect(r) \/ Validate(r)

Fault(r) ==
    \/ Interrupt(r)
    \/ CommitMigrationUnacknowledged(r)
    \/ CommitBootstrapUnacknowledged(r)

Call(r) ==
    \E res \in Resources :
        StartMigrate(r, res) \/ StartInspect(r, res) \/ RejectPackage(r, res)

MigrationNext ==
    \E r \in Runner : Call(r) \/ Progress(r) \/ Fault(r) \/ EndCall(r)

MigrationSpec == MigrationInit /\ [][MigrationNext]_migrationVars
-----------------------------------------------------------------------------
(* Properties.  Some definitions above precede a faulty variant of what they   *)
(* define (IsLast, NoneMismatched, AlwaysApply, CommitWithoutRecord,           *)
(* ApplyRetriesForever, ReportBootstrapToo): nothing uses them, they show     *)
(* that each property below notices the fault.                                *)

RunnerTypeOK ==
    /\ schemaExists \in BOOLEAN
    /\ ledgerExists \in BOOLEAN
    /\ ledger \in Ledgers
    /\ relations \subseteq Version
    /\ step \in [Runner -> {"idle"} \cup Active \cup Ended]
    /\ package \in [Runner -> Ledgers]
    /\ sawSchema \in [Runner -> BOOLEAN]
    /\ pending \in [Runner -> SUBSET Version]
    /\ newly \in [Runner -> SUBSET Version]
    /\ inspection \in [Runner -> Inspections]
    /\ faults \in 0..MaxFaults

\* Type invariant of the runner's state and of the schema it maintains.
MigrationTypeOK == RunnerTypeOK /\ err \in [Runner -> Errors]

\* "Each ordinary migration and its ledger insert execute in the same
\* transaction": whatever fails, and whoever else migrates, a version is
\* recorded exactly when its relations exist, and never without a ledger.
LedgerMatchesRelations ==
    /\ relations = Recorded(ledger)
    /\ relations # {} => ledgerExists /\ schemaExists

\* migrate() skips what its ledger snapshot records and applies the rest from
\* that snapshot; when it returns, the ledger still records every packaged
\* version with the packaged checksum, whatever other runners did meanwhile.
MigratedIsCurrent ==
    \A r \in Runner : step[r] = "migrated" =>
        \A v \in Recorded(package[r]) : ledger[v] = package[r][v]

\* Between two rebuilds each version is applied by one call only, although
\* nothing locks the ledger between reading it and applying what is missing.
AppliedOnce ==
    \A r, s \in Runner : r # s => newly[r] \cap newly[s] = {}

\* A crash, a lost commit or a competing runner of a longer or an edited
\* package never leaves a gap: the ledger is a prefix of one package.
LedgerIsPackagePrefix ==
    \E res \in Resources :
        /\ Discoverable(res)
        /\ \E n \in Version \cup {BootstrapVersion} :
            \A v \in Version :
                ledger[v] = IF v <= n THEN Tracked(res)[v] ELSE Absent

\* inspect() combines two transactions; what it calls current was current for
\* the inspector's package when the second ended, and stays so.
CurrentInspectionIsTrue ==
    \A r \in Runner : step[r] = "inspected" /\ Current(inspection[r]) =>
        \A v \in Recorded(package[r]) : ledger[v] = package[r][v]

\* A recorded checksum is never rewritten or removed by migrating: it is what
\* lets a later runner notice that packaged SQL was edited.
LedgerFrozen ==
    [][\A v \in Recorded(ledger) : ledger'[v] = ledger[v]]_migrationVars

-----------------------------------------------------------------------------
(* Liveness *)

RunnerFairness == \A r \in Runner : WF_migrationVars(Progress(r))

\* An operator who keeps calling migrate() after each call ends.
RetryFairness ==
    \A r \in Runner :
        /\ WF_migrationVars(EndCall(r))
        /\ SF_migrationVars(\E res \in Resources : StartMigrate(r, res))

MigrationFairSpec == MigrationSpec /\ RunnerFairness /\ RetryFairness

\* No call waits for ever: each transaction either commits or fails.
CallsEnd ==
    \A r \in Runner : step[r] \in Active ~> step[r] \in Ended

\* Runners of one package, colliding and failing finitely often, bring the
\* schema to the package and it stays there.
Converges ==
    <>[](\A res \in Resources : Discoverable(res) => ledger = Tracked(res))
=============================================================================
