--------------------------- MODULE MigrationsProofs ---------------------------
(***************************************************************************)
(* Proofs about the migration runner: its invariants hold for any number of *)
(* runners, any packages and any number of faults.                          *)
(***************************************************************************)
EXTENDS Migrations, TLAPS

-----------------------------------------------------------------------------
(* Type correctness *)

\* A step leaves err alone or raises one of the runner's exceptions.
ErrStep(r) == UNCHANGED err \/ \E e \in Errors : err' = [err EXCEPT ![r] = e]

LEMMA TrackedType ==
    ASSUME NEW res \in Resources
    PROVE  Tracked(res) \in Ledgers
<1>1. SUFFICES ASSUME NEW v \in Version, NEW n \in res, n.version = v
               PROVE  (CHOOSE m \in res : m.version = v).checksum \in Checksum
    BY DEF Tracked, Ledgers
<1>2. (CHOOSE m \in res : m.version = v) \in res
    BY <1>1
<1>3. res \subseteq Migration
    BY ResourcesAssumption
<1> QED
    BY <1>2, <1>3 DEF Migration

LEMMA DiscoverType ==
    ASSUME RunnerTypeOK, NEW r \in Runner, NEW res \in Resources,
           StartMigrate(r, res) \/ StartInspect(r, res)
    PROVE  RunnerTypeOK' /\ UNCHANGED err
BY TrackedType DEF StartMigrate, StartInspect, Discover, RunnerTypeOK,
                   schemaState, GoTo, Active, Ended

LEMMA MigrateType ==
    ASSUME RunnerTypeOK, NEW r \in Runner, Migrate(r)
    PROVE  RunnerTypeOK' /\ ErrStep(r)
<1> USE DEF RunnerTypeOK, schemaState, runnerState, GoTo, Raise, Active, Ended,
            Errors, ErrStep
<1>1. CASE CreateSchemaIfNotExists(r)
    BY <1>1 DEF CreateSchemaIfNotExists
<1>2. CASE CommitBootstrap(r)
    BY <1>2 DEF CommitBootstrap
<1>3. CASE BootstrapCollides(r)
    BY <1>3 DEF BootstrapCollides
<1>4. CASE ReadLedger(r)
    BY <1>4 DEF ReadLedger, PendingIn, Recorded
<1>5. CASE ApplyMigration(r)
    <2>1. PICK v \in Version :
            /\ CommitMigration(r, v)
            /\ pending' = [pending EXCEPT ![r] = @ \ {v}]
            /\ newly' = [newly EXCEPT ![r] = @ \cup {v}]
        BY <1>5 DEF ApplyMigration
    <2>2. ledger' \in Ledgers
        BY <2>1 DEF CommitMigration, Ledgers
    <2> QED
        BY <1>5, <2>1, <2>2 DEF ApplyMigration, CommitMigration
<1>6. CASE ApplyCollides(r)
    BY <1>6 DEF ApplyCollides
<1>7. CASE ReturnMigrated(r)
    BY <1>7 DEF ReturnMigrated
<1> QED
    BY <1>1, <1>2, <1>3, <1>4, <1>5, <1>6, <1>7 DEF Migrate

LEMMA ValidateType ==
    ASSUME RunnerTypeOK, NEW r \in Runner, Validate(r)
    PROVE  RunnerTypeOK' /\ ErrStep(r)
BY DEF Validate, RejectUnknown, RejectMismatch, RunnerTypeOK,
       schemaState, runnerState, GoTo, Raise, Ended, Errors, ErrStep

LEMMA InspectType ==
    ASSUME RunnerTypeOK, NEW r \in Runner, Inspect(r)
    PROVE  RunnerTypeOK' /\ ErrStep(r)
<1> USE DEF RunnerTypeOK, schemaState, runnerState, GoTo, Raise, Active, Ended,
            Errors, ErrStep, Report, Inspections, Recorded, PendingIn
<1>1. CASE InspectUninitialised(r)
    BY <1>1 DEF InspectUninitialised
<1>2. CASE InspectInconsistent(r)
    BY <1>2 DEF InspectInconsistent
<1>3. CASE InspectBootstrap(r)
    BY <1>3 DEF InspectBootstrap
<1>4. CASE InspectLedger(r)
    BY <1>4 DEF InspectLedger
<1> QED
    BY <1>1, <1>2, <1>3, <1>4 DEF Inspect

LEMMA FaultType ==
    ASSUME RunnerTypeOK, NEW r \in Runner, Fault(r)
    PROVE  RunnerTypeOK' /\ ErrStep(r)
<1> USE DEF RunnerTypeOK, schemaState, runnerState, GoTo, Raise, Ended, Errors,
            ErrStep, CountFault
<1> USE MaxFaultsAssumption
<1>1. CASE Interrupt(r)
    BY <1>1 DEF Interrupt
<1>2. CASE CommitMigrationUnacknowledged(r)
    <2>1. PICK v \in Version : CommitMigration(r, v)
        BY <1>2 DEF CommitMigrationUnacknowledged
    <2>2. ledger' \in Ledgers
        BY <2>1 DEF CommitMigration, Ledgers
    <2> QED
        BY <1>2, <2>1, <2>2 DEF CommitMigrationUnacknowledged, CommitMigration
<1>3. CASE CommitBootstrapUnacknowledged(r)
    BY <1>3 DEF CommitBootstrapUnacknowledged
<1> QED
    BY <1>1, <1>2, <1>3 DEF Fault

LEMMA EndCallType ==
    ASSUME MigrationTypeOK, NEW r \in Runner, EndCall(r)
    PROVE  MigrationTypeOK'
BY DEF EndCall, MigrationTypeOK, RunnerTypeOK, schemaState, GoTo, Ledgers,
       Inspections, NotInspected, Errors

LEMMA MigrationTypeInit == MigrationInit => MigrationTypeOK
<1> SUFFICES ASSUME MigrationInit PROVE MigrationTypeOK
    OBVIOUS
<1>1. inspection \in [Runner -> Inspections]
    BY DEF MigrationInit, Inspections, NotInspected
<1>2. faults \in 0..MaxFaults
    BY MaxFaultsAssumption DEF MigrationInit
<1>3. ledger \in Ledgers /\ package \in [Runner -> Ledgers]
    BY DEF MigrationInit, Ledgers
<1> QED
    BY <1>1, <1>2, <1>3 DEF MigrationInit, MigrationTypeOK, RunnerTypeOK, Errors

LEMMA MigrationTypeStep ==
    ASSUME MigrationTypeOK, [MigrationNext]_migrationVars
    PROVE  MigrationTypeOK'
<1>1. CASE UNCHANGED migrationVars
    BY <1>1 DEF migrationVars, schemaState, runnerState, MigrationTypeOK,
                RunnerTypeOK
<1>2. ASSUME NEW r \in Runner, Call(r) PROVE MigrationTypeOK'
    <2>1. PICK res \in Resources : \/ StartMigrate(r, res)
                                   \/ StartInspect(r, res)
                                   \/ RejectPackage(r, res)
        BY <1>2 DEF Call
    <2>2. CASE StartMigrate(r, res) \/ StartInspect(r, res)
        BY <2>2, DiscoverType DEF MigrationTypeOK
    <2>3. CASE RejectPackage(r, res)
        BY <2>3 DEF RejectPackage, MigrationTypeOK, RunnerTypeOK, Ended,
                    schemaState, runnerState, GoTo, Raise, Errors
    <2> QED
        BY <2>1, <2>2, <2>3
<1>3. ASSUME NEW r \in Runner, Progress(r) \/ Fault(r) PROVE MigrationTypeOK'
    <2>1. RunnerTypeOK' /\ ErrStep(r)
        BY <1>3, MigrateType, InspectType, ValidateType, FaultType
        DEF Progress, MigrationTypeOK
    <2> QED
        BY <2>1 DEF ErrStep, MigrationTypeOK
<1>4. ASSUME NEW r \in Runner, EndCall(r) PROVE MigrationTypeOK'
    BY <1>4, EndCallType
<1> QED
    BY <1>1, <1>2, <1>3, <1>4 DEF MigrationNext

\* Every variable of the migration runner stays within its type, for any
\* packages and any interleaving of the calls to migrate() and inspect().
THEOREM MigrationTypeCorrect == MigrationSpec => []MigrationTypeOK
BY MigrationTypeInit, MigrationTypeStep, PTL DEF MigrationSpec

-----------------------------------------------------------------------------
(* The inductive invariant *)

\* What one runner relies on: it applies packaged versions only, what it need
\* not apply any more is recorded as packaged, so is what an inspection does not
\* call pending, and what it claims to have applied exists.
RunnerInv(r) ==
    /\ step[r] = "apply" => pending[r] \subseteq Recorded(package[r])
    /\ step[r] \in {"apply", "migrated"} =>
        \A v \in Recorded(package[r]) \ pending[r] : ledger[v] = package[r][v]
    /\ step[r] = "migrated" => pending[r] = {}
    /\ step[r] = "inspected" /\ inspection[r].initialised =>
        \A v \in Recorded(package[r]) \ inspection[r].pending :
            ledger[v] = package[r][v]
    /\ newly[r] \subseteq relations

MigrationInv ==
    /\ MigrationTypeOK
    /\ LedgerMatchesRelations
    /\ ledgerExists => schemaExists
    /\ \A r \in Runner : RunnerInv(r)
    /\ AppliedOnce

\* The ledger changes only where a runner commits its next pending version.
LEMMA LedgerChanges ==
    ASSUME [MigrationNext]_migrationVars
    PROVE  \/ UNCHANGED ledger
           \/ \E r \in Runner, v \in Version :
                /\ step[r] = "apply"
                /\ IsNext(r, v)
                /\ CanApply(v)
                /\ CommitMigration(r, v)
<1>1. ASSUME NEW r \in Runner, ApplyMigration(r) \/ CommitMigrationUnacknowledged(r)
      PROVE  \E v \in Version : /\ step[r] = "apply"
                                /\ IsNext(r, v)
                                /\ CanApply(v)
                                /\ CommitMigration(r, v)
    BY <1>1 DEF ApplyMigration, CommitMigrationUnacknowledged
<1>2. \/ UNCHANGED ledger
      \/ \E r \in Runner : ApplyMigration(r) \/ CommitMigrationUnacknowledged(r)
    BY ZenonT(30) DEF MigrationNext, migrationVars, schemaState, Call, StartMigrate,
           StartInspect, Discover, RejectPackage, Progress, Migrate,
           CreateSchemaIfNotExists, CommitBootstrap, BootstrapCollides,
           ReadLedger, ApplyCollides, ReturnMigrated, Inspect,
           InspectUninitialised, InspectInconsistent, InspectBootstrap,
           InspectLedger, Validate, RejectUnknown, RejectMismatch, Fault,
           Interrupt, CommitBootstrapUnacknowledged, EndCall
<1> QED
    BY <1>1, <1>2

\* Every step keeps what the ledger records.
LEMMA LedgerGrows ==
    ASSUME MigrationTypeOK, [MigrationNext]_migrationVars
    PROVE  \A v \in Recorded(ledger) : ledger'[v] = ledger[v]
<1>1. ASSUME NEW r \in Runner, NEW v \in Version, CanApply(v),
             CommitMigration(r, v)
      PROVE  \A w \in Recorded(ledger) : ledger'[w] = ledger[w]
    BY <1>1 DEF CanApply, CommitMigration, Recorded, MigrationTypeOK,
                RunnerTypeOK, Ledgers
<1> QED
    BY <1>1, LedgerChanges

LEMMA MigrationInvInit == MigrationInit => MigrationInv
<1> SUFFICES ASSUME MigrationInit PROVE MigrationInv
    OBVIOUS
<1>1. MigrationTypeOK
    BY MigrationTypeInit
<1>2. Recorded(ledger) = {}
    BY DEF MigrationInit, Recorded
<1> QED
    BY <1>1, <1>2 DEF MigrationInit, MigrationInv, LedgerMatchesRelations,
        RunnerInv, AppliedOnce

\* A step that only moves the runner that takes it, to where nothing is claimed.
LEMMA MoveOn ==
    ASSUME MigrationInv, MigrationTypeOK', NEW r \in Runner,
           UNCHANGED schemaState,
           \A s \in Runner \ {r} : /\ step'[s] = step[s]
                                   /\ package'[s] = package[s]
                                   /\ pending'[s] = pending[s]
                                   /\ inspection'[s] = inspection[s],
           \A s \in Runner \ {r} : newly'[s] = newly[s],
           newly'[r] \in {newly[r], {}},
           step'[r] \notin {"apply", "migrated", "inspected"}
    PROVE  MigrationInv'
BY DEF MigrationInv, schemaState, LedgerMatchesRelations, Recorded, RunnerInv,
       AppliedOnce

LEMMA CallInv ==
    ASSUME MigrationInv, MigrationTypeOK', NEW r \in Runner,
           Call(r) \/ Validate(r) \/ EndCall(r)
    PROVE  MigrationInv'
<1> USE DEF schemaState, runnerState, GoTo, Raise
<1>1. MigrationTypeOK
    BY DEF MigrationInv
<1>2. CASE Call(r)
    <2>1. PICK res \in Resources : \/ StartMigrate(r, res)
                                   \/ StartInspect(r, res)
                                   \/ RejectPackage(r, res)
        BY <1>2 DEF Call
    <2> QED
        BY <1>1, <2>1, MoveOn DEF StartMigrate, StartInspect, RejectPackage,
            Discover, MigrationTypeOK, RunnerTypeOK
<1>3. CASE Validate(r)
    BY <1>1, <1>3, MoveOn DEF Validate, RejectUnknown,
        RejectMismatch, MigrationTypeOK, RunnerTypeOK
<1>4. CASE EndCall(r)
    BY <1>1, <1>4, MoveOn DEF EndCall, MigrationTypeOK, RunnerTypeOK
<1> QED
    BY <1>2, <1>3, <1>4

\* Applying one version, whether or not the runner learns of it.
LEMMA CommitMigrationInv ==
    ASSUME MigrationInv, MigrationTypeOK', NEW r \in Runner, NEW v \in Version,
           step[r] = "apply", IsNext(r, v), CanApply(v), CommitMigration(r, v),
           \A s \in Runner \ {r} : /\ step'[s] = step[s]
                                   /\ package'[s] = package[s]
                                   /\ pending'[s] = pending[s]
                                   /\ inspection'[s] = inspection[s]
                                   /\ newly'[s] = newly[s],
           package'[r] = package[r],
           \/ /\ step'[r] = "apply"
              /\ pending'[r] = pending[r] \ {v}
              /\ newly'[r] = newly[r] \cup {v}
           \/ /\ step'[r] = "failed"
              /\ newly'[r] = newly[r]
    PROVE  MigrationInv'
<1> USE DEF MigrationInv
<1>1. /\ package[r][v] \in Checksum \cup {Absent}
      /\ package[r][v] # Absent
    BY DEF IsNext, RunnerInv, Recorded, MigrationTypeOK, RunnerTypeOK, Ledgers
<1>2. /\ ledger'[v] = package[r][v]
      /\ \A w \in Version \ {v} : ledger'[w] = ledger[w]
      /\ ledger[v] = Absent
      /\ relations' = relations \cup {v}
      /\ v \notin relations
      /\ UNCHANGED <<schemaExists, ledgerExists>>
      /\ ledgerExists
    BY DEF CommitMigration, CanApply, MigrationTypeOK, RunnerTypeOK, Ledgers
<1>3. LedgerMatchesRelations'
    BY <1>1, <1>2 DEF LedgerMatchesRelations, Recorded
<1>4. ASSUME NEW s \in Runner PROVE RunnerInv(s)'
    <2>1. \A w \in Version : ledger[w] = package[s][w] /\ package[s][w] # Absent
                => ledger'[w] = package[s][w]
        BY <1>2
    <2>2. CASE s # r
        BY <2>1, <2>2, <1>2 DEF RunnerInv, Recorded
    <2>3. CASE s = r
        BY <2>1, <2>3, <1>2 DEF RunnerInv, Recorded
    <2> QED
        BY <2>2, <2>3
<1>5. AppliedOnce'
    BY <1>2 DEF AppliedOnce, RunnerInv
<1> QED
    BY <1>2, <1>3, <1>4, <1>5

LEMMA MigrateInv ==
    ASSUME MigrationInv, MigrationTypeOK', NEW r \in Runner, Migrate(r)
    PROVE  MigrationInv'
<1> USE DEF runnerState, GoTo, Raise, MigrationTypeOK, RunnerTypeOK
<1>1. MigrationTypeOK
    BY DEF MigrationInv
<1>2. CASE CreateSchemaIfNotExists(r) \/ BootstrapCollides(r) \/ ApplyCollides(r)
    BY <1>1, <1>2, MoveOn DEF CreateSchemaIfNotExists, BootstrapCollides,
        ApplyCollides, schemaState
<1>3. CASE CommitBootstrap(r)
    BY <1>1, <1>3 DEF CommitBootstrap, MigrationInv, RunnerInv, Recorded,
        LedgerMatchesRelations, AppliedOnce
<1>4. CASE ReadLedger(r)
    BY <1>1, <1>4 DEF ReadLedger, schemaState, MigrationInv, RunnerInv, Recorded,
        LedgerMatchesRelations, AppliedOnce, PendingIn, Mismatched
<1>5. CASE ApplyMigration(r)
    <2>1. PICK v \in Version :
            /\ IsNext(r, v)
            /\ CanApply(v)
            /\ CommitMigration(r, v)
            /\ pending' = [pending EXCEPT ![r] = @ \ {v}]
            /\ newly' = [newly EXCEPT ![r] = @ \cup {v}]
        BY <1>5 DEF ApplyMigration
    <2> QED
        BY <1>1, <1>5, <2>1, CommitMigrationInv DEF ApplyMigration
<1>6. CASE ReturnMigrated(r)
    BY <1>1, <1>6 DEF ReturnMigrated, schemaState, MigrationInv, RunnerInv,
        Recorded, LedgerMatchesRelations, AppliedOnce
<1> QED
    BY <1>2, <1>3, <1>4, <1>5, <1>6 DEF Migrate

LEMMA InspectInv ==
    ASSUME MigrationInv, MigrationTypeOK', NEW r \in Runner, Inspect(r)
    PROVE  MigrationInv'
<1> USE DEF runnerState, schemaState, GoTo, Raise, MigrationTypeOK, RunnerTypeOK
<1>1. MigrationTypeOK
    BY DEF MigrationInv
<1>2. CASE InspectInconsistent(r) \/ InspectBootstrap(r)
    BY <1>1, <1>2, MoveOn DEF InspectInconsistent, InspectBootstrap
<1>3. CASE InspectUninitialised(r)
    BY <1>1, <1>3 DEF InspectUninitialised, Report, MigrationInv, RunnerInv,
        Recorded, LedgerMatchesRelations, AppliedOnce, Inspections
<1>4. CASE InspectLedger(r)
    BY <1>1, <1>4 DEF InspectLedger, Report, MigrationInv, RunnerInv, Recorded,
        LedgerMatchesRelations, AppliedOnce, PendingIn, Mismatched, Inspections
<1> QED
    BY <1>2, <1>3, <1>4 DEF Inspect

LEMMA FaultInv ==
    ASSUME MigrationInv, MigrationTypeOK', NEW r \in Runner, Fault(r)
    PROVE  MigrationInv'
<1> USE DEF runnerState, GoTo, Raise, MigrationTypeOK, RunnerTypeOK
<1>1. MigrationTypeOK
    BY DEF MigrationInv
<1>2. CASE Interrupt(r)
    BY <1>1, <1>2, MoveOn DEF Interrupt, schemaState
<1>3. CASE CommitMigrationUnacknowledged(r)
    <2>1. PICK v \in Version :
            IsNext(r, v) /\ CanApply(v) /\ CommitMigration(r, v)
        BY <1>3 DEF CommitMigrationUnacknowledged
    <2> QED
        BY <1>1, <1>3, <2>1, CommitMigrationInv DEF CommitMigrationUnacknowledged
<1>4. CASE CommitBootstrapUnacknowledged(r)
    BY <1>1, <1>4 DEF CommitBootstrapUnacknowledged, MigrationInv, RunnerInv,
        Recorded, LedgerMatchesRelations, AppliedOnce
<1> QED
    BY <1>2, <1>3, <1>4 DEF Fault

LEMMA MigrationInvStep ==
    ASSUME MigrationInv, [MigrationNext]_migrationVars
    PROVE  MigrationInv'
<1>1. MigrationTypeOK'
    BY MigrationTypeStep DEF MigrationInv
<1>2. CASE UNCHANGED migrationVars
    BY <1>2 DEF migrationVars, schemaState, runnerState, MigrationInv, RunnerInv,
        MigrationTypeOK, RunnerTypeOK, LedgerMatchesRelations, Recorded,
        AppliedOnce
<1>3. ASSUME NEW r \in Runner,
             Call(r) \/ Progress(r) \/ Fault(r) \/ EndCall(r)
      PROVE  MigrationInv'
    BY <1>1, <1>3, CallInv, MigrateInv, InspectInv, FaultInv DEF Progress
<1> QED
    BY <1>2, <1>3 DEF MigrationNext

LEMMA MigrationInductive == MigrationSpec => []MigrationInv
BY MigrationInvInit, MigrationInvStep, PTL DEF MigrationSpec

-----------------------------------------------------------------------------
(* What the invariant gives *)

\* A version is recorded exactly when its relations exist: no crash, lost
\* commit or competing runner separates a migration from its ledger row.
THEOREM LedgerIsAtomic == MigrationSpec => []LedgerMatchesRelations
<1>1. MigrationInv => LedgerMatchesRelations
    BY DEF MigrationInv
<1> QED
    BY <1>1, MigrationInductive, PTL

\* When migrate() returns, the ledger records the whole package, although it
\* decided what to skip from a snapshot that others may have outdated.
THEOREM MigrateBringsCurrent == MigrationSpec => []MigratedIsCurrent
<1>1. MigrationInv => MigratedIsCurrent
    BY DEF MigrationInv, RunnerInv, MigratedIsCurrent
<1> QED
    BY <1>1, MigrationInductive, PTL

\* No version is applied by two calls, without a lock between reading the
\* ledger and applying what is missing.
THEOREM MigrationsApplyOnce == MigrationSpec => []AppliedOnce
<1>1. MigrationInv => AppliedOnce
    BY DEF MigrationInv
<1> QED
    BY <1>1, MigrationInductive, PTL

\* What inspect() calls current is current, although its two transactions see
\* different states of the schema.
THEOREM InspectionIsTrue == MigrationSpec => []CurrentInspectionIsTrue
<1>1. MigrationInv => CurrentInspectionIsTrue
    BY DEF MigrationInv, RunnerInv, CurrentInspectionIsTrue, Current
<1> QED
    BY <1>1, MigrationInductive, PTL

\* No step of any runner rewrites or removes a recorded checksum.
THEOREM LedgerIsFrozen == MigrationSpec => LedgerFrozen
<1>1. MigrationInv /\ [MigrationNext]_migrationVars =>
        [\A v \in Recorded(ledger) : ledger'[v] = ledger[v]]_migrationVars
    BY LedgerGrows DEF MigrationInv
<1> QED
    BY <1>1, MigrationInductive, PTL DEF MigrationSpec, LedgerFrozen
-----------------------------------------------------------------------------
(* The ledger is a prefix of one package *)

\* Releases number new migrations after all earlier ones: no package lacks a
\* version that another package has below one of its own.  A release may edit
\* or drop migrations at its end.
ReleasesAppend ==
    \A res, other \in Resources : Discoverable(res) /\ Discoverable(other) =>
        \A v \in Recorded(Tracked(res)), w \in Recorded(Tracked(other)) :
            w < v => w \in Recorded(Tracked(res))

IsPackage(pkg) ==
    \E res \in Resources : Discoverable(res) /\ pkg = Tracked(res)

\* Whoever is going to apply migrations has discovered a package.
PackagesAreDiscovered ==
    \A r \in Runner :
        step[r] \in {"bootstrap", "create_ledger", "read_ledger", "apply"} =>
            IsPackage(package[r])

LEMMA PackagesStep ==
    ASSUME MigrationTypeOK, PackagesAreDiscovered,
           [MigrationNext]_migrationVars
    PROVE  PackagesAreDiscovered'
<1> USE DEF PackagesAreDiscovered, GoTo, Raise, Ended, runnerState,
            MigrationTypeOK, RunnerTypeOK
<1>1. CASE UNCHANGED migrationVars
    BY <1>1 DEF migrationVars
<1>2. ASSUME NEW r \in Runner, NEW res \in Resources,
             StartMigrate(r, res) \/ StartInspect(r, res)
      PROVE  PackagesAreDiscovered'
    BY <1>2 DEF StartMigrate, StartInspect, Discover, IsPackage
<1>3. ASSUME NEW r \in Runner, NEW res \in Resources, RejectPackage(r, res)
      PROVE  PackagesAreDiscovered'
    BY <1>3 DEF RejectPackage
<1>4. ASSUME NEW r \in Runner, Migrate(r)
      PROVE  PackagesAreDiscovered'
    BY <1>4 DEF Migrate, CreateSchemaIfNotExists, CommitBootstrap,
        BootstrapCollides, ReadLedger, ApplyMigration, ApplyCollides,
        ReturnMigrated
<1>5. ASSUME NEW r \in Runner, Inspect(r) \/ Validate(r)
      PROVE  PackagesAreDiscovered'
    BY <1>5 DEF Inspect, InspectUninitialised, InspectInconsistent,
        InspectBootstrap, InspectLedger, Report, Validate, RejectUnknown,
        RejectMismatch
<1>6. ASSUME NEW r \in Runner, Fault(r)
      PROVE  PackagesAreDiscovered'
    BY <1>6 DEF Fault, Interrupt, CommitMigrationUnacknowledged,
        CommitBootstrapUnacknowledged
<1>7. ASSUME NEW r \in Runner, EndCall(r)
      PROVE  PackagesAreDiscovered'
    BY <1>7 DEF EndCall
<1> QED
    BY <1>1, <1>2, <1>3, <1>4, <1>5, <1>6, <1>7 DEF MigrationNext, Call, Progress

\* The next pending version continues the prefix: below it everything of the
\* package is recorded, above it nothing is.
LEMMA NextExtendsPrefix ==
    ASSUME MigrationInv, PackagesAreDiscovered, LedgerIsPackagePrefix,
           ReleasesAppend,
           NEW r \in Runner, NEW v \in Version,
           step[r] = "apply", IsNext(r, v), CanApply(v), CommitMigration(r, v)
    PROVE  LedgerIsPackagePrefix'
<1>1. PICK res \in Resources : Discoverable(res) /\ package[r] = Tracked(res)
    BY DEF PackagesAreDiscovered, IsPackage
<1>2. PICK old \in Resources, n \in Version \cup {BootstrapVersion} :
        /\ Discoverable(old)
        /\ \A w \in Version :
            ledger[w] = IF w <= n THEN Tracked(old)[w] ELSE Absent
    BY DEF LedgerIsPackagePrefix
<1>3. Version \cup {BootstrapVersion} \subseteq Nat
    BY VersionAssumption DEF BootstrapVersion
<1>4. /\ v \in Recorded(Tracked(res))
      /\ ledger[v] = Absent
      /\ ledger' = [ledger EXCEPT ![v] = Tracked(res)[v]]
      /\ ledger \in [Version -> Checksum \cup {Absent}]
    BY <1>1 DEF MigrationInv, RunnerInv, IsNext, CanApply, CommitMigration,
        MigrationTypeOK, RunnerTypeOK, Ledgers
<1>5. ASSUME NEW w \in Version
      PROVE  ledger'[w] = IF w <= v THEN Tracked(res)[w] ELSE Absent
    <2>1. CASE w = v
        BY <1>3, <1>4, <2>1
    <2>2. CASE w < v
        <3>1. w \notin pending[r]
            BY <1>3, <2>2 DEF IsNext
        <3>2. CASE w \in Recorded(Tracked(res))
            BY <1>1, <1>3, <1>4, <2>2, <3>1, <3>2 DEF MigrationInv, RunnerInv
        <3>3. CASE w \notin Recorded(Tracked(res))
            <4>1. w \notin Recorded(Tracked(old))
                BY <1>1, <1>2, <1>4, <2>2, <3>3 DEF ReleasesAppend
            <4>2. ledger[w] = Absent
                BY <1>2, <4>1 DEF Recorded
            <4> QED
                BY <1>3, <1>4, <2>2, <3>3, <4>2 DEF Recorded
        <3> QED
            BY <3>2, <3>3
    <2>3. CASE v < w
        <3>1. SUFFICES ledger[w] = Absent
            BY <1>3, <1>4, <2>3
        <3>2. SUFFICES ASSUME ledger[w] # Absent PROVE FALSE
            OBVIOUS
        <3>3. w <= n /\ w \in Recorded(Tracked(old))
            BY <1>2, <3>2 DEF Recorded
        <3>4. v \in Recorded(Tracked(old))
            BY <1>1, <1>2, <1>4, <2>3, <3>3 DEF ReleasesAppend
        <3>5. v <= n
            BY <1>3, <2>3, <3>3
        <3> QED
            BY <1>2, <1>4, <3>4, <3>5 DEF Recorded
    <2> QED
        BY <1>3, <2>1, <2>2, <2>3
<1> QED
    BY <1>1, <1>5 DEF LedgerIsPackagePrefix

LEMMA PrefixStep ==
    ASSUME MigrationInv, PackagesAreDiscovered, LedgerIsPackagePrefix,
           ReleasesAppend, [MigrationNext]_migrationVars
    PROVE  LedgerIsPackagePrefix'
<1>1. CASE UNCHANGED ledger
    BY <1>1 DEF LedgerIsPackagePrefix
<1>2. \/ UNCHANGED ledger
      \/ \E r \in Runner, v \in Version :
            /\ step[r] = "apply"
            /\ IsNext(r, v)
            /\ CanApply(v)
            /\ CommitMigration(r, v)
    BY LedgerChanges
<1> QED
    BY <1>1, <1>2, NextExtendsPrefix

\* As long as releases append their migrations, the ledger is a prefix of one
\* package: no crash, lost commit or race of a longer, shorter or edited package
\* leaves a gap or mixes the migrations of two packages.
THEOREM LedgerHasNoGap ==
    ReleasesAppend /\ (\E res \in Resources : Discoverable(res))
        => (MigrationSpec => []LedgerIsPackagePrefix)
<1> SUFFICES ASSUME ReleasesAppend, \E res \in Resources : Discoverable(res)
             PROVE  MigrationSpec => []LedgerIsPackagePrefix
    OBVIOUS
<1>1. MigrationInit => LedgerIsPackagePrefix
    BY VersionAssumption
    DEF MigrationInit, LedgerIsPackagePrefix, BootstrapVersion
<1>2. MigrationInit => PackagesAreDiscovered
    BY DEF MigrationInit, PackagesAreDiscovered
<1>3. MigrationInv /\ PackagesAreDiscovered /\ LedgerIsPackagePrefix
        /\ [MigrationNext]_migrationVars
      => PackagesAreDiscovered' /\ LedgerIsPackagePrefix'
    BY PackagesStep, PrefixStep DEF MigrationInv
<1> QED
    BY <1>1, <1>2, <1>3, MigrationInductive, PTL DEF MigrationSpec
=============================================================================
